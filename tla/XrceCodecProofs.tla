-------------------------- MODULE XrceCodecProofs --------------------------
(* What every function of Micro CDR keeps true of its buffer, for every    *)
(* slots, offset and length, and what the codec keeps true of messages,    *)
(* for every capacity, length, type of the user and cut of the slots.      *)
EXTENDS XrceCodec, FiniteSetTheorems, TLAPS

\* Alignment may be left out after an access at least as large, because the offset is
\* then a multiple of the size of that access.
Sound(buf) == buf.error \/ buf.last = 0 \/ buf.offset % buf.last = 0

\* A buffer over slots that follow each other, with its iterator not before its slot.
Regular(buf) ==
  /\ buf \in Buffers /\ buf.at \in Nat
  /\ buf.ends # <<>>
  /\ \A i, j \in DOMAIN buf.ends : i <= j => buf.ends[i] <= buf.ends[j]
  /\ buf.full # "out" => buf.slot \in DOMAIN buf.ends

---------------------------------------------------------------------------
(* Arithmetic of the alignment.                                            *)

\* The sizes of the values.
LEMMA Sizes == ASSUME NEW n \in DataSizes PROVE n = 1 \/ n = 2 \/ n = 4 \/ n = 8
BY DEF DataSizes

\* ucdr_alignment brings an offset to the next multiple.
LEMMA PaddingFills ==
  ASSUME NEW offset \in Nat, NEW n \in DataSizes
  PROVE  Padding(offset, n) \in Nat /\ Padding(offset, n) < n
         /\ (offset + Padding(offset, n)) % n = 0
<1>1. CASE n = 1 BY <1>1 DEF Padding
<1>2. CASE n = 2 BY <1>2 DEF Padding
<1>3. CASE n = 4 BY <1>3 DEF Padding
<1>4. CASE n = 8 BY <1>4 DEF Padding
<1> QED BY <1>1, <1>2, <1>3, <1>4, Sizes

\* A multiple of one size is a multiple of every smaller one.
LEMMA SmallerDivides ==
  ASSUME NEW offset \in Nat, NEW n \in DataSizes, NEW m \in DataSizes,
         n <= m, offset % m = 0
  PROVE  offset % n = 0
<1>1. CASE n = 1 BY <1>1
<1>2. CASE n = 2
  <2>1. m = 2 \/ m = 4 \/ m = 8 BY <1>2, Sizes
  <2> QED BY <1>2, <2>1
<1>3. CASE n = 4
  <2>1. m = 4 \/ m = 8 BY <1>3, Sizes
  <2> QED BY <1>3, <2>1
<1>4. CASE n = 8 BY <1>4, Sizes
<1> QED BY <1>1, <1>2, <1>3, <1>4, Sizes

\* Whole values keep an offset a multiple of their size.
LEMMA MultipleStays ==
  ASSUME NEW offset \in Nat, NEW count \in Nat, NEW n \in DataSizes, offset % n = 0
  PROVE  (offset + count * n) % n = 0 /\ count * n \in Nat
<1>1. CASE n = 1 BY <1>1
<1>2. CASE n = 2 BY <1>2
<1>3. CASE n = 4 BY <1>3
<1>4. CASE n = 8 BY <1>4
<1> QED BY <1>1, <1>2, <1>3, <1>4, Sizes

\* ucdr_buffer_alignment leaves the padding out only where there is none.
LEMMA AlignmentFills ==
  ASSUME NEW buf \in Buffers, Sound(buf), ~buf.error, NEW n \in DataSizes
  PROVE  BufferAlignment(buf, n) \in Nat /\ (buf.offset + BufferAlignment(buf, n)) % n = 0
<1>1. buf.offset \in Nat /\ buf.last \in {0} \cup DataSizes BY DEF Buffers
<1>2. CASE n > buf.last
  BY <1>1, <1>2, PaddingFills DEF BufferAlignment
<1>3. CASE ~(n > buf.last)
  <2>1. buf.last \in DataSizes /\ n <= buf.last BY <1>1, <1>3 DEF DataSizes
  <2>2. buf.offset % buf.last = 0 BY <2>1 DEF Sound, DataSizes
  <2>3. buf.offset % n = 0 BY <1>1, <2>1, <2>2, SmallerDivides
  <2> QED BY <1>1, <1>3, <2>3 DEF BufferAlignment
<1> QED BY <1>2, <1>3

---------------------------------------------------------------------------
(* Slots.                                                                  *)

\* Where a slot begins and how large it is are numbers.
LEMMA SlotType ==
  ASSUME NEW buf, Regular(buf)
  PROVE  /\ buf.ends \in Seq(Nat) /\ Len(buf.ends) \in Nat \ {0}
         /\ DOMAIN buf.ends = 1..Len(buf.ends)
         /\ \A i \in DOMAIN buf.ends : buf.ends[i] \in Nat
         /\ buf.slot \in Nat \ {0} /\ buf.at \in Nat /\ buf.offset \in Nat
         /\ buf.last \in {0} \cup DataSizes /\ buf.error \in BOOLEAN
         /\ buf.full \in {"none", "out", "in"}
         /\ \A slot \in Nat \ {0} : Begins(buf, slot) \in Nat
         /\ SlotSize(buf) \in Int
         /\ BufferRemaining(buf) \in Nat
         /\ Position(buf) \in Nat
<1>1. /\ buf.ends \in Seq(Nat) /\ buf.slot \in Nat \ {0} /\ buf.at \in Nat /\ buf.offset \in Nat
      /\ buf.last \in {0} \cup DataSizes /\ buf.error \in BOOLEAN
      /\ buf.full \in {"none", "out", "in"}
  BY DEF Regular, Buffers
<1>2. /\ Len(buf.ends) \in Nat \ {0} /\ DOMAIN buf.ends = 1..Len(buf.ends)
      /\ \A i \in DOMAIN buf.ends : buf.ends[i] \in Nat
  BY <1>1 DEF Regular
<1>3. \A slot \in Nat \ {0} : Begins(buf, slot) \in Nat
  BY <1>2 DEF Begins, Wrapped
<1>4. SlotSize(buf) \in Int
  BY <1>1, <1>2, <1>3 DEF SlotSize, Wrapped
<1>5. BufferRemaining(buf) \in Nat
  BY <1>1, <1>4 DEF BufferRemaining
<1>6. Position(buf) \in Nat
  <2>1. Begins(buf, buf.slot) \in Nat /\ Begins(buf, buf.slot + 1) \in Nat BY <1>1, <1>3
  <2> QED BY <1>1, <2>1 DEF Position
<1> QED BY <1>1, <1>2, <1>3, <1>4, <1>5, <1>6

\* An interval from 1 has as many elements as its end says.
LEMMA UpTo ==
  ASSUME NEW n \in Nat
  PROVE  IsFiniteSet(1..n) /\ Cardinality(1..n) = n
<1>1. /\ IsFiniteSet(1..n)
      /\ Cardinality(1..n) = IF 1 > n THEN 0 ELSE n - 1 + 1
  BY FS_Interval
<1>2. (IF 1 > n THEN 0 ELSE n - 1 + 1) = n OBVIOUS
<1> QED BY <1>1, <1>2

\* The slot found for a position is the first one that reaches so far.
LEMMA SlotFound ==
  ASSUME NEW buf, Regular(buf), NEW pos \in Nat
  PROVE  /\ SlotAt(buf, pos) \in Nat \ {0} /\ SlotAt(buf, pos) <= Len(buf.ends) + 1
         /\ \A j \in DOMAIN buf.ends : pos <= buf.ends[j] => SlotAt(buf, pos) <= j
         /\ \A j \in DOMAIN buf.ends : buf.ends[j] < pos => SlotAt(buf, pos) > j
<1> DEFINE L == Len(buf.ends)
           S == {s \in DOMAIN buf.ends : buf.ends[s] < pos}
<1>1. /\ L \in Nat \ {0} /\ DOMAIN buf.ends = 1..L
      /\ \A i \in 1..L : buf.ends[i] \in Nat
  BY SlotType
<1>2. \A i, j \in 1..L : i <= j => buf.ends[i] <= buf.ends[j]
  BY <1>1 DEF Regular
<1>3. IsFiniteSet(1..L) /\ Cardinality(1..L) = L BY <1>1, UpTo
<1>4. S \in SUBSET (1..L) BY <1>1
<1> HIDE DEF S
<1>5. IsFiniteSet(S) /\ Cardinality(S) <= L BY <1>3, <1>4, FS_Subset
<1>6. Cardinality(S) \in Nat BY <1>5, FS_CardinalityType
<1>7. ASSUME NEW j \in 1..L, pos <= buf.ends[j] PROVE Cardinality(S) <= j - 1
  <2>1. S \in SUBSET (1..(j - 1)) BY <1>1, <1>2, <1>7 DEF S
  <2>2. IsFiniteSet(1..(j - 1)) /\ Cardinality(1..(j - 1)) = j - 1
    <3>1. j - 1 \in Nat BY <1>1
    <3> QED BY <3>1, UpTo
  <2> QED BY <2>1, <2>2, FS_Subset
<1>8. ASSUME NEW j \in 1..L, buf.ends[j] < pos PROVE Cardinality(S) >= j
  <2>1. (1..j) \in SUBSET S
    <3>1. ASSUME NEW i \in 1..j PROVE i \in S
      <4>1. i \in 1..L /\ i <= j BY <1>1, <3>1
      <4>2. buf.ends[i] <= buf.ends[j] BY <1>2, <4>1
      <4> QED BY <1>1, <1>8, <4>1, <4>2 DEF S
    <3> QED BY <3>1
  <2>2. Cardinality(1..j) = j BY <1>1, UpTo
  <2>3. Cardinality(1..j) <= Cardinality(S) BY <1>5, <2>1, FS_Subset
  <2> QED BY <2>2, <2>3
<1>9. SlotAt(buf, pos) = 1 + Cardinality(S) BY DEF SlotAt, S
<1> QED BY <1>1, <1>5, <1>6, <1>7, <1>8, <1>9

\* Every position lies behind the beginning of its slot.
LEMMA BeginsBefore ==
  ASSUME NEW buf, Regular(buf), NEW pos \in Nat
  PROVE  Begins(buf, SlotAt(buf, pos)) <= pos
<1> DEFINE slot == SlotAt(buf, pos)
<1>1. slot \in Nat \ {0} /\ slot <= Len(buf.ends) + 1 BY SlotFound
<1>2. CASE slot = 1 BY <1>2 DEF Begins
<1>3. CASE slot # 1
  <2>1. slot - 1 \in DOMAIN buf.ends BY <1>1, <1>3, SlotType
  <2>2. buf.ends[slot - 1] < pos
    <3>1. buf.ends[slot - 1] \in Nat BY <2>1, SlotType
    <3>2. pos <= buf.ends[slot - 1] => slot <= slot - 1 BY <2>1, SlotFound
    <3> QED BY <1>1, <3>1, <3>2
  <2>3. Begins(buf, slot) = buf.ends[slot - 1] BY <1>3, <2>1 DEF Begins
  <2>4. buf.ends[slot - 1] \in Nat BY <2>1, SlotType
  <2> QED BY <2>2, <2>3, <2>4
<1> QED BY <1>2, <1>3

---------------------------------------------------------------------------
(* Moving bytes.                                                           *)

\* No more bytes are moved than asked for or than the slots of a reader have.
LEMMA AvailableBounds ==
  ASSUME NEW buf, Regular(buf), NEW n \in Nat
  PROVE  /\ Available(buf, n) \in 0..n
         /\ buf.error => Available(buf, n) = 0
         /\ buf.full = "none" => Available(buf, n) <= BufferRemaining(buf)
         /\ buf.full = "in" => Position(buf) + Available(buf, n) <= buf.ends[Len(buf.ends)]
         /\ buf.full = "in" => buf.ends[Len(buf.ends)] \in Nat
<1> DEFINE L == Len(buf.ends)
<1>1. /\ L \in Nat \ {0} /\ DOMAIN buf.ends = 1..L
      /\ \A i \in 1..L : buf.ends[i] \in Nat
      /\ buf.slot \in Nat \ {0} /\ buf.at \in Nat /\ buf.error \in BOOLEAN
      /\ buf.full \in {"none", "out", "in"}
      /\ BufferRemaining(buf) \in Nat /\ Position(buf) \in Nat
  BY SlotType
<1>2. buf.full = "in" => Position(buf) <= buf.ends[L]
  <2> SUFFICES ASSUME buf.full = "in" PROVE Position(buf) <= buf.ends[L] OBVIOUS
  <2>1. buf.slot \in 1..L /\ buf.ends[buf.slot] <= buf.ends[L]
    BY <1>1 DEF Regular
  <2>2. SlotSize(buf) = buf.ends[buf.slot] - Begins(buf, buf.slot)
    BY <1>1, <2>1 DEF SlotSize
  <2>3. Begins(buf, buf.slot + 1) = buf.ends[buf.slot]
    <3>1. buf.slot + 1 # 1 /\ (buf.slot + 1) - 1 = buf.slot BY <1>1
    <3> QED BY <1>1, <2>1, <3>1 DEF Begins
  <2>4. Begins(buf, buf.slot) \in Nat BY <1>1, SlotType
  <2>5. buf.ends[buf.slot] \in Nat /\ buf.ends[L] \in Nat BY <1>1, <2>1
  <2>6. CASE buf.at < SlotSize(buf)
    <3>1. Position(buf) = Begins(buf, buf.slot) + buf.at BY <2>6 DEF Position
    <3> QED BY <1>1, <2>1, <2>2, <2>4, <2>5, <2>6, <3>1
  <2>7. CASE ~(buf.at < SlotSize(buf))
    <3>1. Position(buf) = Begins(buf, buf.slot + 1) BY <2>7 DEF Position
    <3> QED BY <2>1, <2>3, <3>1
  <2> QED BY <2>6, <2>7
<1>3. buf.ends[L] \in Nat BY <1>1
<1> HIDE DEF L
<1> QED BY <1>1, <1>2, <1>3 DEF Available, L

\* What ucdr_advance_buffer and the loops over an array leave: the buffer stays a
\* buffer, and without an error all bytes have been moved.
LEMMA MovedRegular ==
  ASSUME NEW buf, Regular(buf), NEW n \in Nat, NEW dataSize \in DataSizes
  PROVE  LET b == Moved(buf, n, dataSize) IN
         /\ Regular(b)
         /\ b.ends = buf.ends /\ b.full = buf.full /\ b.last = dataSize
         /\ b.error = (buf.error \/ Available(buf, n) < n)
         /\ ~b.error => b.offset = buf.offset + n
<1> DEFINE b == Moved(buf, n, dataSize)
           k == Available(buf, n)
           pos == Position(buf) + k
           slot == IF k = 0 THEN buf.slot ELSE SlotAt(buf, pos)
           at == IF k = 0 THEN buf.at ELSE pos - Begins(buf, slot)
<1>1. /\ buf \in Buffers /\ buf.slot \in Nat \ {0} /\ buf.at \in Nat /\ buf.offset \in Nat
      /\ Position(buf) \in Nat /\ Len(buf.ends) \in Nat \ {0} /\ DOMAIN buf.ends = 1..Len(buf.ends)
      /\ buf.full \in {"none", "out", "in"} /\ buf.error \in BOOLEAN
  BY SlotType DEF Regular
<1>2. k \in Nat /\ k <= n BY AvailableBounds
<1>3. pos \in Nat BY <1>1, <1>2
<1>4. slot \in Nat \ {0} BY <1>1, <1>3, SlotFound
<1>5. at \in Nat
  <2>1. CASE k = 0 BY <1>1, <2>1
  <2>2. CASE k # 0
    <3>1. Begins(buf, SlotAt(buf, pos)) <= pos BY <1>3, BeginsBefore
    <3>2. Begins(buf, slot) \in Nat BY <1>4, SlotType
    <3> QED BY <1>3, <2>2, <3>1, <3>2
  <2> QED BY <2>1, <2>2
<1>6. buf.full # "out" => slot \in DOMAIN buf.ends
  <2> SUFFICES ASSUME buf.full # "out" PROVE slot \in DOMAIN buf.ends OBVIOUS
  <2>0. buf.slot \in DOMAIN buf.ends BY DEF Regular
  <2>1. CASE k = 0 BY <2>0, <2>1
  <2>2. CASE k # 0 /\ buf.full = "in"
    <3>1. Len(buf.ends) \in DOMAIN buf.ends BY <1>1
    <3>2. pos <= buf.ends[Len(buf.ends)] BY <2>2, AvailableBounds
    <3>3. SlotAt(buf, pos) <= Len(buf.ends) BY <1>3, <3>1, <3>2, SlotFound
    <3> QED BY <1>1, <1>4, <2>2, <3>3
  <2>3. CASE k # 0 /\ buf.full = "none"
    <3>1. SlotSize(buf) = buf.ends[buf.slot] - Begins(buf, buf.slot) BY <2>0 DEF SlotSize
    <3>2. k <= BufferRemaining(buf) BY <2>3, AvailableBounds
    <3>3. SlotSize(buf) \in Int /\ Begins(buf, buf.slot) \in Nat /\ buf.ends[buf.slot] \in Nat
      BY <1>1, <2>0, SlotType
    <3>4. buf.at + k <= SlotSize(buf) /\ buf.at < SlotSize(buf)
      BY <1>1, <1>2, <2>3, <3>2, <3>3 DEF BufferRemaining
    <3>5. pos <= buf.ends[buf.slot]
      <4>1. Position(buf) = Begins(buf, buf.slot) + buf.at BY <3>4 DEF Position
      <4> HIDE DEF k
      <4> QED BY <1>1, <1>2, <3>1, <3>3, <3>4, <4>1
    <3>6. SlotAt(buf, pos) <= buf.slot BY <1>3, <2>0, <3>5, SlotFound
    <3> QED BY <1>1, <1>4, <2>0, <2>3, <3>6
  <2> QED BY <1>1, <2>1, <2>2, <2>3
<1> HIDE DEF k, pos, slot, at
<1>7. b = [buf EXCEPT !.slot = slot, !.at = at, !.offset = @ + k, !.last = dataSize,
                     !.error = @ \/ k < n]
  BY DEF Moved, MovedBy, k, pos, slot, at
<1> HIDE DEF b
<1>8. /\ b.ends = buf.ends /\ b.slot = slot /\ b.at = at /\ b.offset = buf.offset + k
      /\ b.last = dataSize /\ b.full = buf.full
  BY <1>1, <1>7 DEF Buffers
<1>9. b.error = (buf.error \/ k < n) BY <1>1, <1>7 DEF Buffers
<1>10. b \in Buffers
  <2>1. buf.offset + k \in Nat /\ at \in Int BY <1>1, <1>2, <1>5
  <2>2. (buf.error \/ k < n) \in BOOLEAN OBVIOUS
  <2> DEFINE error == buf.error \/ k < n
  <2> HIDE DEF error
  <2>4. b = [buf EXCEPT !.slot = slot, !.at = at, !.offset = buf.offset + k,
                       !.last = dataSize, !.error = error]
    BY <1>1, <1>7 DEF error, Buffers
  <2>5. error \in BOOLEAN BY <2>2 DEF error
  <2>6. dataSize \in {0} \cup DataSizes OBVIOUS
  <2> QED BY <1>1, <1>4, <2>1, <2>4, <2>5, <2>6 DEF Buffers
<1>11. Regular(b)
  BY <1>1, <1>5, <1>6, <1>8, <1>10 DEF Regular
<1>12. ~b.error => b.offset = buf.offset + n
  <2>1. ~b.error => ~(k < n) BY <1>9
  <2>2. ~(k < n) => k = n BY <1>2
  <2> QED BY <1>8, <2>1, <2>2
<1> QED BY <1>8, <1>9, <1>11, <1>12 DEF b, k

---------------------------------------------------------------------------
(* Values.                                                                 *)

\* Before a value is written or read the offset is a multiple of its size, or the
\* buffer has an error.
LEMMA AlignedFacts ==
  ASSUME NEW buf, Regular(buf), Sound(buf), NEW n \in DataSizes
  PROVE  LET a == Aligned(buf, n) IN
         /\ Regular(a) /\ a.ends = buf.ends /\ a.full = buf.full /\ a.last = 1
         /\ buf.error => a.error
         /\ ~a.error => a.offset % n = 0
<1> DEFINE a == Aligned(buf, n)
           padding == BufferAlignment(buf, n)
<1>1. buf \in Buffers /\ buf.offset \in Nat /\ buf.error \in BOOLEAN BY SlotType DEF Regular
<1>2. padding \in Nat
  BY <1>1, PaddingFills DEF BufferAlignment
<1>3. 1 \in DataSizes BY DEF DataSizes
<1>4. a = Moved(buf, padding, 1) BY DEF Aligned, AdvanceBuffer
<1> HIDE DEF a, padding
<1>5. /\ Regular(a) /\ a.ends = buf.ends /\ a.full = buf.full /\ a.last = 1
      /\ a.error = (buf.error \/ Available(buf, padding) < padding)
      /\ ~a.error => a.offset = buf.offset + padding
  BY <1>2, <1>3, <1>4, MovedRegular
<1>6. buf.error => a.error BY <1>5
<1>7. ~a.error => a.offset % n = 0
  <2> SUFFICES ASSUME ~a.error PROVE a.offset % n = 0 OBVIOUS
  <2>1. buf \in Buffers /\ ~buf.error BY <1>1, <1>6
  <2>2. (buf.offset + padding) % n = 0 BY <2>1, AlignmentFills DEF padding
  <2> QED BY <1>5, <2>2
<1> QED BY <1>5, <1>6, <1>7 DEF a

\* A callback of a full slot leaves a buffer whose alignment goes on from the slot that
\* was full.
LEMMA ContinuedFacts ==
  ASSUME NEW a, Regular(a)
  PROVE  LET b == Continued(a) IN
         /\ Regular(b) /\ b.ends = a.ends /\ b.full = a.full
         /\ b.offset = a.offset + BufferRemaining(a)
<1> DEFINE room == BufferRemaining(a)
           c == [a EXCEPT !.at = @ + room, !.offset = @ + room]
           b == Continued(a)
<1>1. /\ a \in Buffers /\ a.slot \in Nat \ {0} /\ a.at \in Nat /\ a.offset \in Nat /\ room \in Nat
      /\ Len(a.ends) \in Nat \ {0} /\ DOMAIN a.ends = 1..Len(a.ends)
      /\ a.full \in {"none", "out", "in"}
  BY SlotType DEF Regular
<1>2. b = OnFull(c) BY DEF Continued
<1> HIDE DEF room
<1>a. a.at + room \in Nat /\ a.at + room \in Int /\ a.offset + room \in Nat BY <1>1
<1>b. c = [a EXCEPT !.at = a.at + room, !.offset = a.offset + room] BY <1>1 DEF Buffers
<1>3. /\ c \in Buffers /\ c.at \in Nat /\ c.slot = a.slot /\ c.ends = a.ends /\ c.full = a.full
      /\ c.offset = a.offset + room
  <2> HIDE DEF c
  <2>1. c \in Buffers BY <1>1, <1>a, <1>b DEF Buffers
  <2>2. /\ c.at = a.at + room /\ c.slot = a.slot /\ c.ends = a.ends /\ c.full = a.full
        /\ c.offset = a.offset + room
    BY <1>1, <1>b DEF Buffers
  <2> QED BY <1>a, <2>1, <2>2
<1> HIDE DEF c, b
<1>4. Regular(c) BY <1>3 DEF Regular
<1>5. LET e == [c EXCEPT !.error = TRUE] IN
        Regular(e) /\ e.ends = a.ends /\ e.full = a.full /\ e.offset = c.offset
  BY <1>3, <1>4 DEF Regular, Buffers
<1>6. ASSUME a.full # "out" => c.slot + 1 \in DOMAIN c.ends
      PROVE  LET e == NextSlot(c) IN
        Regular(e) /\ e.ends = a.ends /\ e.full = a.full /\ e.offset = c.offset
  <2> DEFINE e == NextSlot(c)
  <2>1. e = [c EXCEPT !.slot = c.slot + 1, !.at = 0, !.last = 0]
    BY <1>3 DEF NextSlot, Buffers
  <2>2. c.slot + 1 \in Nat \ {0} /\ 0 \in Int /\ 0 \in Nat BY <1>1, <1>3
  <2>3. e \in Buffers /\ e.at = 0 BY <1>3, <2>1, <2>2 DEF Buffers
  <2>4. e.ends = c.ends /\ e.full = c.full /\ e.offset = c.offset /\ e.slot = c.slot + 1
    BY <1>3, <2>1 DEF Buffers
  <2> HIDE DEF e
  <2>5. Regular(e) BY <1>3, <1>4, <1>6, <2>2, <2>3, <2>4 DEF Regular
  <2> QED BY <1>3, <2>4, <2>5 DEF e
<1>7. CASE a.full = "out"
  <2>1. b = NextSlot(c) BY <1>2, <1>3, <1>7 DEF OnFull, OnFullOutput
  <2> QED BY <1>3, <1>6, <1>7, <2>1 DEF b, room
<1>8. CASE a.full = "none"
  <2>1. b = [c EXCEPT !.error = TRUE] BY <1>2, <1>3, <1>8 DEF OnFull
  <2> QED BY <1>3, <1>5, <2>1 DEF b, room
<1>9. CASE a.full = "in"
  <2>1. b = IF c.slot < Len(c.ends) THEN NextSlot(c) ELSE [c EXCEPT !.error = TRUE]
    BY <1>2, <1>3, <1>9 DEF OnFull, OnFullInput
  <2>2. CASE c.slot < Len(c.ends)
    <3>1. c.slot + 1 \in DOMAIN c.ends BY <1>1, <1>3, <2>2
    <3> QED BY <1>3, <1>6, <2>1, <2>2, <3>1 DEF b, room
  <2>3. CASE ~(c.slot < Len(c.ends))
    BY <1>3, <1>5, <2>1, <2>3 DEF b, room
  <2> QED BY <2>2, <2>3
<1> QED BY <1>1, <1>7, <1>8, <1>9
\* A value is written at an offset that is a multiple of its size, in one piece or split
\* over two slots, and leaves a buffer in which the next padding may be left out for the
\* same reason (basic.c).
THEOREM ValueAligned ==
  ASSUME NEW buf, Regular(buf), Sound(buf), NEW n \in DataSizes
  PROVE  LET b == Value(buf, n) IN
         /\ Regular(b) /\ Sound(b) /\ b.ends = buf.ends /\ b.full = buf.full
         /\ buf.error => b.error
         /\ ~b.error => (b.offset - n) % n = 0
<1> DEFINE a == Aligned(buf, n)
           room == BufferRemaining(a)
           c == Continued(a)
           b == Value(buf, n)
<1>1. /\ Regular(a) /\ a.ends = buf.ends /\ a.full = buf.full /\ a.last = 1
      /\ buf.error => a.error
      /\ ~a.error => a.offset % n = 0
  BY AlignedFacts
<1> HIDE DEF a
<1>2. /\ a \in Buffers /\ a.slot \in Nat \ {0} /\ a.at \in Nat /\ a.offset \in Nat /\ room \in Nat
      /\ a.error \in BOOLEAN
  BY <1>1, SlotType DEF Regular
<1>3. Regular(c) /\ c.ends = a.ends /\ c.full = a.full /\ c.offset = a.offset + room
  BY <1>1, ContinuedFacts
<1>4. c \in Buffers /\ c.offset \in Nat /\ c.error \in BOOLEAN BY <1>3, SlotType DEF Regular
<1>5. n \in Nat \ {0} BY Sizes
<1>6. a.offset % n = 0 => (a.offset + n) % n = 0 /\ ((a.offset + n) - n) % n = 0
  <2>1. a.offset % n = 0 => (a.offset + 1 * n) % n = 0 BY <1>2, MultipleStays
  <2>2. (a.offset + n) - n = a.offset /\ 1 * n = n BY <1>2, <1>5
  <2> QED BY <2>1, <2>2
<1>7. buf.last \in {0} \cup DataSizes BY SlotType
<1> HIDE DEF room, c, b
<1>8. CASE a.error
  <2>1. b = a BY <1>8 DEF b, Value, ValueFrom, a
  <2> QED BY <1>1, <1>8, <2>1 DEF Sound, b
<1>9. CASE ~a.error /\ n <= room
  <2>0. ~(n > room) BY <1>2, <1>5, <1>9
  <2>1. b = [a EXCEPT !.at = a.at + n, !.offset = a.offset + n, !.last = n]
    BY <1>9, <2>0 DEF b, Value, ValueFrom, a, room
  <2>2. a.at + n \in Nat /\ a.at + n \in Int /\ a.offset + n \in Nat BY <1>2, <1>5
  <2>3. b \in Buffers BY <1>2, <2>1, <2>2 DEF Buffers
  <2>4. /\ b.at = a.at + n /\ b.offset = a.offset + n /\ b.last = n /\ b.ends = a.ends
        /\ b.full = a.full /\ b.slot = a.slot /\ b.error = a.error
    BY <1>2, <2>1 DEF Buffers
  <2>5. Regular(b) BY <1>1, <2>2, <2>3, <2>4 DEF Regular
  <2>6. Sound(b) BY <1>1, <1>6, <1>9, <2>4 DEF Sound
  <2> QED BY <1>1, <1>6, <1>9, <2>4, <2>5, <2>6 DEF b
<1>10. CASE ~a.error /\ ~(n <= room) /\ c.error
  <2>1. n > room BY <1>2, <1>5, <1>10
  <2> DEFINE last == IF room > 0 THEN buf.last ELSE a.last
  <2>2. b = [a EXCEPT !.error = TRUE, !.last = last]
    BY <1>2, <1>10, <2>1 DEF b, Value, ValueFrom, a, room, c, Buffers
  <2>3. last \in {0} \cup DataSizes BY <1>1, <1>7 DEF DataSizes
  <2> HIDE DEF last
  <2>4. b \in Buffers BY <1>2, <2>2, <2>3 DEF Buffers
  <2>5. /\ b.at = a.at /\ b.ends = a.ends /\ b.full = a.full /\ b.slot = a.slot /\ b.error = TRUE
    BY <1>2, <2>2 DEF Buffers
  <2>6. Regular(b) BY <1>1, <2>4, <2>5 DEF Regular
  <2> QED BY <1>1, <2>5, <2>6 DEF Sound, b
<1>11. CASE ~a.error /\ ~(n <= room) /\ ~c.error
  <2>1. n > room BY <1>2, <1>5, <1>11
  <2>2. b = [c EXCEPT !.at = n - room, !.offset = c.offset + (n - room), !.last = n]
    BY <1>4, <1>11, <2>1 DEF b, Value, ValueFrom, a, room, c, Buffers
  <2>3. n - room \in Nat /\ n - room \in Int /\ c.offset + (n - room) = a.offset + n
    BY <1>2, <1>3, <1>5, <2>1
  <2>4. a.offset + n \in Nat BY <1>2, <1>5
  <2>5. b \in Buffers BY <1>4, <2>2, <2>3, <2>4 DEF Buffers
  <2>6. /\ b.at = n - room /\ b.offset = a.offset + n /\ b.last = n /\ b.ends = c.ends
        /\ b.full = c.full /\ b.slot = c.slot /\ b.error = c.error
    BY <1>4, <2>2, <2>3 DEF Buffers
  <2>7. Regular(b) BY <1>3, <2>3, <2>5, <2>6 DEF Regular
  <2>8. Sound(b) BY <1>1, <1>6, <1>11, <2>6 DEF Sound
  <2> QED BY <1>1, <1>3, <1>6, <1>11, <2>6, <2>7, <2>8 DEF b
<1> QED BY <1>8, <1>9, <1>10, <1>11
\* The values of an array are written at multiples of their size, however many slots it
\* takes (array.c).
THEOREM ArrayAligned ==
  ASSUME NEW buf, Regular(buf), Sound(buf), NEW count \in Nat, NEW n \in DataSizes
  PROVE  LET b == Array(buf, count, n) IN
         /\ Regular(b) /\ Sound(b) /\ b.ends = buf.ends /\ b.full = buf.full
         /\ buf.error => b.error
         /\ ~b.error => ArrayStart(buf, n).offset % n = 0
<1> DEFINE a == Aligned(buf, n)
           start == ArrayStart(buf, n)
           b == Array(buf, count, n)
<1>1. /\ Regular(a) /\ a.ends = buf.ends /\ a.full = buf.full
      /\ buf.error => a.error
      /\ ~a.error => a.offset % n = 0
  BY AlignedFacts
<1>2. a \in Buffers /\ a.offset \in Nat /\ a.error \in BOOLEAN /\ buf.last \in {0} \cup DataSizes
  BY <1>1, SlotType DEF Regular
<1>3. start = [a EXCEPT !.last = buf.last] BY DEF ArrayStart
<1>4. b = Moved(start, count * n, n) BY DEF Array
<1>5. count * n \in Nat
  <2>1. n \in Nat BY Sizes
  <2> QED BY <2>1
<1> HIDE DEF a, start, b
<1>6. /\ start \in Buffers /\ start.at = a.at /\ start.slot = a.slot /\ start.ends = a.ends
      /\ start.full = a.full /\ start.offset = a.offset /\ start.error = a.error
  BY <1>2, <1>3 DEF Buffers
<1>7. Regular(start) BY <1>1, <1>6 DEF Regular
<1>8. /\ Regular(b) /\ b.ends = start.ends /\ b.full = start.full /\ b.last = n
      /\ b.error = (start.error \/ Available(start, count * n) < count * n)
      /\ ~b.error => b.offset = start.offset + count * n
  BY <1>4, <1>5, <1>7, MovedRegular
<1>9. a.error => b.error BY <1>6, <1>8
<1>10. a.offset % n = 0 => (a.offset + count * n) % n = 0 BY <1>2, MultipleStays
<1>11. Sound(b)
  <2> SUFFICES ASSUME ~b.error PROVE b.offset % n = 0 BY <1>8 DEF Sound
  <2> QED BY <1>1, <1>6, <1>8, <1>9, <1>10
<1> QED BY <1>1, <1>6, <1>8, <1>9, <1>11 DEF b, start

\* ucdr_align_to, a buffer started anew at the iterator (ucdr_init_buffer in
\* read_format_data and the calls for user data) and the header of a sequence keep the
\* rule for the padding.
THEOREM AlignmentKept ==
  ASSUME NEW buf, Regular(buf), Sound(buf), NEW n \in DataSizes
  PROVE  /\ Sound(AlignTo(buf, n)) /\ Sound(RebasedBuffer(buf))
         /\ \A length, capacity \in Nat : Sound(SequenceHeader(buf, length, capacity))
<1>1. buf \in Buffers /\ buf.offset \in Nat /\ buf.error \in BOOLEAN BY SlotType DEF Regular
<1>2. Sound(AlignTo(buf, n))
  <2> DEFINE b == AlignTo(buf, n)
  <2>1. /\ b.offset = buf.offset + BufferAlignment(buf, n)
        /\ b.last = n /\ b.error = buf.error
    BY <1>1 DEF AlignTo, Buffers
  <2>2. ~buf.error => (buf.offset + BufferAlignment(buf, n)) % n = 0
    BY <1>1, AlignmentFills
  <2> HIDE DEF b
  <2>3. Sound(b) BY <2>1, <2>2 DEF Sound
  <2> QED BY <2>3 DEF b
<1>3. Sound(RebasedBuffer(buf))
  BY <1>1 DEF RebasedBuffer, Sound, Buffers
<1>4. ASSUME NEW length \in Nat, NEW capacity \in Nat
      PROVE  Sound(SequenceHeader(buf, length, capacity))
  <2> DEFINE b == Value(buf, 4)
             c == SequenceHeader(buf, length, capacity)
  <2>1. 4 \in DataSizes BY DEF DataSizes
  <2>2. Regular(b) /\ Sound(b) BY <2>1, ValueAligned
  <2>3. c = [b EXCEPT !.error = @ \/ length > capacity] BY DEF SequenceHeader
  <2>4. b \in Buffers BY <2>2 DEF Regular
  <2> HIDE DEF b, c
  <2>5. c.last = b.last /\ c.offset = b.offset /\ (b.error => c.error)
    BY <2>3, <2>4 DEF Buffers
  <2>6. Sound(c) BY <2>2, <2>5 DEF Sound
  <2> QED BY <2>6 DEF c
<1> QED BY <1>2, <1>3, <1>4
---------------------------------------------------------------------------
(* Bounds.                                                                 *)

\* Once a function has failed, no later one touches a byte, and none clears the error:
\* the callers look at the result once, at the end (basic.c, array.c).
THEOREM ErrorSticks ==
  ASSUME NEW buf, Regular(buf), Sound(buf), buf.error, NEW count \in Nat, NEW n \in DataSizes
  PROVE  /\ Value(buf, n).error /\ DOMAIN ValuePlaces(buf, n) = {}
         /\ Array(buf, count, n).error /\ DOMAIN ArrayPlaces(buf, count, n) = {}
<1>1. Value(buf, n).error BY ValueAligned
<1>2. Array(buf, count, n).error BY ArrayAligned
<1>3. DOMAIN ValuePlaces(buf, n) = {} BY <1>1 DEF ValuePlaces
<1>4. DOMAIN ArrayPlaces(buf, count, n) = {}
  <2> DEFINE a == Aligned(buf, n)
             start == ArrayStart(buf, n)
  <2>1. Regular(a) /\ a.error BY AlignedFacts
  <2>2. start = [a EXCEPT !.last = buf.last] BY DEF ArrayStart
  <2>3. start.error
    <3>1. a \in Buffers BY <2>1 DEF Regular
    <3> HIDE DEF a
    <3> QED BY <2>1, <2>2, <3>1 DEF Buffers
  <2>4. Available(start, count * n) = 0
    <3> HIDE DEF start
    <3> QED BY <2>3 DEF Available
  <2> HIDE DEF start
  <2>5. DOMAIN ArrayPlaces(buf, count, n) = 1..0
    <3>1. DOMAIN ArrayPlaces(buf, count, n) = 1..Available(start, count * n)
      BY DEF ArrayPlaces, PlacesMoved, start
    <3> QED BY <2>4, <3>1
  <2> QED BY <2>5
<1> QED BY <1>1, <1>2, <1>3, <1>4

\* Reading a sequence copies at most as many bytes as the array of the structure has,
\* whatever length was announced: a length too large is an error, and the error stops
\* the copy that follows it unchecked (sequence.c, string.c).
THEOREM SequenceFits ==
  ASSUME NEW buf, Regular(buf), Sound(buf), NEW length \in Nat, NEW capacity \in Nat
  PROVE  \A j \in DOMAIN ArrayPlaces(SequenceHeader(buf, length, capacity), length, 1) :
           j <= capacity
<1> DEFINE b == Value(buf, 4)
           c == SequenceHeader(buf, length, capacity)
<1>1. 4 \in DataSizes /\ 1 \in DataSizes BY DEF DataSizes
<1>2. Regular(b) /\ Sound(b) BY <1>1, ValueAligned
<1>3. b \in Buffers /\ b.error \in BOOLEAN BY <1>2, SlotType DEF Regular
<1>4. c = [b EXCEPT !.error = @ \/ length > capacity] BY DEF SequenceHeader
<1> HIDE DEF b, c
<1>5. c \in Buffers
  <2>1. (b.error \/ length > capacity) \in BOOLEAN OBVIOUS
  <2> DEFINE error == b.error \/ length > capacity
  <2> HIDE DEF error
  <2>2. c = [b EXCEPT !.error = error] BY <1>3, <1>4 DEF error, Buffers
  <2>3. error \in BOOLEAN BY <2>1 DEF error
  <2> QED BY <1>3, <2>2, <2>3 DEF Buffers
<1>6. /\ c.ends = b.ends /\ c.full = b.full /\ c.slot = b.slot /\ c.at = b.at
      /\ c.last = b.last /\ c.offset = b.offset
      /\ (b.error => c.error) /\ (length > capacity => c.error)
  BY <1>3, <1>4 DEF Buffers
<1>7. Regular(c) BY <1>2, <1>5, <1>6 DEF Regular
<1>8. Sound(c) BY <1>2, <1>6 DEF Sound
<1>9. CASE length > capacity
  <2>1. c.error BY <1>6, <1>9
  <2>2. DOMAIN ArrayPlaces(c, length, 1) = {} BY <1>1, <1>7, <1>8, <2>1, ErrorSticks
  <2> QED BY <2>2 DEF c
<1>10. CASE ~(length > capacity)
  <2> DEFINE start == ArrayStart(c, 1)
             a == Aligned(c, 1)
  <2>1. Regular(a) BY <1>1, <1>7, <1>8, AlignedFacts
  <2>2. start = [a EXCEPT !.last = c.last] BY DEF ArrayStart
  <2>3. a \in Buffers /\ c.last \in {0} \cup DataSizes BY <1>7, <2>1, SlotType DEF Regular
  <2> HIDE DEF a, start
  <2>4. Regular(start) BY <2>1, <2>2, <2>3 DEF Regular, Buffers
  <2>5. Available(start, length) \in 0..length BY <2>4, AvailableBounds
  <2>6. DOMAIN ArrayPlaces(c, length, 1) = 1..Available(start, length)
    <3>1. DOMAIN ArrayPlaces(c, length, 1) = 1..Available(start, length * 1)
      BY DEF ArrayPlaces, PlacesMoved, start
    <3>2. length * 1 = length OBVIOUS
    <3> QED BY <3>1, <3>2
  <2>7. length <= capacity BY <1>10
  <2> QED BY <2>5, <2>6, <2>7 DEF c
<1> QED BY <1>9, <1>10

-----------------------------------------------------------------------------
(* Forms a reader can follow, whatever it is given.  The nodes of a form   *)
(* belong to a set that holds the nodes of all forms in it: so every node  *)
(* that a step brings to the front is one of them.                         *)

Right(x, S) ==
  \/ x.k = "int" /\ x.n \in DataSizes
  \/ x.k \in {"raw", "data"} /\ x.n \in Nat \ {0} /\ x.cap \in Nat /\ x.n <= x.cap
  \/ x.k = "bytes" /\ x.cap \in Nat
  \/ x.k = "opt" /\ x.s \in Seq(S)
  \/ x.k = "tag" /\ x.n \in DataSizes /\ \A t \in DOMAIN x.alt : x.alt[t] \in Seq(S)
  \/ x.k = "list" /\ x.cap \in Nat /\ x.s \in Seq(S)
  \/ x.k = "only" /\ x.s \in Seq(S)
  \/ x.k = "align" /\ x.n \in DataSizes
  \/ x.k = "rebase"
  \/ x.k = "endian" /\ x.other \in BOOLEAN

Closed(S) == \A x \in S : Right(x, S)
Form(f) == \E S : Closed(S) /\ f \in Seq(S)

LEMMA RightGrows ==
  ASSUME NEW x, NEW S, NEW T, S \subseteq T, Right(x, S)
  PROVE  Right(x, T)
<1>1. Seq(S) \subseteq Seq(T) OBVIOUS
<1> QED BY <1>1 DEF Right

LEMMA ClosedUnion ==
  ASSUME NEW SS, \A S \in SS : Closed(S)
  PROVE  Closed(UNION SS)
<1> SUFFICES ASSUME NEW S \in SS, NEW x \in S PROVE Right(x, UNION SS) BY DEF Closed
<1>1. Right(x, S) BY DEF Closed
<1>2. S \subseteq UNION SS OBVIOUS
<1> QED BY <1>1, <1>2, RightGrows

\* A node whose forms are all right makes a form.
LEMMA NodeForm ==
  ASSUME NEW x, NEW S, Closed(S), Right(x, S)
  PROVE  Form(<<x>>)
<1> DEFINE T == S \cup {x}
<1>1. S \subseteq T /\ x \in T OBVIOUS
<1> HIDE DEF T
<1>2. Right(x, T) BY <1>1, RightGrows
<1>3. \A y \in S : Right(y, T) BY <1>1, RightGrows DEF Closed
<1>4. Closed(T) BY <1>2, <1>3 DEF Closed, T
<1>5. <<x>> \in Seq(T) BY <1>1
<1> QED BY <1>4, <1>5 DEF Form

LEMMA NothingForm == Form(<<>>)
<1>1. Closed({}) BY DEF Closed
<1>2. <<>> \in Seq({}) OBVIOUS
<1> QED BY <1>1, <1>2 DEF Form

LEMMA JoinForm ==
  ASSUME NEW f, NEW g, Form(f), Form(g)
  PROVE  Form(f \o g)
<1>1. PICK S : Closed(S) /\ f \in Seq(S) BY DEF Form
<1>2. PICK T : Closed(T) /\ g \in Seq(T) BY DEF Form
<1> DEFINE U == UNION {S, T}
<1>3. S \subseteq U /\ T \subseteq U OBVIOUS
<1>4. Closed(U) BY <1>1, <1>2, ClosedUnion
<1> HIDE DEF U
<1>5. f \in Seq(U) /\ g \in Seq(U) BY <1>1, <1>2, <1>3
<1>6. f \o g \in Seq(U) BY <1>5
<1> QED BY <1>4, <1>6 DEF Form

LEMMA ValueForm ==
  /\ \A n \in DataSizes : Form(Uint(n)) /\ Form(Align(n))
  /\ \A n \in Nat \ {0} : Form(Raw(n)) /\ Form(Data(n))
  /\ \A n \in Nat : Form(Bytes(n))
  /\ \A b \in BOOLEAN : Form(Endian(b))
  /\ Form(Text) /\ Form(Rebase) /\ Form(Other)
<1>1. Closed({}) BY DEF Closed
<1>2. ASSUME NEW n \in DataSizes PROVE Form(Uint(n)) /\ Form(Align(n))
  <2>1. Right([k |-> "int", n |-> n], {}) BY DEF Right
  <2>2. Right([k |-> "align", n |-> n], {}) BY DEF Right
  <2> QED BY <1>1, <2>1, <2>2, NodeForm DEF Uint, Align
<1>3. ASSUME NEW n \in Nat PROVE (n # 0 => Form(Raw(n))) /\ Form(Bytes(n))
  <2>1. n # 0 => Right([k |-> "raw", n |-> n, cap |-> n], {}) BY DEF Right
  <2>2. Right([k |-> "bytes", least |-> 0, cap |-> n], {}) BY DEF Right
  <2> QED BY <1>1, <2>1, <2>2, NodeForm DEF Raw, Bytes
<1>4. Form(Text)
  <2>1. Right([k |-> "bytes", least |-> 1, cap |-> UXR_STRING_SIZE_MAX], {})
    BY CapacitiesAssumption DEF Right
  <2> QED BY <1>1, <2>1, NodeForm DEF Text
<1>5. Form(Rebase)
  <2>1. Right([k |-> "rebase"], {}) BY DEF Right
  <2> QED BY <1>1, <2>1, NodeForm DEF Rebase
<1>6. ASSUME NEW n \in Nat \ {0} PROVE Form(Data(n))
  <2>1. Right([k |-> "data", n |-> n, cap |-> n], {}) BY DEF Right
  <2> QED BY <1>1, <2>1, NodeForm DEF Data
<1>7. ASSUME NEW b \in BOOLEAN PROVE Form(Endian(b))
  <2>1. Right([k |-> "endian", other |-> b], {}) BY DEF Right
  <2> QED BY <1>1, <2>1, NodeForm DEF Endian
<1> QED BY <1>2, <1>3, <1>4, <1>5, <1>6, <1>7, NothingForm DEF Other

LEMMA NestedForm ==
  ASSUME NEW f, Form(f)
  PROVE  /\ Form(Opt(f))
         /\ \A cap \in Nat : Form(ListOf(f, cap))
         /\ \A dir : Form(Only(dir, f))
<1>1. PICK S : Closed(S) /\ f \in Seq(S) BY DEF Form
<1>2. Right([k |-> "opt", s |-> f], S) BY <1>1 DEF Right
<1>3. \A cap \in Nat : Right([k |-> "list", s |-> f, cap |-> cap], S) BY <1>1 DEF Right
<1>4. \A dir : Right([k |-> "only", dir |-> dir, s |-> f], S) BY <1>1 DEF Right
<1> QED BY <1>1, <1>2, <1>3, <1>4, NodeForm DEF Opt, ListOf, Only

LEMMA TagForm ==
  ASSUME NEW n \in DataSizes, NEW alt, \A t \in DOMAIN alt : Form(alt[t])
  PROVE  Form(Tagged(n, alt))
<1> DEFINE Of(t) == CHOOSE S : Closed(S) /\ alt[t] \in Seq(S)
           U == UNION {Of(t) : t \in DOMAIN alt}
<1>1. ASSUME NEW t \in DOMAIN alt PROVE Closed(Of(t)) /\ alt[t] \in Seq(Of(t))
  BY DEF Form
<1>2. Closed(U) BY <1>1, ClosedUnion
<1>3. ASSUME NEW t \in DOMAIN alt PROVE alt[t] \in Seq(U)
  <2>1. Of(t) \subseteq U OBVIOUS
  <2> HIDE DEF Of, U
  <2> QED BY <1>1, <2>1
<1> HIDE DEF U
<1>4. Right([k |-> "tag", n |-> n, alt |-> alt], U) BY <1>3 DEF Right
<1> QED BY <1>2, <1>4, NodeForm DEF Tagged

-----------------------------------------------------------------------------
(* The types have forms.                                                   *)

LEMMA ArithmeticSizes == 1 \in DataSizes /\ 2 \in DataSizes /\ 4 \in DataSizes /\ 8 \in DataSizes
BY DEF DataSizes

LEMMA BasicForms ==
  /\ Form(Time_t) /\ Form(BinarySequence_t) /\ Form(StringSequence_t) /\ Form(ClientKey)
  /\ Form(ObjectId) /\ Form(ObjectPrefix) /\ Form(XrceCookie) /\ Form(XrceVersion)
  /\ Form(XrceVendorId) /\ Form(TransportLocatorSeq) /\ Form(PropertySeq)
<1>1. Form(Uint(1)) /\ Form(Uint(2)) /\ Form(Uint(4)) /\ Form(Raw(1)) /\ Form(Raw(2))
      /\ Form(Raw(4)) /\ Form(Raw(16)) /\ Form(Text) /\ Form(Other)
  BY ValueForm, ArithmeticSizes
<1>2. Form(TransportLocator)
  <2>1. Form(TransportLocatorSmall) /\ Form(TransportLocatorMedium)
        /\ Form(TransportLocatorLarge) /\ Form(TransportLocatorString)
    BY <1>1, JoinForm DEF TransportLocatorSmall, TransportLocatorMedium, TransportLocatorLarge,
      TransportLocatorString
  <2> DEFINE alt == [SMALL |-> TransportLocatorSmall, MEDIUM |-> TransportLocatorMedium,
                     LARGE |-> TransportLocatorLarge, STRING |-> TransportLocatorString,
                     NONE |-> Other]
  <2>2. \A t \in DOMAIN alt : Form(alt[t]) BY <1>1, <2>1
  <2> HIDE DEF alt
  <2>3. Form(Tagged(1, alt)) BY <2>2, TagForm, ArithmeticSizes
  <2> QED BY <2>3 DEF TransportLocator, alt
<1>3. Form(Property) BY <1>1, JoinForm DEF Property
<1>4. UXR_SEQUENCE_MAX \in Nat /\ UXR_PROPERTY_SEQUENCE_MAX \in Nat
      /\ UXR_BINARY_SEQUENCE_MAX \in Nat
  BY CapacitiesAssumption
<1>5. Form(StringSequence_t) /\ Form(TransportLocatorSeq) /\ Form(PropertySeq)
  BY <1>1, <1>2, <1>3, <1>4, NestedForm DEF StringSequence_t, TransportLocatorSeq, PropertySeq
<1>6. Form(BinarySequence_t) BY <1>4, ValueForm DEF BinarySequence_t
<1>7. Form(ObjectId)
  <2>1. Form(Only("out", Raw(1))) /\ Form(Only("in", Raw(2))) BY <1>1, NestedForm
  <2> QED BY <2>1, JoinForm DEF ObjectId
<1>8. Form(Time_t) BY <1>1, JoinForm DEF Time_t
<1> QED BY <1>1, <1>5, <1>6, <1>7, <1>8
    DEF ClientKey, ObjectPrefix, XrceCookie, XrceVersion, XrceVendorId

LEMMA RepresentationForms ==
  /\ Form(CLIENT_Representation) /\ Form(AGENT_Representation)
  /\ Form(OBJK_Representation3Formats) /\ Form(OBJK_RepresentationRefAndXMLFormats)
  /\ Form(OBJK_RepresentationBinAndXMLFormats)
<1>1. Form(Uint(1)) /\ Form(Uint(2)) /\ Form(Text) /\ Form(Other)
  BY ValueForm, ArithmeticSizes
<1>2. Form(Opt(PropertySeq)) /\ Form(BinarySequence_t) BY BasicForms, NestedForm
<1>3. Form(CLIENT_Representation)
  BY <1>1, <1>2, BasicForms, JoinForm DEF CLIENT_Representation
<1>4. Form(AGENT_Representation)
  <2>1. Form(Only("out", Opt(PropertySeq))) /\ Form(Only("in", Uint(1)))
    BY <1>1, <1>2, NestedForm
  <2> QED BY <2>1, BasicForms, JoinForm DEF AGENT_Representation
<1>5. Form(OBJK_Representation3Formats)
  <2> DEFINE alt == [REFERENCE |-> Text, XML |-> Text, BINARY |-> BinarySequence_t, NONE |-> Other]
  <2>1. \A t \in DOMAIN alt : Form(alt[t]) BY <1>1, <1>2
  <2> HIDE DEF alt
  <2>2. Form(Tagged(1, alt)) BY <2>1, TagForm, ArithmeticSizes
  <2> QED BY <2>2 DEF OBJK_Representation3Formats, alt
<1>6. Form(OBJK_RepresentationRefAndXMLFormats)
  <2> DEFINE alt == [REFERENCE |-> Text, XML |-> Text, NONE |-> Other]
  <2>1. \A t \in DOMAIN alt : Form(alt[t]) BY <1>1
  <2> HIDE DEF alt
  <2>2. Form(Tagged(1, alt)) BY <2>1, TagForm, ArithmeticSizes
  <2> QED BY <2>2 DEF OBJK_RepresentationRefAndXMLFormats, alt
<1>7. Form(OBJK_RepresentationBinAndXMLFormats)
  <2> DEFINE alt == [BINARY |-> BinarySequence_t, XML |-> Text, NONE |-> Other]
  <2>1. \A t \in DOMAIN alt : Form(alt[t]) BY <1>1, <1>2
  <2> HIDE DEF alt
  <2>2. Form(Tagged(1, alt)) BY <2>1, TagForm, ArithmeticSizes
  <2> QED BY <2>2 DEF OBJK_RepresentationBinAndXMLFormats, alt
<1> QED BY <1>3, <1>4, <1>5, <1>6, <1>7

LEMMA ObjectForms ==
  /\ Form(OBJK_DOMAIN_Representation) /\ Form(OBJK_APPLICATION_Representation)
  /\ Form(OBJK_QOSPROFILE_Representation) /\ Form(OBJK_TYPE_Representation)
  /\ Form(OBJK_PUBLISHER_Representation) /\ Form(OBJK_SUBSCRIBER_Representation)
  /\ Form(DATAWRITER_Representation) /\ Form(DATAREADER_Representation)
  /\ Form(OBJK_PARTICIPANT_Representation) /\ Form(OBJK_TOPIC_Representation)
  /\ Form(OBJK_REQUESTER_Representation) /\ Form(OBJK_REPLIER_Representation)
<1>1. Form(Uint(2)) /\ Form(ObjectId) BY ValueForm, BasicForms, ArithmeticSizes
<1>2. /\ Form(OBJK_RepresentationRefAndXML_Base) /\ Form(OBJK_RepresentationBinAndXML_Base)
      /\ Form(OBJK_Representation3_Base)
  BY RepresentationForms DEF OBJK_RepresentationRefAndXML_Base, OBJK_RepresentationBinAndXML_Base,
    OBJK_Representation3_Base
<1> QED
  BY <1>1, <1>2, JoinForm DEF OBJK_DOMAIN_Representation, OBJK_APPLICATION_Representation,
    OBJK_QOSPROFILE_Representation, OBJK_TYPE_Representation, OBJK_PUBLISHER_Representation,
    OBJK_SUBSCRIBER_Representation, DATAWRITER_Representation, DATAREADER_Representation,
    OBJK_PARTICIPANT_Representation, OBJK_TOPIC_Representation, OBJK_REQUESTER_Representation,
    OBJK_REPLIER_Representation

LEMMA VariantForm == Form(ObjectVariant)
<1> DEFINE alt ==
  [AGENT |-> AGENT_Representation, CLIENT |-> CLIENT_Representation,
   APPLICATION |-> OBJK_APPLICATION_Representation,
   PARTICIPANT |-> OBJK_PARTICIPANT_Representation,
   QOSPROFILE |-> OBJK_QOSPROFILE_Representation, TYPE |-> OBJK_TYPE_Representation,
   TOPIC |-> OBJK_TOPIC_Representation, PUBLISHER |-> OBJK_PUBLISHER_Representation,
   SUBSCRIBER |-> OBJK_SUBSCRIBER_Representation, DATAWRITER |-> DATAWRITER_Representation,
   DATAREADER |-> DATAREADER_Representation, REQUESTER |-> OBJK_REQUESTER_Representation,
   REPLIER |-> OBJK_REPLIER_Representation, NONE |-> Other]
<1>1. \A t \in DOMAIN alt : Form(alt[t]) BY ObjectForms, RepresentationForms, NothingForm DEF Other
<1> HIDE DEF alt
<1>2. Form(Tagged(1, alt)) BY <1>1, TagForm, ArithmeticSizes
<1> QED BY <1>2 DEF ObjectVariant, alt

LEMMA BinaryForms ==
  /\ Form(OBJK_DomainParticipant_Binary) /\ Form(OBJK_Topic_Binary)
  /\ Form(OBJK_Publisher_Binary) /\ Form(OBJK_Subscriber_Binary)
  /\ Form(OBJK_DataWriter_Binary) /\ Form(OBJK_DataReader_Binary)
  /\ Form(OBJK_Requester_Binary) /\ Form(OBJK_Replier_Binary)
<1>1. Form(Uint(2)) /\ Form(Uint(4)) /\ Form(Uint(8)) /\ Form(Text)
  BY ValueForm, ArithmeticSizes
<1>2. /\ Form(Opt(Text)) /\ Form(Opt(Uint(2))) /\ Form(Opt(Uint(4))) /\ Form(Opt(Uint(8)))
      /\ Form(Opt(StringSequence_t)) /\ Form(Opt(BinarySequence_t))
  BY <1>1, BasicForms, NestedForm
<1>3. /\ Form(OBJK_DomainParticipant_Binary) /\ Form(OBJK_Topic_Binary)
      /\ Form(OBJK_Requester_Binary) /\ Form(OBJK_Replier_Binary)
  BY <1>1, <1>2, JoinForm DEF OBJK_DomainParticipant_Binary, OBJK_Topic_Binary,
    OBJK_Requester_Binary, OBJK_Replier_Binary
<1>4. Form(OBJK_Publisher_Binary_Qos) /\ Form(OBJK_Subscriber_Binary_Qos)
  BY <1>2, JoinForm DEF OBJK_Publisher_Binary_Qos, OBJK_Subscriber_Binary_Qos
<1>5. Form(OBJK_Publisher_Binary) /\ Form(OBJK_Subscriber_Binary)
  BY <1>2, <1>4, JoinForm, NestedForm DEF OBJK_Publisher_Binary, OBJK_Subscriber_Binary
<1>6. Form(OBJK_Endpoint_QosBinary)
  BY <1>1, <1>2, JoinForm DEF OBJK_Endpoint_QosBinary
<1>7. Form(OBJK_DataWriter_Binary_Qos) /\ Form(OBJK_DataReader_Binary_Qos)
  BY <1>2, <1>6, JoinForm DEF OBJK_DataWriter_Binary_Qos, OBJK_DataReader_Binary_Qos
<1>8. Form(OBJK_DataWriter_Binary) /\ Form(OBJK_DataReader_Binary)
  BY <1>7, BasicForms, JoinForm, NestedForm DEF OBJK_DataWriter_Binary, OBJK_DataReader_Binary
<1> QED BY <1>3, <1>5, <1>8

LEMMA ReplyForms ==
  /\ Form(BaseObjectRequest) /\ Form(ResultStatus) /\ Form(BaseObjectReply)
  /\ Form(CreationMode) /\ Form(ObjectInfo)
<1>1. Form(Uint(1)) /\ Form(Uint(2)) /\ Form(Uint(8)) /\ Form(Raw(2)) /\ Form(Other)
  BY ValueForm, ArithmeticSizes
<1>2. Form(BaseObjectRequest)
  <2>1. Form(Only("in", RequestId)) BY <1>1, NestedForm DEF RequestId
  <2> QED BY <2>1, BasicForms, JoinForm DEF BaseObjectRequest
<1>3. Form(ResultStatus) /\ Form(CreationMode) BY <1>1, JoinForm DEF ResultStatus, CreationMode
<1>4. Form(ActivityInfoVariant)
  <2> DEFINE alt == [AGENT |-> AGENT_ActivityInfo, DATAWRITER |-> DATAWRITER_ActivityInfo,
                     DATAREADER |-> DATAREADER_ActivityInfo, NONE |-> Other]
  <2>1. /\ Form(AGENT_ActivityInfo) /\ Form(DATAWRITER_ActivityInfo)
        /\ Form(DATAREADER_ActivityInfo)
    BY <1>1, BasicForms, JoinForm DEF AGENT_ActivityInfo, DATAWRITER_ActivityInfo,
      DATAREADER_ActivityInfo
  <2>2. \A t \in DOMAIN alt : Form(alt[t]) BY <1>1, <2>1
  <2> HIDE DEF alt
  <2>3. Form(Tagged(1, alt)) BY <2>2, TagForm, ArithmeticSizes
  <2> QED BY <2>3 DEF ActivityInfoVariant, alt
<1>5. Form(ObjectInfo) BY <1>4, VariantForm, NestedForm, JoinForm DEF ObjectInfo
<1>6. Form(BaseObjectReply) BY <1>2, <1>3, JoinForm DEF BaseObjectReply
<1> QED BY <1>2, <1>3, <1>5, <1>6

LEMMA SampleForms ==
  /\ Form(ReadSpecification) /\ Form(SampleData) /\ Form(SampleDataSeq) /\ Form(Sample)
  /\ Form(SampleSeq) /\ Form(PackedSamples) /\ Form(SamplePackedSeq)
  /\ Form(DataRepresentation)
<1>1. Form(Uint(1)) /\ Form(Uint(2)) /\ Form(Uint(4)) /\ Form(Text) /\ Form(Other)
  BY ValueForm, ArithmeticSizes
<1>2. UXR_SEQUENCE_MAX \in Nat /\ UXR_SAMPLE_DATA_SIZE_MAX \in Nat BY CapacitiesAssumption
<1>3. Form(ReadSpecification)
  <2>1. Form(DataDeliveryControl) BY <1>1, JoinForm DEF DataDeliveryControl
  <2>2. Form(Opt(DataDeliveryControl)) /\ Form(Opt(Text)) BY <1>1, <2>1, NestedForm
  <2> QED BY <1>1, <2>2, JoinForm DEF ReadSpecification
<1>4. Form(SampleData) BY <1>2, ValueForm DEF SampleData
<1>5. Form(SampleInfo)
  <2> DEFINE alt == [EMPTY |-> Uint(4), SEQNUM |-> Uint(4), TIMESTAMP |-> SeqNumberAndTimestamp,
                     NONE |-> Other]
  <2>1. Form(SeqNumberAndTimestamp) BY <1>1, JoinForm DEF SeqNumberAndTimestamp
  <2>2. \A t \in DOMAIN alt : Form(alt[t]) BY <1>1, <2>1
  <2> HIDE DEF alt
  <2>3. Form(Tagged(4, alt)) BY <2>2, TagForm, ArithmeticSizes
  <2> QED BY <1>1, <2>3, JoinForm DEF SampleInfo, SampleInfoDetail, alt
<1>6. Form(Sample) BY <1>4, <1>5, JoinForm DEF Sample
<1>7. Form(SampleDelta)
  <2>1. Form(SampleInfoDelta) BY <1>1, JoinForm DEF SampleInfoDelta
  <2> QED BY <1>4, <2>1, JoinForm DEF SampleDelta
<1>8. Form(SampleDataSeq) /\ Form(SampleSeq) /\ Form(SampleDeltaSequence)
  BY <1>2, <1>4, <1>6, <1>7, NestedForm DEF SampleDataSeq, SampleSeq, SampleDeltaSequence
<1>9. Form(PackedSamples) BY <1>5, <1>8, JoinForm DEF PackedSamples
<1>10. Form(SamplePackedSeq) BY <1>2, <1>9, NestedForm DEF SamplePackedSeq
<1>11. Form(DataRepresentation)
  <2> DEFINE alt == [DATA |-> SampleData, SAMPLE |-> Sample, DATA_SEQ |-> SampleDataSeq,
                     SAMPLE_SEQ |-> SampleSeq, PACKED_SAMPLES |-> PackedSamples, NONE |-> Other]
  <2>1. \A t \in DOMAIN alt : Form(alt[t]) BY <1>1, <1>4, <1>6, <1>8, <1>9
  <2> HIDE DEF alt
  <2>2. Form(Tagged(1, alt)) BY <2>1, TagForm, ArithmeticSizes
  <2> QED BY <2>2 DEF DataRepresentation, alt
<1> QED BY <1>3, <1>4, <1>6, <1>8, <1>9, <1>10, <1>11

LEMMA PayloadForms ==
  /\ Form(CREATE_CLIENT_Payload) /\ Form(GET_INFO_Payload) /\ Form(STATUS_AGENT_Payload)
  /\ Form(STATUS_Payload) /\ Form(INFO_Payload)
  /\ Form(WRITE_DATA_Payload_Sample) /\ Form(WRITE_DATA_Payload_DataSeq)
  /\ Form(WRITE_DATA_Payload_SampleSeq) /\ Form(WRITE_DATA_Payload_PackedSamples)
  /\ Form(DATA_Payload_Data) /\ Form(DATA_Payload_Sample) /\ Form(DATA_Payload_DataSeq)
  /\ Form(DATA_Payload_SampleSeq) /\ Form(DATA_Payload_PackedSamples)
  /\ Form(ACKNACK_Payload) /\ Form(HEARTBEAT_Payload) /\ Form(TIMESTAMP_REPLY_Payload)
  /\ Form(PERFORMANCE_Payload) /\ Form(SampleIdentity) /\ Form(SubmessageHeader)
<1>1. /\ Form(Uint(1)) /\ Form(Uint(2)) /\ Form(Uint(4)) /\ Form(Raw(2)) /\ Form(Raw(3))
      /\ Form(Raw(4)) /\ Form(Raw(12)) /\ Form(Align(4))
  BY ValueForm, ArithmeticSizes
<1>2. /\ Form(CREATE_CLIENT_Payload) /\ Form(GET_INFO_Payload) /\ Form(STATUS_AGENT_Payload)
      /\ Form(STATUS_Payload) /\ Form(INFO_Payload)
  BY <1>1, RepresentationForms, ReplyForms, JoinForm
    DEF CREATE_CLIENT_Payload, GET_INFO_Payload, STATUS_AGENT_Payload, STATUS_Payload,
      INFO_Payload
<1>3. /\ Form(WRITE_DATA_Payload_Sample) /\ Form(WRITE_DATA_Payload_DataSeq)
      /\ Form(WRITE_DATA_Payload_SampleSeq) /\ Form(WRITE_DATA_Payload_PackedSamples)
  BY ReplyForms, SampleForms, JoinForm DEF WRITE_DATA_Payload_Sample,
    WRITE_DATA_Payload_DataSeq, WRITE_DATA_Payload_SampleSeq, WRITE_DATA_Payload_PackedSamples
<1>4. /\ Form(DATA_Payload_Data) /\ Form(DATA_Payload_Sample) /\ Form(DATA_Payload_DataSeq)
      /\ Form(DATA_Payload_SampleSeq) /\ Form(DATA_Payload_PackedSamples)
  BY ReplyForms, SampleForms, JoinForm DEF DATA_Payload_Data, DATA_Payload_Sample,
    DATA_Payload_DataSeq, DATA_Payload_SampleSeq, DATA_Payload_PackedSamples
<1>5. /\ Form(ACKNACK_Payload) /\ Form(HEARTBEAT_Payload) /\ Form(TIMESTAMP_REPLY_Payload)
      /\ Form(PERFORMANCE_Payload)
  <2>1. Form(Time_t) BY BasicForms
  <2> QED BY <1>1, <2>1, JoinForm DEF ACKNACK_Payload, HEARTBEAT_Payload,
        TIMESTAMP_REPLY_Payload, PERFORMANCE_Payload
<1>6. Form(SampleIdentity)
  <2>1. Form(GUID_t) BY <1>1, JoinForm DEF GUID_t, GuidPrefix_t, EntityId_t
  <2> QED BY <1>1, <2>1, JoinForm DEF SampleIdentity, SequenceNumber_t
<1>7. Form(SubmessageHeader)
  <2> DEFINE big == Uint(2) \o Endian(TRUE)
             alt == [LITTLE |-> Uint(2), BIG |-> big]
  <2>1. Form(Endian(FALSE)) /\ Form(Endian(TRUE)) BY ValueForm
  <2>2. Form(big) BY <1>1, <2>1, JoinForm
  <2> HIDE DEF big
  <2>3. \A t \in DOMAIN alt : Form(alt[t]) BY <1>1, <2>2
  <2> HIDE DEF alt
  <2>4. Form(Tagged(1, alt)) BY <2>3, TagForm, ArithmeticSizes
  <2>5. Form(Align(4) \o Endian(FALSE) \o Uint(1) \o Tagged(1, alt))
    BY <1>1, <2>1, <2>4, JoinForm
  <2> QED BY <2>5 DEF SubmessageHeader, alt, big
<1> QED BY <1>2, <1>3, <1>4, <1>5, <1>6, <1>7

LEMMA UserForm == Form(UserTopic)
<1> DEFINE S == {UserTopic[i] : i \in DOMAIN UserTopic}
<1>1. UserTopic \in Seq(S)
  <2>1. PICK T : UserTopic \in Seq(T) BY UserTopicAssumption
  <2> QED BY <2>1
<1>2. ASSUME NEW i \in DOMAIN UserTopic PROVE Right(UserTopic[i], S)
  <2>1. UserTopic[i] \in [k : {"int"}, n : DataSizes] \cup [k : {"raw"}, n : Nat \ {0}, cap : Nat]
                           \cup [k : {"bytes"}, least : {0, 1}, cap : Nat]
    BY UserTopicAssumption
  <2>2. UserTopic[i].k = "raw" => UserTopic[i].n <= UserTopic[i].cap BY UserTopicAssumption
  <2> HIDE DEF S
  <2> QED BY <2>1, <2>2 DEF Right
<1>3. Closed(S) BY <1>2 DEF Closed
<1> HIDE DEF S
<1> QED BY <1>1, <1>3 DEF Form

LEMMA ReceivedForm == \A name \in DOMAIN ReceivedForms : Form(ReceivedForms[name])
<1>1. ASSUME NEW f, Form(f) PROVE Form(WithHeader(f))
  BY <1>1, PayloadForms, JoinForm DEF WithHeader
<1>2. \A c \in DOMAIN TypeCalls : Form(TypeCalls[c])
  <2>1. Form(ObjectPrefix \o CreationMode) BY ReplyForms, BasicForms, JoinForm
  <2> DEFINE creation == ObjectPrefix \o CreationMode
  <2> HIDE DEF creation
  <2>2. Form(creation) BY <2>1 DEF creation
  <2>3. TypeCalls =
          [DomainParticipant |-> OBJK_DomainParticipant_Binary, Topic |-> OBJK_Topic_Binary,
           Publisher |-> OBJK_Publisher_Binary, Subscriber |-> OBJK_Subscriber_Binary,
           DataWriter |-> OBJK_DataWriter_Binary, DataReader |-> OBJK_DataReader_Binary,
           Requester |-> OBJK_Requester_Binary, Domain |-> OBJK_DOMAIN_Representation,
           Data |-> DataRepresentation, Packed |-> SamplePackedSeq, Read |-> ReadSpecification,
           CreateClient |-> CREATE_CLIENT_Payload, WriteSample |-> WRITE_DATA_Payload_Sample,
           WriteDataSeq |-> WRITE_DATA_Payload_DataSeq,
           WriteSampleSeq |-> WRITE_DATA_Payload_SampleSeq,
           WritePacked |-> WRITE_DATA_Payload_PackedSamples,
           Creation |-> creation]
    BY DEF TypeCalls, creation
  <2> QED BY <2>2, <2>3, BinaryForms, ObjectForms, SampleForms, PayloadForms
<1>3. \A c \in DOMAIN AgentCalls : Form(AgentCalls[c])
  <2>1. Form(DATA_Payload_Data \o Rebase \o UserTopic)
    BY PayloadForms, ValueForm, UserForm, JoinForm
  <2>2. Form(DATA_Payload_Data \o Rebase \o SampleIdentity \o Rebase \o UserTopic)
    BY PayloadForms, ValueForm, UserForm, JoinForm
  <2>5. Form(DATA_Payload_Data \o Rebase \o BaseObjectRequest \o Rebase \o UserTopic)
    BY PayloadForms, ReplyForms, ValueForm, UserForm, JoinForm
  <2> DEFINE topic == DATA_Payload_Data \o Rebase \o UserTopic
             request == DATA_Payload_Data \o Rebase \o SampleIdentity \o Rebase \o UserTopic
             reply == DATA_Payload_Data \o Rebase \o BaseObjectRequest \o Rebase \o UserTopic
  <2>3. Form(topic) /\ Form(request) /\ Form(reply) BY <2>1, <2>2, <2>5
  <2>4. AgentCalls =
          [STATUS_AGENT |-> STATUS_AGENT_Payload, STATUS |-> STATUS_Payload, INFO |-> INFO_Payload,
           GET_INFO |-> GET_INFO_Payload, TOPIC |-> topic, REQUEST |-> request,
           REPLY |-> reply,
           SAMPLE |-> DATA_Payload_Sample, DATA_SEQ |-> DATA_Payload_DataSeq,
           SAMPLE_SEQ |-> DATA_Payload_SampleSeq, PACKED_SAMPLES |-> DATA_Payload_PackedSamples,
           ACKNACK |-> ACKNACK_Payload, HEARTBEAT |-> HEARTBEAT_Payload,
           TIMESTAMP_REPLY |-> TIMESTAMP_REPLY_Payload, PERFORMANCE |-> PERFORMANCE_Payload]
    BY DEF AgentCalls
  <2> HIDE DEF topic, request, reply
  <2> QED BY <2>3, <2>4, PayloadForms
<1>4. \A c \in DOMAIN PairCalls : Form(PairCalls[c])
  <2> DEFINE data == DATA_Payload_Data \o Data(DataLength)
  <2>1. Form(data)
    <3>1. DataLength \in Nat \ {0} BY DataLengthAssumption
    <3> QED BY <3>1, PayloadForms, ValueForm, JoinForm
  <2>2. PairCalls =
          [AcknackHeartbeat |-> ACKNACK_Payload, StatusHeartbeat |-> STATUS_Payload,
           DataSeqHeartbeat |-> DATA_Payload_DataSeq, DataHeartbeat |-> data,
           ReplyHeartbeat |-> data]
    BY DEF PairCalls, data
  <2> HIDE DEF data
  <2> QED BY <2>1, <2>2, PayloadForms
<1>5. Form(WithHeader(HEARTBEAT_Payload)) BY <1>1, PayloadForms
<1>6. \A c \in DOMAIN AgentCalls : Form(WithHeader(AgentCalls[c])) BY <1>1, <1>3
<1>7. \A c \in DOMAIN PairCalls : Form(WithHeader(PairCalls[c]) \o WithHeader(HEARTBEAT_Payload))
  BY <1>1, <1>4, <1>5, JoinForm
<1> SUFFICES ASSUME NEW c \in DOMAIN ReceivedForms PROVE Form(ReceivedForms[c]) OBVIOUS
<1>8. c \in DOMAIN TypeCalls \/ c \in DOMAIN AgentCalls \/ c \in DOMAIN PairCalls
  BY DEF ReceivedForms
<1>9. ReceivedForms[c] =
        CASE c \in DOMAIN TypeCalls  -> TypeCalls[c]
          [] c \in DOMAIN AgentCalls -> WithHeader(AgentCalls[c])
          [] c \in DOMAIN PairCalls  -> WithHeader(PairCalls[c]) \o WithHeader(HEARTBEAT_Payload)
  BY DEF ReceivedForms
<1> QED BY <1>2, <1>6, <1>7, <1>8, <1>9

-----------------------------------------------------------------------------
(* Messages of the client.  A run writes a form with the values of a       *)
(* script, from an offset to another one; the script has a value for each  *)
(* choice, and none is left over.                                          *)

After(o, n) == o + Padding(o, n) + n

\* Writing node x with script q at offset o: the nodes s come next, the script left is t,
\* and the offset p.
Steps(x, q, o, s, t, p) ==
  \/ /\ x.k = "int" /\ x.n \in DataSizes
     /\ s = <<>> /\ t = q /\ p = After(o, x.n)
  \/ /\ x.k = "raw" /\ x.n \in Nat
     /\ s = <<>> /\ t = q /\ p = o + x.n
  \/ /\ x.k = "only"
     /\ s = (IF x.dir = "out" THEN x.s ELSE <<>>) /\ t = q /\ p = o
  \/ /\ x.k = "bytes" /\ q # <<>> /\ Head(q) \in Nat
     /\ s = Elements(Head(q), x.cap) /\ t = Tail(q) /\ p = After(o, 4)
  \/ /\ x.k = "opt" /\ q # <<>> /\ Head(q) \in Flags
     /\ s = (IF Head(q) = 1 THEN x.s ELSE <<>>) /\ t = Tail(q) /\ p = After(o, 1)
  \/ /\ x.k = "tag" /\ x.n \in DataSizes /\ q # <<>> /\ Head(q) \in DOMAIN x.alt
     /\ s = x.alt[Head(q)] /\ t = Tail(q) /\ p = After(o, x.n)

\* A set of runs that end at e, with the states they go through.
Goes(R, S, f, q, o) ==
  \E s \in Seq(S) : \E t, p : Steps(Head(f), q, o, s, t, p) /\ <<s \o Tail(f), t, p>> \in R
Moving(R, S, V, e, f, q, o) ==
  /\ f \in Seq(S) /\ q \in Seq(V) /\ o \in Nat /\ e \in Nat /\ o <= e
  /\ f = <<>> => q = <<>> /\ o = e
  /\ f # <<>> => Goes(R, S, f, q, o)
Moves(R, S, V, e) == \A f, q, o : <<f, q, o>> \in R => Moving(R, S, V, e, f, q, o)

Run(f, q, o, e) == \E R, S, V : Moves(R, S, V, e) /\ <<f, q, o>> \in R

LEMMA RunTypes ==
  ASSUME NEW f, NEW q, NEW o, NEW e, Run(f, q, o, e)
  PROVE  /\ \E S : f \in Seq(S)
         /\ \E V : q \in Seq(V)
         /\ o \in Nat /\ e \in Nat /\ o <= e
BY DEF Run, Moves, Moving

LEMMA StepsAreOne ==
  ASSUME NEW x, NEW q, NEW o, NEW s, NEW t, NEW p, NEW s2, NEW t2, NEW p2,
         Steps(x, q, o, s, t, p), Steps(x, q, o, s2, t2, p2)
  PROVE  s = s2 /\ t = t2 /\ p = p2
BY DEF Steps

LEMMA StepsProlong ==
  ASSUME NEW x, NEW V, NEW q \in Seq(V), NEW r \in Seq(V), NEW o, NEW s, NEW t, NEW p,
         Steps(x, q, o, s, t, p)
  PROVE  Steps(x, q \o r, o, s, t \o r, p)
<1>1. CASE t = q BY <1>1 DEF Steps
<1>2. CASE q # <<>> /\ t = Tail(q)
  <2>1. q \o r # <<>> /\ Head(q \o r) = Head(q) /\ Tail(q \o r) = Tail(q) \o r BY <1>2
  <2> QED BY <1>2, <2>1 DEF Steps
<1> QED BY <1>1, <1>2 DEF Steps

LEMMA Associative ==
  ASSUME NEW T, NEW a \in Seq(T), NEW b \in Seq(T), NEW c \in Seq(T)
  PROVE  (a \o b) \o c = a \o (b \o c)
OBVIOUS

GoesOn(s, f, g) ==
  /\ f \o g # <<>> /\ Head(f \o g) = Head(f)
  /\ s \o Tail(f \o g) = (s \o Tail(f)) \o g

LEMMA Behind ==
  ASSUME NEW T, NEW s \in Seq(T), NEW f \in Seq(T), NEW g \in Seq(T), f # <<>>
  PROVE  GoesOn(s, f, g)
<1> DEFINE u == Tail(f)
<1>1. u \in Seq(T) /\ Tail(f \o g) = u \o g OBVIOUS
<1>2. f \o g # <<>> /\ Head(f \o g) = Head(f) OBVIOUS
<1> HIDE DEF u
<1>3. (s \o u) \o g = s \o (u \o g) BY <1>1, Associative
<1> QED BY <1>1, <1>2, <1>3 DEF u, GoesOn

LEMMA MovingGrows ==
  ASSUME NEW R, NEW S, NEW V, NEW Q, R \subseteq Q, NEW T, S \subseteq T, NEW W, V \subseteq W,
         NEW e, NEW f, NEW q, NEW o, Moving(R, S, V, e, f, q, o)
  PROVE  Moving(Q, T, W, e, f, q, o)
<1>1. Seq(S) \subseteq Seq(T) /\ Seq(V) \subseteq Seq(W) OBVIOUS
<1>2. f # <<>> => Goes(Q, T, f, q, o) BY <1>1 DEF Moving, Goes
<1> QED BY <1>1, <1>2 DEF Moving

\* A node before a run.
LEMMA NodeRun ==
  ASSUME NEW x, NEW W, NEW q \in Seq(W), NEW o \in Nat,
         NEW f, NEW t, NEW p \in Nat, NEW e, o <= p, Run(f, t, p, e),
         Steps(x, q, o, f, t, p)
  PROVE  Run(<<x>>, q, o, e)
<1>1. PICK R, S, V : Moves(R, S, V, e) /\ <<f, t, p>> \in R BY DEF Run
<1> DEFINE Q == R \cup {<<<<x>>, q, o>>}
           T == S \cup {x}
           U == V \cup W
<1>2. R \subseteq Q /\ S \subseteq T /\ V \subseteq U /\ x \in T /\ W \subseteq U
      /\ <<<<x>>, q, o>> \in Q
  OBVIOUS
<1>3. ASSUME NEW g, NEW r, NEW a, <<g, r, a>> \in Q
      PROVE  <<g, r, a>> \in R \/ (g = <<x>> /\ r = q /\ a = o)
  BY <1>3
<1> HIDE DEF Q, T, U
<1>4. f \in Seq(S) /\ e \in Nat /\ p <= e BY <1>1 DEF Moves, Moving
<1>5. f \in Seq(T) /\ q \in Seq(U) /\ <<x>> \in Seq(T)
  <2>1. Seq(S) \subseteq Seq(T) /\ Seq(W) \subseteq Seq(U) BY <1>2
  <2>2. <<x>> \in Seq(T) BY <1>2
  <2> QED BY <1>4, <2>1, <2>2
<1>6. <<x>> # <<>> /\ Head(<<x>>) = x /\ f \o Tail(<<x>>) = f BY <1>5
<1>7. Moves(Q, T, U, e)
  <2> SUFFICES ASSUME NEW g, NEW r, NEW a, <<g, r, a>> \in Q
               PROVE  Moving(Q, T, U, e, g, r, a)
    BY DEF Moves
  <2>1. CASE <<g, r, a>> \in R BY <1>1, <1>2, <2>1, MovingGrows DEF Moves
  <2>2. CASE g = <<x>> /\ r = q /\ a = o
    <3>1. <<f \o Tail(<<x>>), t, p>> \in Q BY <1>1, <1>2, <1>6
    <3>2. Steps(Head(<<x>>), q, o, f, t, p) BY <1>6
    <3>3. Goes(Q, T, <<x>>, q, o) BY <1>5, <3>1, <3>2 DEF Goes
    <3>4. o <= e BY <1>4
    <3> QED BY <1>4, <1>5, <1>6, <2>2, <3>3, <3>4 DEF Moving
  <2> QED BY <1>3, <2>1, <2>2
<1> QED BY <1>2, <1>7 DEF Run

\* What a run becomes before another one with nodes g and script r.
Before(R, g, r, a, b, c) == \E f, q : <<f, q, c>> \in R /\ a = f \o g /\ b = q \o r

\* One run after the other.
LEMMA JoinRuns ==
  ASSUME NEW f, NEW q, NEW o, NEW m, Run(f, q, o, m),
         NEW g, NEW r, NEW e, Run(g, r, m, e)
  PROVE  Run(f \o g, q \o r, o, e)
<1>1. PICK R1, S1, V1 : Moves(R1, S1, V1, m) /\ <<f, q, o>> \in R1 BY DEF Run
<1>2. PICK R2, S2, V2 : Moves(R2, S2, V2, e) /\ <<g, r, m>> \in R2 BY DEF Run
<1> DEFINE T == S1 \cup S2
           U == V1 \cup V2
           P == {w \in Seq(T) \X Seq(U) \X Nat :
                   \E a, b, c : <<a, b, c>> \in R1 /\ w = <<a \o g, b \o r, c>>}
           Q == P \cup R2
<1>3. g \in Seq(S2) /\ r \in Seq(V2) /\ m \in Nat /\ e \in Nat /\ m <= e
  BY <1>2 DEF Moves, Moving
<1>4. S1 \subseteq T /\ S2 \subseteq T /\ V1 \subseteq U /\ V2 \subseteq U /\ R2 \subseteq Q
  OBVIOUS
<1> HIDE DEF T, U
<1>5. /\ Seq(S1) \subseteq Seq(T) /\ Seq(S2) \subseteq Seq(T)
      /\ Seq(V1) \subseteq Seq(U) /\ Seq(V2) \subseteq Seq(U)
  BY <1>4
<1>6. ASSUME NEW a, NEW b, NEW c, <<a, b, c>> \in R1
      PROVE  <<a \o g, b \o r, c>> \in Q
  <2>1. a \in Seq(T) /\ b \in Seq(U) /\ c \in Nat BY <1>1, <1>5, <1>6 DEF Moves, Moving
  <2>2. g \in Seq(T) /\ r \in Seq(U) BY <1>3, <1>5
  <2>3. a \o g \in Seq(T) /\ b \o r \in Seq(U) BY <2>1, <2>2
  <2> QED BY <1>6, <2>1, <2>3
<1>7. ASSUME NEW a, NEW b, NEW c, <<a, b, c>> \in Q, <<a, b, c>> \notin R2
      PROVE  Before(R1, g, r, a, b, c)
  <2>1. <<a, b, c>> \in P BY <1>7
  <2>2. PICK f1, q1, c1 : <<f1, q1, c1>> \in R1 /\ <<a, b, c>> = <<f1 \o g, q1 \o r, c1>>
    BY <2>1
  <2>3. a = f1 \o g /\ b = q1 \o r /\ c = c1 BY <2>2
  <2> QED BY <2>2, <2>3 DEF Before
<1> HIDE DEF P, Q
<1>8. Moves(Q, T, U, e)
  <2> SUFFICES ASSUME NEW a, NEW b, NEW c, <<a, b, c>> \in Q
               PROVE  Moving(Q, T, U, e, a, b, c)
    BY DEF Moves
  <2>1. CASE <<a, b, c>> \in R2 BY <1>2, <1>4, <2>1, MovingGrows DEF Moves
  <2>2. ASSUME NEW f1, NEW q1, <<f1, q1, c>> \in R1
        PROVE  Moving(Q, T, U, e, f1 \o g, q1 \o r, c)
    <3>1. Moving(R1, S1, V1, m, f1, q1, c) BY <1>1, <2>2 DEF Moves
    <3>2. f1 \in Seq(T) /\ q1 \in Seq(U) /\ c \in Nat /\ c <= m
      BY <1>5, <3>1 DEF Moving
    <3>3. g \in Seq(T) /\ r \in Seq(U) BY <1>3, <1>5
    <3>4. f1 \o g \in Seq(T) /\ q1 \o r \in Seq(U) BY <3>2, <3>3
    <3>5. c \in Nat /\ e \in Nat /\ c <= e BY <1>3, <3>2
    <3>6. CASE f1 = <<>>
      <4>1. q1 = <<>> /\ c = m BY <3>1, <3>6 DEF Moving
      <4>2. f1 \o g = g /\ q1 \o r = r BY <3>3, <3>6, <4>1
      <4>3. Moving(Q, T, U, e, g, r, m) BY <1>2, <1>4, MovingGrows DEF Moves
      <4> QED BY <4>1, <4>2, <4>3
    <3>7. CASE f1 # <<>>
      <4>1. Goes(R1, S1, f1, q1, c) BY <3>1, <3>7 DEF Moving
      <4>2. PICK s, t, p : /\ s \in Seq(S1)
                           /\ Steps(Head(f1), q1, c, s, t, p)
                           /\ <<s \o Tail(f1), t, p>> \in R1
        BY <4>1 DEF Goes
      <4>3. s \in Seq(T) BY <1>5, <4>2
      <4>4. /\ f1 \o g # <<>> /\ Head(f1 \o g) = Head(f1)
            /\ s \o Tail(f1 \o g) = (s \o Tail(f1)) \o g
        <5>1. f1 \in Seq(T) /\ g \in Seq(T) BY <3>2, <3>3
        <5>2. GoesOn(s, f1, g) BY <3>7, <4>3, <5>1, Behind
        <5> QED BY <5>2 DEF GoesOn
      <4>5. Steps(Head(f1), q1 \o r, c, s, t \o r, p) BY <3>2, <3>3, <4>2, StepsProlong
      <4>6. <<(s \o Tail(f1)) \o g, t \o r, p>> \in Q BY <1>6, <4>2
      <4> DEFINE a1 == f1 \o g
                 b1 == q1 \o r
                 s1 == s \o Tail(a1)
                 s2 == (s \o Tail(f1)) \o g
                 t1 == t \o r
      <4>7. /\ a1 # <<>> /\ Head(a1) = Head(f1) /\ s1 = s2 /\ <<s2, t1, p>> \in Q
            /\ Steps(Head(f1), b1, c, s, t1, p)
        BY <4>4, <4>5, <4>6
      <4> HIDE DEF s2, b1, t1
      <4>8. <<s \o Tail(a1), t1, p>> \in Q BY <4>7
      <4> HIDE DEF a1
      <4>9. Goes(Q, T, a1, b1, c) BY <4>3, <4>7, <4>8 DEF Goes
      <4>10. a1 \in Seq(T) /\ b1 \in Seq(U) BY <3>4 DEF a1, b1
      <4>11. Moving(Q, T, U, e, a1, b1, c) BY <3>5, <4>7, <4>9, <4>10 DEF Moving
      <4> QED BY <4>11 DEF a1, b1
    <3> QED BY <3>6, <3>7
  <2>3. CASE <<a, b, c>> \notin R2
    <3>1. Before(R1, g, r, a, b, c) BY <1>7, <2>3
    <3> QED BY <2>2, <3>1 DEF Before
  <2> QED BY <2>1, <2>3
<1> QED BY <1>1, <1>6, <1>8 DEF Run

-----------------------------------------------------------------------------
(* The runs of the nodes.                                                  *)

LEMMA AfterIsLater ==
  ASSUME NEW o \in Nat, NEW n \in DataSizes
  PROVE  After(o, n) \in Nat /\ o < After(o, n)
<1>1. Padding(o, n) \in Nat BY PaddingFills
<1>2. n \in Nat /\ n > 0 BY DEF DataSizes
<1> HIDE DEF Padding
<1> QED BY <1>1, <1>2 DEF After

LEMMA AfterByte == ASSUME NEW o \in Nat PROVE After(o, 1) = o + 1
<1>1. Padding(o, 1) = 0 BY DEF Padding
<1> QED BY <1>1 DEF After

LEMMA RunNothing == ASSUME NEW o \in Nat PROVE Run(<<>>, <<>>, o, o)
<1> DEFINE R == {<<<<>>, <<>>, o>>}
<1>1. ASSUME NEW f, NEW q, NEW a, <<f, q, a>> \in R PROVE Moving(R, {}, {}, o, f, q, a)
  <2>1. f = <<>> /\ q = <<>> /\ a = o BY <1>1
  <2>2. <<>> \in Seq({}) OBVIOUS
  <2> HIDE DEF R
  <2> QED BY <2>1, <2>2 DEF Moving
<1>2. Moves(R, {}, {}, o) BY <1>1 DEF Moves
<1> QED BY <1>2 DEF Run

\* A node after which nothing comes and that has no choice.
LEMMA LeafRun ==
  ASSUME NEW x, NEW o \in Nat, NEW p \in Nat, o <= p, Steps(x, <<>>, o, <<>>, <<>>, p)
  PROVE  Run(<<x>>, <<>>, o, p)
<1>1. <<>> \in Seq({}) OBVIOUS
<1>2. Run(<<>>, <<>>, p, p) BY RunNothing
<1> DEFINE W == {}
           q == <<>>
<1>3. q \in Seq(W) /\ Run(q, q, p, p) /\ Steps(x, q, o, q, q, p) BY <1>1, <1>2
<1> HIDE DEF W, q
<1>4. Run(<<x>>, q, o, p) BY <1>3, NodeRun
<1> QED BY <1>4 DEF q

LEMMA ValueRun ==
  ASSUME NEW n \in DataSizes, NEW o \in Nat
  PROVE  Run(Uint(n), <<>>, o, After(o, n))
<1> DEFINE x == [k |-> "int", n |-> n]
           p == After(o, n)
<1>1. p \in Nat /\ o <= p BY AfterIsLater
<1>2. Steps(x, <<>>, o, <<>>, <<>>, p) BY DEF Steps
<1>3. Uint(n) = <<x>> BY DEF Uint
<1> HIDE DEF x, p
<1> QED BY <1>1, <1>2, <1>3, LeafRun DEF p

LEMMA RawRun ==
  ASSUME NEW n \in Nat, NEW cap, NEW o \in Nat
  PROVE  Run(<<[k |-> "raw", n |-> n, cap |-> cap]>>, <<>>, o, o + n)
<1> DEFINE x == [k |-> "raw", n |-> n, cap |-> cap]
           p == o + n
<1>1. p \in Nat /\ o <= p OBVIOUS
<1>2. Steps(x, <<>>, o, <<>>, <<>>, p) BY DEF Steps
<1> HIDE DEF x, p
<1>3. Run(<<x>>, <<>>, o, p) BY <1>1, <1>2, LeafRun
<1> QED BY <1>3 DEF x, p

LEMMA BytesRun ==
  ASSUME NEW x, x.k = "bytes", NEW l \in Nat, NEW o \in Nat
  PROVE  Run(<<x>>, <<l>>, o, After(o, 4) + l)
<1> DEFINE p == After(o, 4)
           e == p + l
           q == <<l>>
           f == Elements(l, x.cap)
<1>1. p \in Nat /\ o <= p BY AfterIsLater, ArithmeticSizes
<1>2. q \in Seq({l}) /\ q # <<>> /\ Head(q) = l /\ Tail(q) = <<>> OBVIOUS
<1>3. Steps(x, q, o, f, <<>>, p) BY <1>2 DEF Steps
<1> HIDE DEF p, q
<1>4. Run(f, <<>>, p, e)
  <2>1. CASE l = 0
    <3>1. f = <<>> /\ e = p BY <1>1, <2>1 DEF Elements
    <3> QED BY <1>1, <3>1, RunNothing
  <2>2. CASE l # 0
    <3>1. f = <<[k |-> "raw", n |-> l, cap |-> x.cap]>> BY <2>2 DEF Elements
    <3> QED BY <1>1, <3>1, RawRun
  <2> QED BY <2>1, <2>2
<1> DEFINE W == {l}
           t == <<>>
<1>5. q \in Seq(W) /\ Run(f, t, p, e) /\ Steps(x, q, o, f, t, p) BY <1>2, <1>3, <1>4
<1> HIDE DEF W, t, f, e
<1>6. Run(<<x>>, q, o, e) BY <1>1, <1>5, NodeRun
<1> QED BY <1>6 DEF q, e, p

LEMMA TextRun ==
  ASSUME NEW l \in Nat, NEW o \in Nat
  PROVE  /\ Run(Text, <<l>>, o, After(o, 4) + l)
         /\ \A cap : Run(Bytes(cap), <<l>>, o, After(o, 4) + l)
<1>1. \A cap, least : [k |-> "bytes", least |-> least, cap |-> cap].k = "bytes" OBVIOUS
<1>2. \A cap, least : Run(<<[k |-> "bytes", least |-> least, cap |-> cap]>>, <<l>>, o, After(o, 4) + l)
  BY <1>1, BytesRun
<1> QED BY <1>2 DEF Text, Bytes

\* A script with a value before it.
LEMMA ScriptBefore ==
  ASSUME NEW v, NEW V, NEW q \in Seq(V)
  PROVE  /\ <<v>> \o q \in Seq(V \cup {v}) /\ <<v>> \o q # <<>>
         /\ Head(<<v>> \o q) = v /\ Tail(<<v>> \o q) = q
<1> DEFINE W == V \cup {v}
<1>1. Seq(V) \subseteq Seq(W) /\ v \in W OBVIOUS
<1> HIDE DEF W
<1>2. <<v>> \in Seq(W) /\ q \in Seq(W) BY <1>1
<1>3. <<v>> \o q \in Seq(W) /\ <<v>> \o q # <<>> BY <1>2
<1>4. Head(<<v>> \o q) = v /\ Tail(<<v>> \o q) = q BY <1>2
<1> QED BY <1>3, <1>4 DEF W

\* A node that chooses the form f by the value v.
LEMMA ChoiceRun ==
  ASSUME NEW x, NEW v, NEW f, NEW q, NEW o \in Nat, NEW p \in Nat, NEW e, o <= p,
         Run(f, q, p, e),
         \A r, V : r \in Seq(V) /\ r # <<>> /\ Head(r) = v => Steps(x, r, o, f, Tail(r), p)
  PROVE  Run(<<x>>, <<v>> \o q, o, e)
<1>1. PICK V : q \in Seq(V) BY RunTypes
<1> DEFINE r == <<v>> \o q
           W == V \cup {v}
<1>2. r \in Seq(W) /\ r # <<>> /\ Head(r) = v /\ Tail(r) = q BY <1>1, ScriptBefore
<1> HIDE DEF r, W
<1>3. Steps(x, r, o, f, q, p) BY <1>2
<1>4. Run(<<x>>, r, o, e) BY <1>2, <1>3, NodeRun
<1> QED BY <1>4 DEF r

LEMMA OptRun ==
  ASSUME NEW f, NEW o \in Nat
  PROVE  /\ Run(Opt(f), <<0>>, o, o + 1)
         /\ \A q, e : Run(f, q, o + 1, e) => Run(Opt(f), <<1>> \o q, o, e)
<1> DEFINE x == [k |-> "opt", s |-> f]
           p == o + 1
<1>1. Opt(f) = <<x>> BY DEF Opt
<1>2. p \in Nat /\ o <= p /\ After(o, 1) = p BY AfterByte
<1>3. x.k = "opt" /\ x.s = f OBVIOUS
<1> HIDE DEF x, p
<1>4. \A r : r # <<>> /\ Head(r) = 1 => Steps(x, r, o, f, Tail(r), p)
  BY <1>2, <1>3 DEF Steps, Flags
<1>5. \A r : r # <<>> /\ Head(r) = 0 => Steps(x, r, o, <<>>, Tail(r), p)
  BY <1>2, <1>3 DEF Steps, Flags
<1>6. ASSUME NEW q, NEW e, Run(f, q, p, e) PROVE Run(<<x>>, <<1>> \o q, o, e)
  BY <1>2, <1>4, <1>6, ChoiceRun
<1>7. Run(<<x>>, <<0>>, o, p)
  <2> DEFINE q == <<>>
  <2>1. Run(q, q, p, p) BY <1>2, RunNothing
  <2>2. \A r : r # <<>> /\ Head(r) = 0 => Steps(x, r, o, q, Tail(r), p) BY <1>5
  <2>3. <<0>> \o q = <<0>> OBVIOUS
  <2> HIDE DEF q
  <2>4. Run(<<x>>, <<0>> \o q, o, p) BY <1>2, <2>1, <2>2, ChoiceRun
  <2> QED BY <2>3, <2>4
<1> QED BY <1>1, <1>6, <1>7 DEF p

LEMMA TagRun ==
  ASSUME NEW n \in DataSizes, NEW alt, NEW v \in DOMAIN alt, NEW o \in Nat, NEW q, NEW e,
         Run(alt[v], q, After(o, n), e)
  PROVE  Run(Tagged(n, alt), <<v>> \o q, o, e)
<1> DEFINE x == [k |-> "tag", n |-> n, alt |-> alt]
           p == After(o, n)
           f == alt[v]
<1>1. Tagged(n, alt) = <<x>> BY DEF Tagged
<1>2. p \in Nat /\ o <= p BY AfterIsLater
<1>3. x.k = "tag" /\ x.n = n /\ x.alt = alt OBVIOUS
<1>4. Run(f, q, p, e) OBVIOUS
<1> HIDE DEF x
<1>5. \A r : r # <<>> /\ Head(r) = v => Steps(x, r, o, f, Tail(r), p)
  BY <1>3 DEF Steps
<1> HIDE DEF p, f
<1> QED BY <1>1, <1>2, <1>4, <1>5, ChoiceRun

LEMMA OnlyRun ==
  ASSUME NEW f, NEW o \in Nat
  PROVE  /\ Run(Only("in", f), <<>>, o, o)
         /\ \A q, e : Run(f, q, o, e) => Run(Only("out", f), q, o, e)
<1>1. Run(Only("in", f), <<>>, o, o)
  <2> DEFINE x == [k |-> "only", dir |-> "in", s |-> f]
  <2>1. Steps(x, <<>>, o, <<>>, <<>>, o) BY DEF Steps
  <2>2. Only("in", f) = <<x>> BY DEF Only
  <2> HIDE DEF x
  <2> QED BY <2>1, <2>2, LeafRun
<1>2. ASSUME NEW q, NEW e, Run(f, q, o, e) PROVE Run(Only("out", f), q, o, e)
  <2> DEFINE x == [k |-> "only", dir |-> "out", s |-> f]
  <2>1. PICK V : q \in Seq(V) BY <1>2, RunTypes
  <2>2. Steps(x, q, o, f, q, o) BY DEF Steps
  <2>3. Only("out", f) = <<x>> BY DEF Only
  <2> HIDE DEF x
  <2> QED BY <1>2, <2>1, <2>2, <2>3, NodeRun
<1> QED BY <1>1, <1>2

-----------------------------------------------------------------------------
(* The buffers.                                                            *)

LEMMA InitRegular ==
  ASSUME NEW ends \in Seq(Nat), ends # <<>>,
         \A i, j \in DOMAIN ends : i <= j => ends[i] <= ends[j],
         NEW offset \in Nat, NEW full \in {"none", "out", "in"}
  PROVE  LET b == InitBuffer(ends, offset, full) IN
         /\ Regular(b) /\ Sound(b) /\ b.ends = ends /\ b.full = full /\ b.slot = 1
         /\ b.at = offset /\ b.offset = offset /\ ~b.error
<1> DEFINE b == InitBuffer(ends, offset, full)
<1>1. /\ b.ends = ends /\ b.full = full /\ b.slot = 1 /\ b.at = offset /\ b.offset = offset
      /\ b.error = FALSE /\ b.last = 0
  BY DEF InitBuffer
<1>2. b \in Buffers
  <2>1. offset \in Int /\ 1 \in Nat \ {0} /\ 0 \in {0} \cup DataSizes OBVIOUS
  <2> QED BY <2>1 DEF InitBuffer, Buffers
<1>3. 1 \in DOMAIN ends OBVIOUS
<1> HIDE DEF b
<1>4. Regular(b) BY <1>1, <1>2, <1>3 DEF Regular
<1>5. Sound(b) BY <1>1 DEF Sound
<1> QED BY <1>1, <1>4, <1>5 DEF b

LEMMA OneSlotRegular ==
  ASSUME NEW size \in Nat, NEW offset \in Nat, NEW full \in {"none", "out", "in"}
  PROVE  LET b == InitBuffer(<<size>>, offset, full) IN
         /\ Regular(b) /\ Sound(b) /\ b.ends = <<size>> /\ b.full = full /\ b.slot = 1
         /\ b.at = offset /\ b.offset = offset /\ ~b.error
<1> DEFINE ends == <<size>>
<1>1. ends \in Seq(Nat) /\ ends # <<>> OBVIOUS
<1>2. \A i, j \in DOMAIN ends : i <= j => ends[i] <= ends[j] OBVIOUS
<1> HIDE DEF ends
<1>3. LET b == InitBuffer(ends, offset, full) IN
      /\ Regular(b) /\ Sound(b) /\ b.ends = ends /\ b.full = full /\ b.slot = 1
      /\ b.at = offset /\ b.offset = offset /\ ~b.error
  BY <1>1, <1>2, InitRegular
<1> QED BY <1>3 DEF ends

\* Products of numbers keep their order.
LEMMA ProductsOrdered ==
  ASSUME NEW a \in Nat, NEW b \in Nat, NEW c \in Nat, a <= b
  PROVE  a * c \in Nat /\ b * c \in Nat /\ a * c <= b * c
OBVIOUS

\* Whole blocks and a rest that is not empty.
LEMMA BlocksAndRest ==
  ASSUME NEW rest \in Nat \ {0}, NEW block \in Nat \ {0}
  PROVE  LET last == IF rest % block = 0 THEN block ELSE rest % block
             whole == (rest - last) \div block
         IN  last \in 1..block /\ whole \in Nat /\ rest = whole * block + last
<1> DEFINE m == rest % block
           d == rest \div block
<1>1. m \in 0..(block - 1) /\ d \in Nat /\ rest = block * d + m OBVIOUS
<1>2. CASE m = 0
  <2>1. d # 0 BY <1>1, <1>2
  <2>2. rest - block = block * (d - 1) /\ d - 1 \in Nat BY <1>1, <1>2, <2>1
  <2>3. (block * (d - 1)) \div block = d - 1 BY <2>2
  <2>4. rest = (d - 1) * block + block BY <2>2
  <2>5. block \in 1..block /\ (rest - block) \div block = d - 1 BY <2>2, <2>3
  <2> HIDE DEF d
  <2> QED BY <1>2, <2>2, <2>4, <2>5
<1>3. CASE m # 0
  <2>1. rest - m = block * d BY <1>1
  <2>2. (block * d) \div block = d BY <1>1
  <2>3. rest = d * block + m BY <1>1
  <2>4. m \in 1..block /\ (rest - m) \div block = d BY <1>1, <1>3, <2>1, <2>2
  <2> HIDE DEF d
  <2> QED BY <1>1, <1>3, <2>3, <2>4
<1> QED BY <1>2, <1>3

\* The slots of a fragmented message of the client end where the message ends, and those
\* between the first and the last one have whole blocks.
LEMMA FragmentsRegular ==
  ASSUME NEW length \in Nat, NEW first \in Nat, NEW block \in Nat \ {0}, first < length
  PROVE  LET ends == FragmentEnds(length, first, block) IN
         /\ ends \in Seq(Nat) /\ Len(ends) > 1 /\ ends[Len(ends)] = length
         /\ \A i, j \in DOMAIN ends : i <= j => ends[i] <= ends[j]
         /\ \A i \in DOMAIN ends : 1 < i /\ i < Len(ends) => ends[i] = ends[i - 1] + block
<1> DEFINE rest == length - first
           last == IF rest % block = 0 THEN block ELSE rest % block
           whole == (rest - last) \div block
           ends == FragmentEnds(length, first, block)
           L == whole + 2
<1>1. rest \in Nat \ {0} OBVIOUS
<1>2. last \in 1..block /\ whole \in Nat /\ rest = whole * block + last
  BY <1>1, BlocksAndRest
<1>3. ends = [i \in 1..L |-> IF i = L THEN length ELSE first + (i - 1) * block]
  BY DEF FragmentEnds
<1>4. length = first + (whole * block + last) /\ whole * block \in Nat
  <2>1. length = first + rest OBVIOUS
  <2> HIDE DEF rest, last, whole
  <2>2. whole * block \in Nat BY <1>2
  <2> QED BY <1>2, <2>1, <2>2
<1> HIDE DEF rest, last, whole, ends
<1>5. ASSUME NEW i \in 1..L, i # L
      PROVE  i - 1 \in Nat /\ i - 1 <= whole /\ (i - 1) * block \in Nat
             /\ ends[i] = first + (i - 1) * block /\ ends[i] <= length
  <2>1. i - 1 \in Nat /\ i - 1 <= whole BY <1>2, <1>5
  <2>2. (i - 1) * block \in Nat /\ (i - 1) * block <= whole * block
    BY <1>2, <2>1, ProductsOrdered
  <2>3. ends[i] = first + (i - 1) * block BY <1>3, <1>5
  <2> DEFINE a == (i - 1) * block
             c == whole * block
  <2> HIDE DEF a, c
  <2>4. first + a <= length BY <1>2, <1>4, <2>2 DEF a, c
  <2> QED BY <2>1, <2>2, <2>3, <2>4 DEF a
<1>6. L \in Nat /\ L > 1 /\ L \in 1..L /\ ends[L] = length BY <1>2, <1>3
<1>7. ASSUME NEW i \in 1..L PROVE ends[i] \in Nat /\ ends[i] <= length
  BY <1>5, <1>6
<1> HIDE DEF L
<1>8. ends \in [1..L -> Nat]
  <2>1. DOMAIN ends = 1..L /\ ends = [i \in 1..L |-> ends[i]] BY <1>3
  <2> QED BY <1>7, <2>1
<1>9. ends \in Seq(Nat) /\ Len(ends) = L /\ DOMAIN ends = 1..L
  BY <1>6, <1>8
<1>10. ASSUME NEW i \in 1..L, NEW j \in 1..L, i <= j PROVE ends[i] <= ends[j]
  <2>1. CASE j = L BY <1>6, <1>7, <2>1
  <2>2. CASE j # L
    <3>1. i # L BY <1>6, <1>10, <2>2
    <3>2. i - 1 \in Nat /\ j - 1 \in Nat /\ i - 1 <= j - 1 BY <1>5, <1>10, <2>2, <3>1
    <3>3. (i - 1) * block <= (j - 1) * block BY <3>2, ProductsOrdered
    <3>4. /\ ends[i] = first + (i - 1) * block /\ ends[j] = first + (j - 1) * block
          /\ (i - 1) * block \in Nat /\ (j - 1) * block \in Nat
      BY <1>5, <2>2, <3>1
    <3> DEFINE a == (i - 1) * block
               c == (j - 1) * block
    <3>5. a <= c /\ a \in Nat /\ c \in Nat /\ ends[i] = first + a /\ ends[j] = first + c
      BY <3>3, <3>4
    <3> HIDE DEF a, c
    <3> QED BY <3>5
  <2> QED BY <2>1, <2>2
<1>11. ASSUME NEW i \in 1..L, 1 < i, i < L PROVE ends[i] = ends[i - 1] + block
  <2>1. i # L /\ i - 1 \in 1..L /\ i - 1 # L BY <1>6, <1>11
  <2>2. ends[i] = first + (i - 1) * block /\ ends[i - 1] = first + (i - 1 - 1) * block
        /\ i - 1 - 1 \in Nat
    BY <1>5, <2>1
  <2>3. (i - 1) * block = (i - 1 - 1) * block + block BY <2>1, <2>2
  <2> DEFINE a == (i - 1 - 1) * block
  <2>4. a \in Nat /\ ends[i] = first + (a + block) /\ ends[i - 1] = first + a
    BY <2>2, <2>3
  <2> HIDE DEF a
  <2> QED BY <2>4
<1> QED BY <1>6, <1>9, <1>10, <1>11 DEF ends

\* What arrives of a buffer of the agent.
LEMMA ArrivedRegular ==
  ASSUME NEW b, Regular(b), b.slot \in DOMAIN b.ends
  PROVE  LET ends == ArrivedEnds(b) IN
         /\ ends \in Seq(Nat) /\ ends # <<>>
         /\ \A i, j \in DOMAIN ends : i <= j => ends[i] <= ends[j]
<1> DEFINE ends == ArrivedEnds(b)
           L == b.slot
           last == Begins(b, L) + b.at
<1>1. /\ b.ends \in Seq(Nat) /\ DOMAIN b.ends = 1..Len(b.ends) /\ Len(b.ends) \in Nat \ {0}
      /\ \A i \in DOMAIN b.ends : b.ends[i] \in Nat
      /\ L \in Nat \ {0} /\ b.at \in Nat /\ Begins(b, L) \in Nat
      /\ \A i, j \in DOMAIN b.ends : i <= j => b.ends[i] <= b.ends[j]
  BY SlotType DEF Regular
<1>2. ends = [s \in 1..L |-> IF s < L THEN b.ends[s] ELSE last]
  <2>1. \A s \in 1..L : ~(s < L) => s = L BY <1>1
  <2> QED BY <2>1 DEF ArrivedEnds
<1>3. last \in Nat BY <1>1
<1>4. ASSUME NEW i \in 1..L, i < L PROVE i \in DOMAIN b.ends /\ b.ends[i] <= last
  <2>1. i \in DOMAIN b.ends /\ L - 1 \in DOMAIN b.ends /\ L # 1 /\ i <= L - 1 BY <1>1, <1>4
  <2>2. Begins(b, L) = b.ends[L - 1] BY <2>1 DEF Begins
  <2>3. b.ends[i] <= b.ends[L - 1] /\ b.ends[i] \in Nat /\ b.ends[L - 1] \in Nat
    BY <1>1, <2>1
  <2>4. last = b.ends[L - 1] + b.at /\ b.at \in Nat BY <1>1, <2>2
  <2> HIDE DEF last
  <2>5. b.ends[i] <= last BY <2>3, <2>4
  <2> QED BY <2>1, <2>5
<1> HIDE DEF ends, last
<1>5. \A i \in 1..L : ends[i] \in Nat
  <2> TAKE i \in 1..L
  <2>1. CASE i < L BY <1>1, <1>2, <1>4, <2>1
  <2>2. CASE ~(i < L) BY <1>2, <1>3, <2>2
  <2> QED BY <2>1, <2>2
<1>6. ASSUME NEW i \in 1..L, NEW j \in 1..L, i <= j PROVE ends[i] <= ends[j]
  <2>1. CASE j < L
    <3>1. i < L BY <1>1, <1>6, <2>1
    <3>2. i \in DOMAIN b.ends /\ j \in DOMAIN b.ends BY <1>4, <2>1, <3>1
    <3> QED BY <1>1, <1>2, <1>6, <2>1, <3>1, <3>2
  <2>2. CASE ~(j < L) /\ i < L BY <1>2, <1>4, <2>2
  <2>3. CASE ~(j < L) /\ ~(i < L) BY <1>2, <1>3, <2>3
  <2> QED BY <2>1, <2>2, <2>3
<1> HIDE DEF L
<1>7. ends \in [1..L -> Nat]
  <2>1. DOMAIN ends = 1..L /\ ends = [i \in 1..L |-> ends[i]] BY <1>2
  <2> QED BY <1>5, <2>1
<1>8. ends \in Seq(Nat) /\ Len(ends) = L /\ DOMAIN ends = 1..L BY <1>1, <1>7
<1> QED BY <1>1, <1>6, <1>8 DEF ends

\* The buffers of the agent.
LEMMA AgentRegular ==
  ASSUME NEW b \in AgentBuffers
  PROVE  Regular(b) /\ Sound(b)
<1>1. CASE b = InitBuffer(<<400>>, 4, "none") BY <1>1, OneSlotRegular
<1>2. ASSUME NEW c \in Blocks, b = InitBuffer([i \in 1..41 |-> c[1] + (i - 1) * c[2]], 0, "out")
      PROVE  Regular(b) /\ Sound(b)
  <2> DEFINE ends == [i \in 1..41 |-> c[1] + (i - 1) * c[2]]
  <2>1. c[1] \in Nat /\ c[2] \in Nat BY BlocksAssumption
  <2>2. ASSUME NEW i \in 1..41, NEW j \in 1..41, i <= j
        PROVE  ends[i] \in Nat /\ ends[i] <= ends[j]
    <3>1. i - 1 \in Nat /\ j - 1 \in Nat /\ i - 1 <= j - 1 BY <2>2
    <3> DEFINE p == (i - 1) * c[2]
               q == (j - 1) * c[2]
    <3>2. p \in Nat /\ q \in Nat /\ p <= q BY <2>1, <3>1, ProductsOrdered
    <3>3. ends[i] = c[1] + p /\ ends[j] = c[1] + q OBVIOUS
    <3> HIDE DEF p, q, ends
    <3> QED BY <2>1, <3>2, <3>3
  <2>3. ends \in [1..41 -> Nat]
    <3>1. DOMAIN ends = 1..41 /\ ends = [i \in 1..41 |-> ends[i]] OBVIOUS
    <3> HIDE DEF ends
    <3> QED BY <2>2, <3>1
  <2>4. b = InitBuffer(ends, 0, "out") BY <1>2
  <2> HIDE DEF ends
  <2>5. ends \in Seq(Nat) /\ Len(ends) = 41 /\ DOMAIN ends = 1..41
    <3>1. \A n \in Nat : \A f \in [1..n -> Nat] : f \in Seq(Nat) /\ Len(f) = n /\ DOMAIN f = 1..n
      OBVIOUS
    <3> QED BY <2>3, <3>1
  <2>6. ends # <<>> /\ \A i, j \in DOMAIN ends : i <= j => ends[i] <= ends[j]
    <3>1. DOMAIN <<>> = {} OBVIOUS
    <3>2. 1 \in DOMAIN ends BY <2>5
    <3>3. ends # <<>> BY <3>1, <3>2
    <3> QED BY <2>2, <2>5, <3>3
  <2> QED BY <2>4, <2>5, <2>6, InitRegular
<1> QED BY <1>1, <1>2 DEF AgentBuffers

\* Alignment, a buffer started anew and the header of a sequence leave buffers.
LEMMA KeptRegular ==
  ASSUME NEW buf, Regular(buf), Sound(buf), NEW n \in DataSizes
  PROVE  /\ Regular(AlignTo(buf, n)) /\ Regular(RebasedBuffer(buf))
         /\ \A length, capacity \in Nat :
              /\ Regular(SequenceHeader(buf, length, capacity))
              /\ length > capacity => SequenceHeader(buf, length, capacity).error
<1>1. /\ buf \in Buffers /\ buf.offset \in Nat /\ buf.at \in Nat /\ BufferRemaining(buf) \in Nat
      /\ buf.error \in BOOLEAN
  BY SlotType DEF Regular
<1>2. Regular(AlignTo(buf, n))
  <2> DEFINE padding == BufferAlignment(buf, n)
             step == IF padding <= BufferRemaining(buf) THEN padding ELSE BufferRemaining(buf)
             b == AlignTo(buf, n)
  <2>1. padding \in Nat BY <1>1, PaddingFills DEF BufferAlignment
  <2>2. step \in Nat BY <1>1, <2>1
  <2>3. b = [buf EXCEPT !.offset = @ + padding, !.last = n, !.at = @ + step] BY DEF AlignTo
  <2> HIDE DEF padding, step, b
  <2>4. buf.offset + padding \in Nat /\ buf.at + step \in Nat /\ buf.at + step \in Int
    BY <1>1, <2>1, <2>2
  <2>5. b = [buf EXCEPT !.offset = buf.offset + padding, !.last = n, !.at = buf.at + step]
    BY <1>1, <2>3 DEF Buffers
  <2>6. b \in Buffers BY <1>1, <2>4, <2>5 DEF Buffers
  <2>7. b.ends = buf.ends /\ b.slot = buf.slot /\ b.full = buf.full /\ b.at = buf.at + step
    BY <1>1, <2>5 DEF Buffers
  <2>8. Regular(b) BY <2>4, <2>6, <2>7 DEF Regular
  <2> QED BY <2>8 DEF b
<1>3. Regular(RebasedBuffer(buf))
  <2> DEFINE b == RebasedBuffer(buf)
  <2>1. b = [buf EXCEPT !.offset = 0, !.last = 0, !.error = FALSE] BY DEF RebasedBuffer
  <2> HIDE DEF b
  <2>2. b \in Buffers BY <1>1, <2>1 DEF Buffers
  <2>3. b.ends = buf.ends /\ b.slot = buf.slot /\ b.full = buf.full /\ b.at = buf.at
    BY <1>1, <2>1 DEF Buffers
  <2>4. Regular(b) BY <2>2, <2>3 DEF Regular
  <2> QED BY <2>4 DEF b
<1>4. ASSUME NEW length \in Nat, NEW capacity \in Nat
      PROVE  /\ Regular(SequenceHeader(buf, length, capacity))
             /\ length > capacity => SequenceHeader(buf, length, capacity).error
  <2> DEFINE b == Value(buf, 4)
             error == b.error \/ length > capacity
             c == SequenceHeader(buf, length, capacity)
  <2>1. Regular(b) BY ValueAligned, ArithmeticSizes
  <2>2. c = [b EXCEPT !.error = @ \/ length > capacity] BY DEF SequenceHeader
  <2>3. b \in Buffers BY <2>1 DEF Regular
  <2> HIDE DEF b
  <2>4. c = [b EXCEPT !.error = error] BY <2>2, <2>3 DEF Buffers
  <2>5. error \in BOOLEAN OBVIOUS
  <2>6. length > capacity => error OBVIOUS
  <2> HIDE DEF c, error
  <2>7. c \in Buffers BY <2>3, <2>4, <2>5 DEF Buffers
  <2>8. c.ends = b.ends /\ c.slot = b.slot /\ c.full = b.full /\ c.at = b.at /\ c.error = error
    BY <2>3, <2>4 DEF Buffers
  <2>9. Regular(c) BY <2>1, <2>7, <2>8 DEF Regular
  <2> QED BY <2>6, <2>8, <2>9 DEF c
<1> QED BY <1>2, <1>3, <1>4

\* The places of a value are as many as its bytes, or none; those of an array no more.
LEMMA PlacesCounted ==
  ASSUME NEW buf, Regular(buf), Sound(buf)
  PROVE  /\ \A n \in DataSizes : ~Value(buf, n).error =>
              Len(ValuePlaces(buf, n)) = n /\ Len(SwappedPlaces(buf, n)) = n
         /\ \A n \in Nat : /\ Len(ArrayPlaces(buf, n, 1)) \in 0..n
                           /\ buf.error => Len(ArrayPlaces(buf, n, 1)) = 0
<1>1. ASSUME NEW n \in DataSizes, ~Value(buf, n).error PROVE Len(ValuePlaces(buf, n)) = n
  <2> DEFINE s == ValuePlaces(buf, n)
  <2>1. DOMAIN s = 1..n BY <1>1 DEF ValuePlaces, PlacesFrom
  <2>2. s = [j \in 1..n |-> s[j]] BY <1>1 DEF ValuePlaces, PlacesFrom
  <2> HIDE DEF s
  <2>3. n \in Nat BY Sizes
  <2>4. s \in Seq({s[j] : j \in 1..n}) BY <2>1, <2>2, <2>3
  <2>5. Len(s) = n BY <2>1, <2>3, <2>4
  <2> QED BY <2>5 DEF s
<1>2. ASSUME NEW n \in Nat
      PROVE  /\ Len(ArrayPlaces(buf, n, 1)) \in 0..n
             /\ buf.error => Len(ArrayPlaces(buf, n, 1)) = 0
  <2> DEFINE a == Aligned(buf, 1)
             start == ArrayStart(buf, 1)
             k == Available(start, n)
             s == ArrayPlaces(buf, n, 1)
  <2>1. Regular(a) /\ (buf.error => a.error) BY AlignedFacts, ArithmeticSizes
  <2>2. start = [a EXCEPT !.last = buf.last] BY DEF ArrayStart
  <2>3. a \in Buffers /\ buf.last \in {0} \cup DataSizes BY <2>1, SlotType DEF Regular
  <2>4. n * 1 = n OBVIOUS
  <2>5. s = PlacesMoved(start, n * 1, Position(start)) BY DEF ArrayPlaces, start
  <2> HIDE DEF a, start
  <2>6. Regular(start) /\ (buf.error => start.error)
    BY <2>1, <2>2, <2>3 DEF Regular, Buffers
  <2>7. k \in 0..n /\ (start.error => k = 0) BY <2>6, AvailableBounds
  <2>8. DOMAIN s = 1..k /\ s = [j \in 1..k |-> s[j]]
    BY <2>4, <2>5 DEF PlacesMoved
  <2> HIDE DEF s, k
  <2>9. s \in Seq({s[j] : j \in 1..k}) BY <2>7, <2>8
  <2>10. Len(s) = k BY <2>7, <2>8, <2>9
  <2> QED BY <2>6, <2>7, <2>10 DEF s
<1>3. ASSUME NEW n \in DataSizes, ~Value(buf, n).error PROVE Len(SwappedPlaces(buf, n)) = n
  <2> DEFINE a == Aligned(buf, n)
             s == SwappedFrom(n, a, BufferRemaining(a), Continued(a))
  <2>1. SwappedPlaces(buf, n) = ValuePlaces(buf, n) \/ SwappedPlaces(buf, n) = s
    BY DEF SwappedPlaces
  <2>2. DOMAIN s = 1..n BY DEF SwappedFrom
  <2>3. s = [j \in 1..n |-> s[j]] BY DEF SwappedFrom
  <2> HIDE DEF s
  <2>4. n \in Nat BY Sizes
  <2>5. s \in Seq({s[j] : j \in 1..n}) BY <2>2, <2>3, <2>4
  <2>6. Len(s) = n BY <2>2, <2>4, <2>5
  <2> QED BY <1>1, <1>3, <2>1, <2>6
<1> QED BY <1>1, <1>2, <1>3

-----------------------------------------------------------------------------
(* Buffers of the client that do not run out.                              *)

End(buf) == buf.ends[Len(buf.ends)]

\* A buffer that is within its slots, aligned as its place in the message is; every
\* slot between the first and the last one takes the rest of a value that was split.
Snug(buf) ==
  /\ Regular(buf) /\ Sound(buf) /\ ~buf.error
  /\ buf.slot \in DOMAIN buf.ends /\ buf.at <= SlotSize(buf)
  /\ buf.offset = Begins(buf, buf.slot) + buf.at
  /\ buf.full # "in"
  /\ buf.full = "none" => Len(buf.ends) = 1
  /\ \A i \in DOMAIN buf.ends : 1 < i /\ i < Len(buf.ends) => buf.ends[i] >= buf.ends[i - 1] + 8

LEMMA SnugFacts ==
  ASSUME NEW buf, Snug(buf)
  PROVE  /\ buf.slot \in 1..Len(buf.ends) /\ Len(buf.ends) \in Nat /\ Begins(buf, buf.slot) \in Nat
         /\ buf.ends[buf.slot] \in Nat /\ End(buf) \in Nat /\ buf.ends[buf.slot] <= End(buf)
         /\ SlotSize(buf) = buf.ends[buf.slot] - Begins(buf, buf.slot)
         /\ Begins(buf, buf.slot + 1) = buf.ends[buf.slot]
         /\ BufferRemaining(buf) = buf.ends[buf.slot] - buf.offset
         /\ Position(buf) = buf.offset
         /\ buf.at \in Nat /\ buf.offset \in Nat /\ buf.offset <= buf.ends[buf.slot]
<1>1. /\ Len(buf.ends) \in Nat \ {0} /\ DOMAIN buf.ends = 1..Len(buf.ends)
      /\ \A i \in DOMAIN buf.ends : buf.ends[i] \in Nat
      /\ buf.slot \in Nat \ {0} /\ buf.at \in Nat /\ buf.offset \in Nat
      /\ Begins(buf, buf.slot) \in Nat
      /\ \A i, j \in DOMAIN buf.ends : i <= j => buf.ends[i] <= buf.ends[j]
  BY SlotType DEF Snug, Regular
<1>2. /\ buf.slot \in 1..Len(buf.ends) /\ buf.ends[buf.slot] \in Nat /\ End(buf) \in Nat
      /\ buf.ends[buf.slot] <= End(buf)
  BY <1>1 DEF Snug, End
<1>3. SlotSize(buf) = buf.ends[buf.slot] - Begins(buf, buf.slot) BY DEF Snug, SlotSize
<1>4. Begins(buf, buf.slot + 1) = buf.ends[buf.slot]
  <2>1. buf.slot + 1 # 1 /\ (buf.slot + 1) - 1 = buf.slot BY <1>1
  <2> QED BY <1>1, <1>2, <2>1 DEF Begins
<1>5. buf.at <= SlotSize(buf) /\ buf.offset = Begins(buf, buf.slot) + buf.at BY DEF Snug
<1>6. BufferRemaining(buf) = buf.ends[buf.slot] - buf.offset
  <2>1. CASE buf.at < SlotSize(buf) BY <1>1, <1>2, <1>3, <1>5, <2>1 DEF BufferRemaining
  <2>2. CASE ~(buf.at < SlotSize(buf)) BY <1>1, <1>2, <1>3, <1>5, <2>2 DEF BufferRemaining
  <2> QED BY <2>1, <2>2
<1>7. Position(buf) = buf.offset
  <2>1. CASE buf.at < SlotSize(buf) BY <1>5, <2>1 DEF Position
  <2>2. CASE ~(buf.at < SlotSize(buf))
    <3>1. Position(buf) = buf.ends[buf.slot] BY <1>4, <2>2 DEF Position
    <3> QED BY <1>1, <1>2, <1>3, <1>5, <2>2, <3>1
  <2> QED BY <2>1, <2>2
<1>8. buf.offset <= buf.ends[buf.slot] BY <1>1, <1>2, <1>3, <1>5
<1> QED BY <1>1, <1>2, <1>3, <1>4, <1>6, <1>7, <1>8

\* Bytes that end before the slots do are all moved.
LEMMA SnugMoved ==
  ASSUME NEW buf, Snug(buf), NEW n \in Nat, buf.offset + n <= End(buf),
         NEW dataSize \in DataSizes
  PROVE  LET b == Moved(buf, n, dataSize) IN
         /\ ~b.error /\ b.slot \in DOMAIN b.ends /\ b.at <= SlotSize(b)
         /\ b.offset = Begins(b, b.slot) + b.at
         /\ b.offset = buf.offset + n /\ Regular(b) /\ b.ends = buf.ends /\ b.full = buf.full
         /\ b.last = dataSize
<1> DEFINE L == Len(buf.ends)
           k == Available(buf, n)
           pos == Position(buf) + k
           slot == IF k = 0 THEN buf.slot ELSE SlotAt(buf, pos)
           at == IF k = 0 THEN buf.at ELSE pos - Begins(buf, slot)
           b == Moved(buf, n, dataSize)
<1>1. /\ Regular(buf) /\ buf \in Buffers /\ buf.error = FALSE /\ buf.full \in {"none", "out"}
      /\ buf.full = "none" => L = 1
  BY SlotType DEF Snug, Regular
<1>2. /\ buf.slot \in 1..L /\ L \in Nat /\ Begins(buf, buf.slot) \in Nat
      /\ buf.ends[buf.slot] \in Nat /\ End(buf) \in Nat
      /\ BufferRemaining(buf) = buf.ends[buf.slot] - buf.offset
      /\ Position(buf) = buf.offset /\ buf.at \in Nat /\ buf.offset \in Nat
  BY SnugFacts
<1>3. DOMAIN buf.ends = 1..L /\ \A i \in DOMAIN buf.ends : buf.ends[i] \in Nat
  BY <1>1, SlotType
<1>4. k = n
  <2>1. CASE buf.full = "out" BY <1>1, <2>1 DEF Available
  <2>2. CASE buf.full = "none"
    <3>1. L = 1 BY <1>1, <2>2
    <3>2. buf.slot = L
      <4> HIDE DEF L
      <4> QED BY <1>2, <3>1
    <3>3. n <= BufferRemaining(buf) BY <1>2, <3>2 DEF End
    <3> QED BY <1>1, <2>2, <3>3 DEF Available
  <2> QED BY <1>1, <2>1, <2>2
<1> HIDE DEF k
<1>5. /\ b = [buf EXCEPT !.slot = slot, !.at = at, !.offset = @ + k, !.last = dataSize,
                        !.error = @ \/ k < n]
  BY DEF Moved, MovedBy, k
<1> DEFINE c == [buf EXCEPT !.slot = slot, !.at = at, !.offset = buf.offset + n,
                           !.last = dataSize]
<1>6. /\ Regular(b) /\ b.ends = buf.ends /\ b.full = buf.full /\ b.last = dataSize
      /\ b.error = (buf.error \/ k < n)
      /\ ~b.error => b.offset = buf.offset + n
  BY <1>1, MovedRegular DEF k
<1>7. ~b.error /\ b.offset = buf.offset + n
  <2> HIDE DEF b
  <2>1. ~(k < n) BY <1>4
  <2> QED BY <1>1, <1>6, <2>1
<1>8. b.slot = slot /\ b.at = at BY <1>1, <1>5 DEF Buffers
<1>9. pos \in Nat /\ pos = buf.offset + n BY <1>2, <1>4
<1> HIDE DEF b, pos
<1>10. /\ slot \in 1..L /\ at <= buf.ends[slot] - Begins(buf, slot)
       /\ buf.offset + n = Begins(buf, slot) + at
  <2>1. CASE k = 0
    <3>1. slot = buf.slot /\ at = buf.at /\ n = 0 BY <1>4, <2>1
    <3>2. buf.at <= SlotSize(buf) /\ buf.offset = Begins(buf, buf.slot) + buf.at BY DEF Snug
    <3>3. SlotSize(buf) = buf.ends[buf.slot] - Begins(buf, buf.slot) BY SnugFacts
    <3> HIDE DEF slot, at
    <3> QED BY <1>2, <3>1, <3>2, <3>3
  <2>2. CASE k # 0
    <3>1. slot = SlotAt(buf, pos) /\ at = pos - Begins(buf, slot) BY <2>2
    <3>2. pos <= buf.ends[L] /\ L \in DOMAIN buf.ends BY <1>2, <1>3, <1>9 DEF End
    <3> HIDE DEF slot, at
    <3>3. slot \in Nat \ {0} /\ slot <= L BY <1>1, <1>9, <3>1, <3>2, SlotFound
    <3>4. slot \in 1..L BY <1>2, <3>3
    <3>5. buf.ends[slot] \in Nat BY <1>3, <3>4
    <3>6. pos <= buf.ends[slot]
      <4>1. buf.ends[slot] < pos => SlotAt(buf, pos) > slot BY <1>1, <1>3, <1>9, <3>4, SlotFound
      <4> QED BY <1>9, <3>1, <3>3, <3>5, <4>1
    <3>7. Begins(buf, slot) \in Nat BY <1>1, <3>3, SlotType
    <3> QED BY <1>9, <3>1, <3>4, <3>5, <3>6, <3>7
  <2> QED BY <2>1, <2>2
<1> HIDE DEF slot, at
<1>11. b.slot \in DOMAIN b.ends BY <1>3, <1>6, <1>8, <1>10
<1>12. Begins(b, b.slot) = Begins(buf, slot) /\ SlotSize(b) = buf.ends[slot] - Begins(buf, slot)
  BY <1>3, <1>6, <1>8, <1>10 DEF Begins, SlotSize
<1> QED BY <1>6, <1>7, <1>8, <1>10, <1>11, <1>12 DEF b

\* The same slots with what a step leaves make a snug buffer.
LEMMA SnugAgain ==
  ASSUME NEW buf, Snug(buf), NEW b, Regular(b), Sound(b), ~b.error, b.slot \in DOMAIN b.ends,
         b.at <= SlotSize(b), b.offset = Begins(b, b.slot) + b.at,
         b.ends = buf.ends, b.full = buf.full
  PROVE  Snug(b)
BY DEF Snug

\* The padding of a sound buffer is that of its offset.
LEMMA AlignmentIsPadding ==
  ASSUME NEW buf, Regular(buf), Sound(buf), ~buf.error, NEW n \in DataSizes
  PROVE  BufferAlignment(buf, n) = Padding(buf.offset, n)
<1>1. buf.offset \in Nat /\ buf.last \in {0} \cup DataSizes BY SlotType
<1>2. n \in Nat \ {0} BY Sizes
<1>3. CASE n > buf.last BY <1>3 DEF BufferAlignment
<1>4. CASE ~(n > buf.last)
  <2>1. buf.last \in DataSizes /\ n <= buf.last BY <1>1, <1>2, <1>4 DEF DataSizes
  <2>2. buf.offset % buf.last = 0 BY <2>1 DEF Sound, DataSizes
  <2>3. buf.offset % n = 0 BY <1>1, <2>1, <2>2, SmallerDivides
  <2>4. Padding(buf.offset, n) = 0
    <3>1. Padding(buf.offset, n) = (n - 0) % n BY <2>3 DEF Padding
    <3>2. (n - 0) % n = 0
      <4>1. n = 1 \/ n = 2 \/ n = 4 \/ n = 8 BY Sizes
      <4> QED BY <4>1
    <3> QED BY <3>1, <3>2
  <2> QED BY <1>4, <2>4 DEF BufferAlignment
<1> QED BY <1>3, <1>4

LEMMA SnugAligned ==
  ASSUME NEW buf, Snug(buf), NEW n \in DataSizes, After(buf.offset, n) <= End(buf)
  PROVE  LET a == Aligned(buf, n) IN
         /\ Snug(a) /\ a.ends = buf.ends /\ a.full = buf.full
         /\ a.offset + n = After(buf.offset, n) /\ a.last = 1
<1> DEFINE a == Aligned(buf, n)
           padding == Padding(buf.offset, n)
<1>1. Regular(buf) /\ Sound(buf) /\ ~buf.error BY DEF Snug
<1>2. buf.offset \in Nat /\ End(buf) \in Nat BY SnugFacts
<1>3. padding \in Nat /\ n \in Nat
  <2>1. n = 1 \/ n = 2 \/ n = 4 \/ n = 8 BY Sizes
  <2>2. n \in Nat BY <2>1
  <2> QED BY <1>2, <2>2, PaddingFills
<1>4. a = Moved(buf, padding, 1) BY <1>1, AlignmentIsPadding DEF Aligned, AdvanceBuffer
<1>5. After(buf.offset, n) = buf.offset + padding + n BY DEF After
<1> HIDE DEF a, padding
<1>6. buf.offset + padding <= End(buf) BY <1>2, <1>3, <1>5
<1>7. /\ ~a.error /\ a.slot \in DOMAIN a.ends /\ a.at <= SlotSize(a)
      /\ a.offset = Begins(a, a.slot) + a.at
      /\ a.offset = buf.offset + padding /\ Regular(a) /\ a.ends = buf.ends /\ a.full = buf.full
      /\ a.last = 1
  BY <1>3, <1>4, <1>6, SnugMoved, ArithmeticSizes
<1>8. Sound(a)
  <2>1. a.offset \in Nat BY <1>2, <1>3, <1>7
  <2>2. a.offset % 1 = 0 BY <2>1
  <2> QED BY <1>7, <2>2 DEF Sound
<1>9. Snug(a) BY <1>7, <1>8, SnugAgain
<1> QED BY <1>5, <1>7, <1>9 DEF a

\* A value that ends before the slots do is written, in one piece or in two.
LEMMA SnugValue ==
  ASSUME NEW buf, Snug(buf), NEW n \in DataSizes, After(buf.offset, n) <= End(buf)
  PROVE  LET b == Value(buf, n) IN
         /\ Snug(b) /\ b.ends = buf.ends /\ b.full = buf.full
         /\ b.offset = After(buf.offset, n)
<1> DEFINE a == Aligned(buf, n)
           room == BufferRemaining(a)
           c == Continued(a)
           b == Value(buf, n)
           L == Len(a.ends)
<1>1. Regular(buf) /\ Sound(buf) /\ ~buf.error BY DEF Snug
<1>2. /\ Snug(a) /\ a.ends = buf.ends /\ a.full = buf.full
      /\ a.offset + n = After(buf.offset, n) /\ a.last = 1
  BY SnugAligned
<1>3. b = ValueFrom(buf, n, a, room, c) BY DEF Value
<1>4. /\ Regular(b) /\ Sound(b) /\ b.ends = buf.ends /\ b.full = buf.full
  BY <1>1, ValueAligned
<1>5. c = OnFull([a EXCEPT !.at = @ + room, !.offset = @ + room]) BY DEF Continued
<1> HIDE DEF a
<1>6. /\ a.slot \in 1..L /\ L \in Nat /\ Begins(a, a.slot) \in Nat
      /\ a.ends[a.slot] \in Nat /\ End(a) \in Nat /\ a.ends[a.slot] <= End(a)
      /\ SlotSize(a) = a.ends[a.slot] - Begins(a, a.slot)
      /\ Begins(a, a.slot + 1) = a.ends[a.slot]
      /\ room = a.ends[a.slot] - a.offset
      /\ a.at \in Nat /\ a.offset \in Nat /\ a.offset <= a.ends[a.slot]
  BY <1>2, SnugFacts
<1>7. /\ ~a.error /\ a \in Buffers /\ a.full \in {"none", "out"}
      /\ a.full = "none" => L = 1
      /\ DOMAIN a.ends = 1..L /\ \A i \in DOMAIN a.ends : a.ends[i] \in Nat
      /\ a.offset = Begins(a, a.slot) + a.at
      /\ \A i \in DOMAIN a.ends : 1 < i /\ i < L => a.ends[i] >= a.ends[i - 1] + 8
  BY <1>2, SlotType DEF Snug, Regular
<1>8. n \in Nat /\ n <= 8 /\ n > 0 BY Sizes
<1>9. a.offset + n <= End(a) BY <1>2 DEF End
<1>0. End(a) = a.ends[L] BY DEF End
<1> HIDE DEF room, c, b, L
<1>10. CASE n <= room
  <2>0. ~(n > room) BY <1>6, <1>8, <1>10
  <2>1. b = [a EXCEPT !.at = a.at + n, !.offset = a.offset + n, !.last = n]
    BY <1>3, <1>7, <1>10, <2>0 DEF ValueFrom
  <2>2. /\ b.at = a.at + n /\ b.offset = a.offset + n /\ b.slot = a.slot /\ b.error = a.error
    BY <1>7, <2>1 DEF Buffers
  <2>3. b.slot \in DOMAIN b.ends BY <1>2, <1>4, <1>6, <1>7, <2>2
  <2>4. SlotSize(b) = SlotSize(a) /\ Begins(b, b.slot) = Begins(a, a.slot)
    BY <1>2, <1>4, <2>2 DEF SlotSize, Begins
  <2>5. b.at <= SlotSize(b) /\ b.offset = Begins(b, b.slot) + b.at
    <3>1. a.offset = Begins(a, a.slot) + a.at BY <1>7
    <3> QED BY <1>6, <1>8, <1>10, <2>2, <2>4, <3>1
  <2>6. Snug(b) BY <1>4, <1>7, <2>2, <2>3, <2>5, SnugAgain
  <2> QED BY <1>2, <1>4, <2>2, <2>6 DEF b
<1>11. CASE ~(n <= room)
  <2>1. a.slot < L
    <3>1. a.ends[a.slot] < End(a) BY <1>6, <1>8, <1>9, <1>11
    <3>2. a.slot # L BY <1>0, <1>6, <3>1
    <3> QED BY <1>6, <3>2
  <2>2. a.full = "out"
    <3>1. L # 1 BY <1>6, <2>1
    <3> QED BY <1>7, <3>1
  <2> DEFINE d == [a EXCEPT !.at = a.at + room, !.offset = a.offset + room]
             slot == a.slot + 1
  <2>3. /\ d.slot = a.slot /\ d.ends = a.ends /\ d.full = a.full /\ d.error = a.error
        /\ d.offset = a.offset + room /\ d \in [ends : Seq(Nat), slot : Nat \ {0}, at : Int,
             offset : Nat, last : {0} \cup DataSizes, error : BOOLEAN, full : {"none", "out", "in"}]
    <3>1. a.at + room \in Int /\ a.offset + room \in Nat
      <4>1. room \in Nat BY <1>6
      <4> QED BY <1>6, <4>1
    <3> QED BY <1>7, <3>1 DEF Buffers
  <2>4. c = OnFull(d) BY <1>5
  <2> HIDE DEF d
  <2>5. c = [d EXCEPT !.slot = d.slot + 1, !.at = 0, !.last = 0]
    BY <2>2, <2>3, <2>4 DEF OnFull, OnFullOutput, NextSlot
  <2>6. /\ c.slot = slot /\ c.error = FALSE /\ c.offset = a.offset + room
        /\ c \in [ends : Seq(Nat), slot : Nat \ {0}, at : Int,
             offset : Nat, last : {0} \cup DataSizes, error : BOOLEAN, full : {"none", "out", "in"}]
    <3>1. d.slot + 1 \in Nat \ {0}
      <4>1. a.slot \in Nat BY <1>6
      <4> QED BY <2>3, <4>1
    <3>2. d.slot + 1 = slot /\ d.error = FALSE
      <4>1. a.error = FALSE BY <1>7 DEF Buffers
      <4> QED BY <2>3, <4>1
    <3> HIDE DEF slot
    <3>3. c \in [ends : Seq(Nat), slot : Nat \ {0}, at : Int,
             offset : Nat, last : {0} \cup DataSizes, error : BOOLEAN, full : {"none", "out", "in"}]
      <4> DEFINE Fields == [ends : Seq(Nat), slot : Nat \ {0}, at : Int,
             offset : Nat, last : {0} \cup DataSizes, error : BOOLEAN, full : {"none", "out", "in"}]
      <4>1. 0 \in Int /\ 0 \in {0} \cup DataSizes OBVIOUS
      <4>2. \A x \in Fields, i \in Nat \ {0} :
              [x EXCEPT !.slot = i, !.at = 0, !.last = 0] \in Fields
        BY <4>1
      <4> HIDE DEF Fields
      <4>3. d \in Fields BY <2>3 DEF Fields
      <4>4. c \in Fields BY <2>5, <3>1, <4>2, <4>3
      <4> QED BY <4>4 DEF Fields
    <3>4. c.slot = d.slot + 1 /\ c.error = d.error /\ c.offset = d.offset BY <2>3, <2>5
    <3> QED BY <2>3, <3>2, <3>3, <3>4
  <2>7. n > room BY <1>6, <1>8, <1>11
  <2>8. b = [c EXCEPT !.at = n - room, !.offset = c.offset + (n - room), !.last = n]
    BY <1>3, <1>7, <1>11, <2>6, <2>7 DEF ValueFrom
  <2>9. b.at = n - room /\ b.slot = slot /\ b.error = FALSE /\ b.offset = a.offset + n
    <3>1. b.at = n - room /\ b.slot = c.slot /\ b.error = c.error
          /\ b.offset = c.offset + (n - room)
      BY <2>6, <2>8
    <3> QED BY <1>6, <1>8, <2>6, <3>1
  <2>10. slot \in 1..L /\ slot - 1 = a.slot BY <1>6, <2>1
  <2>11. Begins(b, b.slot) = a.ends[a.slot] BY <1>2, <1>4, <1>6, <2>9 DEF Begins
  <2>12. SlotSize(b) = a.ends[slot] - a.ends[a.slot]
    <3>1. b.slot \in DOMAIN b.ends BY <1>2, <1>4, <1>7, <2>9, <2>10
    <3> QED BY <1>2, <1>4, <2>9, <2>11, <3>1 DEF SlotSize
  <2>13. n - room <= SlotSize(b)
    <3>1. a.ends[slot] \in Nat BY <1>7, <2>10
    <3>2. CASE slot = L
      <4>1. a.ends[slot] = End(a) BY <1>0, <3>2
      <4>2. n - room <= End(a) - a.ends[a.slot] BY <1>6, <1>8, <1>9
      <4> QED BY <2>12, <4>1, <4>2
    <3>3. CASE slot # L
      <4>1. 1 < slot /\ slot < L BY <1>6, <2>10, <3>3
      <4>2. a.ends[slot] >= a.ends[a.slot] + 8 BY <1>7, <2>10, <4>1
      <4>3. n - room <= 8 BY <1>6, <1>8
      <4>4. n - room \in Int /\ a.ends[a.slot] \in Nat BY <1>6, <1>8
      <4> HIDE DEF slot
      <4>5. n - room <= a.ends[slot] - a.ends[a.slot] BY <3>1, <4>2, <4>3, <4>4
      <4> QED BY <2>12, <4>5
    <3> QED BY <3>2, <3>3
  <2>14. b.offset = Begins(b, b.slot) + b.at
    <3>1. a.offset + n = a.ends[a.slot] + (n - room) BY <1>6, <1>8
    <3> QED BY <2>9, <2>11, <3>1
  <2>15. b.slot \in DOMAIN b.ends BY <1>2, <1>4, <1>7, <2>9, <2>10
  <2>16. Snug(b) BY <1>4, <2>9, <2>13, <2>14, <2>15, SnugAgain
  <2> QED BY <1>2, <1>4, <2>9, <2>16 DEF b
<1> QED BY <1>10, <1>11

\* So is an array of bytes.
LEMMA SnugArray ==
  ASSUME NEW buf, Snug(buf), NEW n \in Nat, buf.offset + n <= End(buf)
  PROVE  LET b == Array(buf, n, 1) IN
         /\ Snug(b) /\ b.ends = buf.ends /\ b.full = buf.full
         /\ b.offset = buf.offset + n
<1> DEFINE a == Aligned(buf, 1)
           start == ArrayStart(buf, 1)
           b == Array(buf, n, 1)
<1>1. Regular(buf) /\ Sound(buf) /\ ~buf.error BY DEF Snug
<1>2. Regular(b) /\ Sound(b) BY <1>1, ArrayAligned, ArithmeticSizes
<1>3. buf.offset \in Nat /\ End(buf) \in Nat BY SnugFacts
<1>4. BufferAlignment(buf, 1) = 0
  <2>1. Padding(buf.offset, 1) = 0 BY <1>3 DEF Padding
  <2> QED BY <1>1, <2>1, AlignmentIsPadding, ArithmeticSizes
<1>5. a = Moved(buf, 0, 1) BY <1>4 DEF Aligned, AdvanceBuffer
<1>6. /\ ~a.error /\ a.slot \in DOMAIN a.ends /\ a.at <= SlotSize(a)
      /\ a.offset = Begins(a, a.slot) + a.at
      /\ a.offset = buf.offset + 0 /\ Regular(a) /\ a.ends = buf.ends /\ a.full = buf.full
  BY <1>3, <1>5, SnugMoved, ArithmeticSizes
<1>7. start = [a EXCEPT !.last = buf.last] BY DEF ArrayStart
<1>8. b = Moved(start, n * 1, 1) BY DEF Array
<1> HIDE DEF a, start, b
<1>9. a \in Buffers /\ buf.last \in {0} \cup DataSizes BY <1>1, <1>6, SlotType DEF Regular
<1>10. /\ start.ends = buf.ends /\ start.full = buf.full /\ start.slot = a.slot
       /\ start.at = a.at /\ start.offset = buf.offset /\ start.last = buf.last
       /\ start.error = a.error
  BY <1>3, <1>6, <1>7, <1>9 DEF Buffers
<1>11. start \in Buffers BY <1>7, <1>9 DEF Buffers
<1>12. Regular(start) BY <1>6, <1>10, <1>11 DEF Regular
<1>13. Sound(start) BY <1>1, <1>10 DEF Sound
<1>14. SlotSize(start) = SlotSize(a) /\ Begins(start, start.slot) = Begins(a, a.slot)
  BY <1>6, <1>10 DEF SlotSize, Begins
<1>15. Snug(start)
  <2>1. start.offset = Begins(start, start.slot) + start.at BY <1>3, <1>6, <1>10, <1>14
  <2> QED BY <1>6, <1>10, <1>12, <1>13, <1>14, <2>1, SnugAgain
<1>16. start.offset + n <= End(start) /\ n * 1 = n BY <1>10 DEF End
<1>17. /\ ~b.error /\ b.slot \in DOMAIN b.ends /\ b.at <= SlotSize(b)
       /\ b.offset = Begins(b, b.slot) + b.at
       /\ b.offset = start.offset + n /\ b.ends = start.ends /\ b.full = start.full
  BY <1>8, <1>15, <1>16, SnugMoved, ArithmeticSizes
<1>18. Snug(b) BY <1>2, <1>15, <1>17, SnugAgain
<1> QED BY <1>10, <1>17, <1>18 DEF b

-----------------------------------------------------------------------------
(* The calls of the client: each has a run, which ends within the bytes it *)
(* reserves.                                                               *)

\* Tuples one behind the other.
LEMMA Tuple11 ==
  ASSUME NEW a, NEW b
  PROVE  <<a>> \o <<b>> = <<a, b>>
<1> DEFINE S == {a, b}
           p == <<a>> \o <<b>>
<1>1. <<a>> \in Seq(S) /\ <<b>> \in Seq(S) /\ <<a, b>> \in Seq(S) OBVIOUS
<1>2. p \in Seq(S) BY <1>1
<1>3. Len(p) = 2 /\ p[1] = a /\ p[2] = b BY <1>1
<1> HIDE DEF p, S
<1>4. p = <<a, b>> BY <1>1, <1>2, <1>3
<1> QED BY <1>4 DEF p

LEMMA Tuple12 ==
  ASSUME NEW a, NEW b, NEW c
  PROVE  <<a>> \o <<b, c>> = <<a, b, c>>
<1> DEFINE S == {a, b, c}
           p == <<a>> \o <<b, c>>
<1>1. <<a>> \in Seq(S) /\ <<b, c>> \in Seq(S) /\ <<a, b, c>> \in Seq(S) OBVIOUS
<1>2. p \in Seq(S) BY <1>1
<1>3. Len(p) = 3 /\ p[1] = a /\ p[2] = b /\ p[3] = c BY <1>1
<1> HIDE DEF p, S
<1>4. p = <<a, b, c>> BY <1>1, <1>2, <1>3
<1> QED BY <1>4 DEF p

LEMMA Tuple21 ==
  ASSUME NEW a, NEW b, NEW c
  PROVE  <<a, b>> \o <<c>> = <<a, b, c>>
<1> DEFINE S == {a, b, c}
           p == <<a, b>> \o <<c>>
<1>1. <<a, b>> \in Seq(S) /\ <<c>> \in Seq(S) /\ <<a, b, c>> \in Seq(S) OBVIOUS
<1>2. p \in Seq(S) BY <1>1
<1>3. Len(p) = 3 /\ p[1] = a /\ p[2] = b /\ p[3] = c BY <1>1
<1> HIDE DEF p, S
<1>4. p = <<a, b, c>> BY <1>1, <1>2, <1>3
<1> QED BY <1>4 DEF p

LEMMA Tuple22 ==
  ASSUME NEW a, NEW b, NEW c, NEW d
  PROVE  <<a, b>> \o <<c, d>> = <<a, b, c, d>>
<1> DEFINE S == {a, b, c, d}
           p == <<a, b>> \o <<c, d>>
<1>1. <<a, b>> \in Seq(S) /\ <<c, d>> \in Seq(S) /\ <<a, b, c, d>> \in Seq(S) OBVIOUS
<1>2. p \in Seq(S) BY <1>1
<1>3. Len(p) = 4 /\ p[1] = a /\ p[2] = b /\ p[3] = c /\ p[4] = d BY <1>1
<1> HIDE DEF p, S
<1>4. p = <<a, b, c, d>> BY <1>1, <1>2, <1>3
<1> QED BY <1>4 DEF p

LEMMA Tuple31 ==
  ASSUME NEW a, NEW b, NEW c, NEW d
  PROVE  <<a, b, c>> \o <<d>> = <<a, b, c, d>>
<1> DEFINE S == {a, b, c, d}
           p == <<a, b, c>> \o <<d>>
<1>1. <<a, b, c>> \in Seq(S) /\ <<d>> \in Seq(S) /\ <<a, b, c, d>> \in Seq(S) OBVIOUS
<1>2. p \in Seq(S) BY <1>1
<1>3. Len(p) = 4 /\ p[1] = a /\ p[2] = b /\ p[3] = c /\ p[4] = d BY <1>1
<1> HIDE DEF p, S
<1>4. p = <<a, b, c, d>> BY <1>1, <1>2, <1>3
<1> QED BY <1>4 DEF p

LEMMA Tuple32 ==
  ASSUME NEW a, NEW b, NEW c, NEW d, NEW e
  PROVE  <<a, b, c>> \o <<d, e>> = <<a, b, c, d, e>>
<1> DEFINE S == {a, b, c, d, e}
           p == <<a, b, c>> \o <<d, e>>
<1>1. <<a, b, c>> \in Seq(S) /\ <<d, e>> \in Seq(S) /\ <<a, b, c, d, e>> \in Seq(S) OBVIOUS
<1>2. p \in Seq(S) BY <1>1
<1>3. Len(p) = 5 /\ p[1] = a /\ p[2] = b /\ p[3] = c /\ p[4] = d /\ p[5] = e BY <1>1
<1> HIDE DEF p, S
<1>4. p = <<a, b, c, d, e>> BY <1>1, <1>2, <1>3
<1> QED BY <1>4 DEF p

LEMMA Tuple52 ==
  ASSUME NEW a, NEW b, NEW c, NEW d, NEW e, NEW f, NEW g
  PROVE  <<a, b, c, d, e>> \o <<f, g>> = <<a, b, c, d, e, f, g>>
<1> DEFINE S == {a, b, c, d, e, f, g}
           p == <<a, b, c, d, e>> \o <<f, g>>
<1>1. <<a, b, c, d, e>> \in Seq(S) /\ <<f, g>> \in Seq(S) /\ <<a, b, c, d, e, f, g>> \in Seq(S) OBVIOUS
<1>2. p \in Seq(S) BY <1>1
<1>3. Len(p) = 7 /\ p[1] = a /\ p[2] = b /\ p[3] = c /\ p[4] = d /\ p[5] = e /\ p[6] = f /\ p[7] = g BY <1>1
<1> HIDE DEF p, S
<1>4. p = <<a, b, c, d, e, f, g>> BY <1>1, <1>2, <1>3
<1> QED BY <1>4 DEF p

LEMMA AfterBounds ==
  ASSUME NEW o \in Nat, NEW n \in DataSizes
  PROVE  /\ After(o, n) \in Nat /\ o + n <= After(o, n) /\ After(o, n) <= o + 2 * n - 1
         /\ \A m \in Nat : o <= m /\ m % n = 0 => After(o, n) <= m + n
         /\ After(o, n) % n = 0
<1>1. n = 1 \/ n = 2 \/ n = 4 \/ n = 8 BY Sizes
<1>2. After(o, n) = o + Padding(o, n) + n BY DEF After
<1>3. CASE n = 1 BY <1>2, <1>3 DEF Padding
<1>4. CASE n = 2 BY <1>2, <1>4 DEF Padding
<1>5. CASE n = 4 BY <1>2, <1>5 DEF Padding
<1>6. CASE n = 8 BY <1>2, <1>6 DEF Padding
<1> QED BY <1>1, <1>3, <1>4, <1>5, <1>6

LEMMA JoinPlain ==
  ASSUME NEW f, NEW o, NEW m, Run(f, <<>>, o, m), NEW g, NEW r, NEW e, Run(g, r, m, e)
  PROVE  Run(f \o g, r, o, e)
<1> DEFINE q == <<>>
<1>1. PICK V : r \in Seq(V) BY RunTypes
<1>2. q \o r = r BY <1>1
<1>3. Run(f, q, o, m) OBVIOUS
<1> HIDE DEF q
<1>4. Run(f \o g, q \o r, o, e) BY <1>3, JoinRuns
<1> QED BY <1>2, <1>4

LEMMA JoinLast ==
  ASSUME NEW f, NEW q, NEW o, NEW m, Run(f, q, o, m), NEW g, NEW e, Run(g, <<>>, m, e)
  PROVE  Run(f \o g, q, o, e)
<1> DEFINE r == <<>>
<1>1. PICK V : q \in Seq(V) BY RunTypes
<1>2. q \o r = q BY <1>1
<1>3. Run(g, r, m, e) OBVIOUS
<1> HIDE DEF r
<1>4. Run(f \o g, q \o r, o, e) BY <1>3, JoinRuns
<1> QED BY <1>2, <1>4

\* Arrays and bytes.
LEMMA PlainRuns ==
  ASSUME NEW o \in Nat
  PROVE  /\ \A n \in Nat : Run(Raw(n), <<>>, o, o + n)
         /\ Run(Uint(1), <<>>, o, o + 1)
         /\ Run(ObjectId, <<>>, o, o + 1)
         /\ Run(BaseObjectRequest, <<>>, o, o + 1)
<1>1. \A n \in Nat : Run(Raw(n), <<>>, o, o + n) BY RawRun DEF Raw
<1>2. Run(Uint(1), <<>>, o, o + 1) BY ValueRun, AfterByte, ArithmeticSizes
<1>3. Run(ObjectId, <<>>, o, o + 1)
  <2>1. Run(Raw(1), <<>>, o, o + 1) BY <1>1
  <2>2. Run(Only("out", Raw(1)), <<>>, o, o + 1) BY <2>1, OnlyRun
  <2>3. Run(Only("in", Raw(2)), <<>>, o + 1, o + 1) BY OnlyRun
  <2> QED BY <2>2, <2>3, JoinPlain DEF ObjectId
<1>4. Run(BaseObjectRequest, <<>>, o, o + 1)
  <2>1. Run(Only("in", RequestId), <<>>, o, o) BY OnlyRun
  <2> QED BY <1>3, <2>1, JoinPlain DEF BaseObjectRequest
<1> QED BY <1>1, <1>2, <1>3, <1>4

\* A representation in one of the formats.
LEMMA RepresentationRun ==
  ASSUME NEW o \in Nat, NEW len \in Nat
  PROVE  /\ \A format \in {"REFERENCE", "XML", "BINARY"} :
              Run(OBJK_Representation3_Base, <<format, len>>, o, After(o + 1, 4) + len)
         /\ \A format \in {"XML", "BINARY"} :
              Run(OBJK_RepresentationBinAndXML_Base, <<format, len>>, o, After(o + 1, 4) + len)
<1> DEFINE e == After(o + 1, 4) + len
           q == <<len>>
<1>1. Run(Text, q, o + 1, e) /\ Run(BinarySequence_t, q, o + 1, e)
  BY TextRun DEF BinarySequence_t
<1>2. \A format : <<format>> \o q = <<format, len>> BY Tuple11
<1>3. After(o, 1) = o + 1 BY AfterByte
<1> HIDE DEF e, q
<1>4. ASSUME NEW format \in {"REFERENCE", "XML", "BINARY"}
      PROVE  Run(OBJK_Representation3_Base, <<format, len>>, o, e)
  <2> DEFINE alt == [REFERENCE |-> Text, XML |-> Text, BINARY |-> BinarySequence_t, NONE |-> Other]
  <2>1. format \in DOMAIN alt /\ Run(alt[format], q, o + 1, e) BY <1>1
  <2>2. OBJK_Representation3_Base = Tagged(1, alt)
    BY DEF OBJK_Representation3_Base, OBJK_Representation3Formats
  <2> HIDE DEF alt
  <2>3. Run(Tagged(1, alt), <<format>> \o q, o, e) BY <1>3, <2>1, TagRun, ArithmeticSizes
  <2> QED BY <1>2, <2>2, <2>3
<1>5. ASSUME NEW format \in {"XML", "BINARY"}
      PROVE  Run(OBJK_RepresentationBinAndXML_Base, <<format, len>>, o, e)
  <2> DEFINE alt == [BINARY |-> BinarySequence_t, XML |-> Text, NONE |-> Other]
  <2>1. format \in DOMAIN alt /\ Run(alt[format], q, o + 1, e) BY <1>1
  <2>2. OBJK_RepresentationBinAndXML_Base = Tagged(1, alt)
    BY DEF OBJK_RepresentationBinAndXML_Base, OBJK_RepresentationBinAndXMLFormats
  <2> HIDE DEF alt
  <2>3. Run(Tagged(1, alt), <<format>> \o q, o, e) BY <1>3, <2>1, TagRun, ArithmeticSizes
  <2> QED BY <1>2, <2>2, <2>3
<1> QED BY <1>4, <1>5 DEF e

\* The formats each kind of object may be created from.
FormatsOf(kind) ==
  IF kind \in {"PUBLISHER", "SUBSCRIBER"} THEN {"XML", "BINARY"} ELSE {"REFERENCE", "XML", "BINARY"}

LEMMA VariantRun ==
  ASSUME NEW kind \in Kinds, NEW format \in FormatsOf(kind), NEW len \in Nat, NEW o \in Nat
  PROVE  \E e : Run(ObjectVariant, <<kind, format, len>>, o, e) /\ e <= o + 12 + len
<1> DEFINE alt ==
  [AGENT |-> AGENT_Representation, CLIENT |-> CLIENT_Representation,
   APPLICATION |-> OBJK_APPLICATION_Representation,
   PARTICIPANT |-> OBJK_PARTICIPANT_Representation,
   QOSPROFILE |-> OBJK_QOSPROFILE_Representation, TYPE |-> OBJK_TYPE_Representation,
   TOPIC |-> OBJK_TOPIC_Representation, PUBLISHER |-> OBJK_PUBLISHER_Representation,
   SUBSCRIBER |-> OBJK_SUBSCRIBER_Representation, DATAWRITER |-> DATAWRITER_Representation,
   DATAREADER |-> DATAREADER_Representation, REQUESTER |-> OBJK_REQUESTER_Representation,
   REPLIER |-> OBJK_REPLIER_Representation, NONE |-> Other]
  q == <<format, len>>
  m == After(o + 2, 4) + len
<1>1. m \in Nat /\ m <= o + 9 + len
  <2>1. o + 2 \in Nat OBVIOUS
  <2>2. After(o + 2, 4) \in Nat /\ After(o + 2, 4) <= (o + 2) + 2 * 4 - 1
    BY <2>1, AfterBounds, ArithmeticSizes
  <2> QED BY <2>2
<1>2. format \in {"REFERENCE", "XML", "BINARY"} BY DEF FormatsOf
<1>3. /\ Run(OBJK_Representation3_Base, q, o + 1, m)
      /\ format \in {"XML", "BINARY"} => Run(OBJK_RepresentationBinAndXML_Base, q, o + 1, m)
  <2>1. o + 1 \in Nat /\ (o + 1) + 1 = o + 2 OBVIOUS
  <2> QED BY <1>2, <2>1, RepresentationRun
<1>4. Run(ObjectId, <<>>, m, m + 1) /\ Run(Uint(2), <<>>, m, After(m, 2))
      /\ After(m, 2) <= m + 3
  <2> HIDE DEF m
  <2>1. After(m, 2) <= m + 2 * 2 - 1 BY <1>1, AfterBounds, ArithmeticSizes
  <2>2. After(m, 2) \in Nat BY <1>1, AfterBounds, ArithmeticSizes
  <2>3. Run(ObjectId, <<>>, m, m + 1) BY <1>1, PlainRuns
  <2>4. Run(Uint(2), <<>>, m, After(m, 2)) BY <1>1, ValueRun, ArithmeticSizes
  <2> QED BY <1>1, <2>1, <2>2, <2>3, <2>4
<1>5. <<kind>> \o q = <<kind, format, len>> BY Tuple12
<1> HIDE DEF m, q
<1>6. /\ Run(OBJK_Representation3_Base \o ObjectId, q, o + 1, m + 1)
      /\ Run(OBJK_Representation3_Base \o Uint(2), q, o + 1, After(m, 2))
      /\ format \in {"XML", "BINARY"} =>
           Run(OBJK_RepresentationBinAndXML_Base \o ObjectId, q, o + 1, m + 1)
  BY <1>3, <1>4, JoinLast
<1>7. \E e : Run(alt[kind], q, o + 1, e) /\ e <= m + 3
  <2>1. CASE kind \in {"PUBLISHER", "SUBSCRIBER"}
    <3>1. format \in {"XML", "BINARY"} BY <2>1 DEF FormatsOf
    <3>2. alt[kind] = OBJK_RepresentationBinAndXML_Base \o ObjectId
      BY <2>1 DEF OBJK_PUBLISHER_Representation, OBJK_SUBSCRIBER_Representation
    <3> HIDE DEF alt
    <3>3. m + 1 <= m + 3 BY <1>1
    <3> QED BY <1>6, <3>1, <3>2, <3>3
  <2>2. CASE kind = "PARTICIPANT"
    <3>1. alt[kind] = OBJK_Representation3_Base \o Uint(2)
      BY <2>2 DEF OBJK_PARTICIPANT_Representation
    <3> HIDE DEF alt
    <3> QED BY <1>4, <1>6, <3>1
  <2>3. CASE kind \in {"TOPIC", "DATAWRITER", "DATAREADER", "REQUESTER", "REPLIER"}
    <3>1. alt[kind] = OBJK_Representation3_Base \o ObjectId
      BY <2>3 DEF OBJK_TOPIC_Representation, DATAWRITER_Representation,
        DATAREADER_Representation, OBJK_REQUESTER_Representation, OBJK_REPLIER_Representation
    <3> HIDE DEF alt
    <3>2. m + 1 <= m + 3 BY <1>1
    <3> QED BY <1>6, <3>1, <3>2
  <2> QED BY <2>1, <2>2, <2>3 DEF Kinds
<1>8. kind \in DOMAIN alt BY DEF Kinds
<1>9. ObjectVariant = Tagged(1, alt) BY DEF ObjectVariant
<1>10. After(o, 1) = o + 1 BY AfterByte
<1> HIDE DEF alt
<1>11. PICK e : Run(alt[kind], q, o + 1, e) /\ e <= m + 3 BY <1>7
<1>12. e \in Nat BY <1>11, RunTypes
<1>13. Run(Tagged(1, alt), <<kind>> \o q, o, e) BY <1>8, <1>10, <1>11, TagRun, ArithmeticSizes
<1>14. e <= o + 12 + len BY <1>1, <1>11, <1>12
<1> QED BY <1>5, <1>9, <1>13, <1>14

\* A message that fits the bytes reserved for it, behind what is buffered and with the
\* session id or without.
FitsIn(form, values, reserved) ==
  \A at, o \in Nat : at % 4 = 0 /\ at <= o /\ o <= at + 1 =>
    \E e : Run(form, values, o, e) /\ e <= at + reserved

LEMMA CreateFits ==
  ASSUME NEW kind \in Kinds, NEW format \in FormatsOf(kind), NEW len \in Nat
  PROVE  LET c == CreateCall(kind, format, len) IN
         c.reserved \in Nat /\ FitsIn(c.form, c.script, c.reserved)
<1> DEFINE c == CreateCall(kind, format, len)
           q == <<kind, format, len>>
<1>1. c.form = CREATE_Payload /\ c.script = q /\ c.reserved = CreateReserved(kind, len)
  BY DEF CreateCall
<1>2. c.reserved \in Nat /\ c.reserved >= len + 14
  <2> DEFINE before == 4 + 1 + 1 + 2 + 4 + len
             pad == IF kind = "PARTICIPANT" /\ before % 2 # 0 THEN 1 ELSE 0
  <2>1. c.reserved = before + pad + 2 BY <1>1 DEF CreateReserved
  <2>2. before = len + 12 /\ pad \in {0, 1} OBVIOUS
  <2> HIDE DEF before, pad, c
  <2> QED BY <2>1, <2>2
<1> HIDE DEF c, q
<1>3. ASSUME NEW at \in Nat, NEW o \in Nat, o <= at + 1
      PROVE  \E e : Run(c.form, c.script, o, e) /\ e <= at + c.reserved
  <2>1. Run(BaseObjectRequest, <<>>, o, o + 1) BY PlainRuns
  <2>2. PICK e : Run(ObjectVariant, q, o + 1, e) /\ e <= (o + 1) + 12 + len
    BY VariantRun DEF q
  <2>3. Run(CREATE_Payload, q, o, e) BY <2>1, <2>2, JoinPlain DEF CREATE_Payload
  <2>4. e \in Nat BY <2>2, RunTypes
  <2>5. e <= at + c.reserved BY <1>2, <1>3, <2>2, <2>4
  <2> QED BY <1>1, <2>3, <2>5
<1>4. FitsIn(c.form, c.script, c.reserved) BY <1>3 DEF FitsIn
<1> QED BY <1>2, <1>4 DEF c

LEMMA SampleIdentityRun ==
  ASSUME NEW o \in Nat
  PROVE  LET m == After(o + 16, 4) IN
         /\ Run(SampleIdentity, <<>>, o, After(m, 4))
         /\ \A n \in Nat : o + 16 <= n /\ n % 4 = 0 => After(m, 4) <= n + 8
<1> DEFINE m == After(o + 16, 4)
<1>1. Run(GuidPrefix_t, <<>>, o, o + 12) BY PlainRuns DEF GuidPrefix_t
<1>2. Run(EntityId_t, <<>>, o + 12, o + 16)
  <2>1. Run(Raw(3), <<>>, o + 12, (o + 12) + 3) BY PlainRuns
  <2>2. Run(Uint(1), <<>>, (o + 12) + 3, (o + 12) + 3 + 1) BY PlainRuns
  <2>3. (o + 12) + 3 + 1 = o + 16 OBVIOUS
  <2> QED BY <2>1, <2>2, <2>3, JoinPlain DEF EntityId_t
<1>3. Run(GUID_t, <<>>, o, o + 16) BY <1>1, <1>2, JoinPlain DEF GUID_t
<1>4. m \in Nat
  <2>1. o + 16 \in Nat OBVIOUS
  <2> QED BY <2>1, AfterBounds, ArithmeticSizes
<1>5. Run(Uint(4), <<>>, o + 16, m) BY ValueRun, ArithmeticSizes
<1> HIDE DEF m
<1>6. Run(Uint(4), <<>>, m, After(m, 4)) BY <1>4, ValueRun, ArithmeticSizes
<1>7. Run(SampleIdentity, <<>>, o, After(m, 4))
  BY <1>3, <1>5, <1>6, JoinPlain DEF SampleIdentity, SequenceNumber_t
<1>8. ASSUME NEW n \in Nat, o + 16 <= n, n % 4 = 0 PROVE After(m, 4) <= n + 8
  <2>1. m <= n + 4
    <3>1. o + 16 \in Nat OBVIOUS
    <3> QED BY <1>8, <3>1, AfterBounds, ArithmeticSizes DEF m
  <2>2. n + 4 \in Nat /\ (n + 4) % 4 = 0 BY <1>8
  <2>3. After(m, 4) <= (n + 4) + 4 BY <1>4, <2>1, <2>2, AfterBounds, ArithmeticSizes
  <2> QED BY <2>3
<1> QED BY <1>7, <1>8 DEF m

LEMMA ReadRequestRun ==
  ASSUME NEW o \in Nat, NEW control \in Flags
  PROVE  \E e : /\ Run(READ_DATA_Payload, <<0, control>>, o, e)
                /\ e <= o + 6 + IF control = 1 THEN 8 ELSE 0
<1>1. Run(BaseObjectRequest, <<>>, o, o + 1) BY PlainRuns
<1>2. Run(Uint(1) \o Uint(1), <<>>, o + 1, o + 3)
  <2>1. Run(Uint(1), <<>>, o + 1, (o + 1) + 1) BY PlainRuns
  <2>2. Run(Uint(1), <<>>, (o + 1) + 1, (o + 1) + 1 + 1) BY PlainRuns
  <2>3. (o + 1) + 1 + 1 = o + 3 OBVIOUS
  <2> QED BY <2>1, <2>2, <2>3, JoinPlain
<1>3. Run(Opt(Text), <<0>>, o + 3, o + 4)
  <2>1. Run(Opt(Text), <<0>>, o + 3, (o + 3) + 1) BY OptRun
  <2> QED BY <2>1
<1>4. Run(Uint(1) \o Uint(1) \o Opt(Text), <<0>>, o + 1, o + 4) BY <1>2, <1>3, JoinPlain
<1>5. CASE control = 0
  <2>1. Run(Opt(DataDeliveryControl), <<0>>, o + 4, (o + 4) + 1) BY OptRun
  <2>2. <<0>> \o <<0>> = <<0, 0>> BY Tuple11
  <2>3. Run(ReadSpecification, <<0, 0>>, o + 1, (o + 4) + 1)
    <3> DEFINE q == <<0>>
    <3>1. Run(Uint(1) \o Uint(1) \o Opt(Text), q, o + 1, o + 4)
          /\ Run(Opt(DataDeliveryControl), q, o + 4, (o + 4) + 1)
      BY <1>4, <2>1
    <3> HIDE DEF q
    <3>2. Run(ReadSpecification, q \o q, o + 1, (o + 4) + 1)
      BY <3>1, JoinRuns DEF ReadSpecification
    <3> QED BY <2>2, <3>2 DEF q
  <2>4. Run(READ_DATA_Payload, <<0, 0>>, o, (o + 4) + 1)
    BY <1>1, <2>3, JoinPlain DEF READ_DATA_Payload
  <2> QED BY <1>5, <2>4
<1>6. CASE control = 1
  <2> DEFINE a == After((o + 4) + 1, 2)
             b == After(a, 2)
             c == After(b, 2)
             e == After(c, 2)
  <2>1. a \in Nat /\ a <= ((o + 4) + 1) + 3 /\ a % 2 = 0
    <3>1. (o + 4) + 1 \in Nat OBVIOUS
    <3>2. a <= ((o + 4) + 1) + 2 * 2 - 1 BY <3>1, AfterBounds, ArithmeticSizes
    <3>3. a \in Nat /\ a % 2 = 0 BY <3>1, AfterBounds, ArithmeticSizes
    <3> HIDE DEF a
    <3> QED BY <3>2, <3>3
  <2>2. Run(Uint(2), <<>>, (o + 4) + 1, a) BY ValueRun, ArithmeticSizes
  <2> HIDE DEF a
  <2>3. b \in Nat /\ b <= a + 2 /\ b % 2 = 0
    <3>1. a <= a /\ a \in Nat /\ a % 2 = 0 BY <2>1
    <3> QED BY <3>1, AfterBounds, ArithmeticSizes
  <2>4. Run(Uint(2), <<>>, a, b) BY <2>1, ValueRun, ArithmeticSizes
  <2> HIDE DEF b
  <2>5. c \in Nat /\ c <= b + 2 /\ c % 2 = 0
    <3>1. b <= b /\ b \in Nat /\ b % 2 = 0 BY <2>3
    <3> QED BY <3>1, AfterBounds, ArithmeticSizes
  <2>6. Run(Uint(2), <<>>, b, c) BY <2>3, ValueRun, ArithmeticSizes
  <2> HIDE DEF c
  <2>7. e \in Nat /\ e <= c + 2
    <3>1. c <= c /\ c \in Nat /\ c % 2 = 0 BY <2>5
    <3> QED BY <3>1, AfterBounds, ArithmeticSizes
  <2>8. Run(Uint(2), <<>>, c, e) BY <2>5, ValueRun, ArithmeticSizes
  <2> HIDE DEF e
  <2>9. Run(DataDeliveryControl, <<>>, (o + 4) + 1, e)
    BY <2>2, <2>4, <2>6, <2>8, JoinPlain DEF DataDeliveryControl
  <2>10. Run(Opt(DataDeliveryControl), <<1>> \o <<>>, o + 4, e)
    <3> DEFINE q == <<>>
    <3>1. Run(DataDeliveryControl, q, (o + 4) + 1, e) BY <2>9
    <3> HIDE DEF q
    <3>2. Run(Opt(DataDeliveryControl), <<1>> \o q, o + 4, e) BY <3>1, OptRun
    <3> QED BY <3>2 DEF q
  <2>11. Run(ReadSpecification, <<0, 1>>, o + 1, e)
    <3> DEFINE q == <<0>>
               r == <<1>>
    <3>1. <<1>> \o <<>> = r /\ q \o r = <<0, 1>>
      <4>1. <<1>> \in Seq({1}) OBVIOUS
      <4> QED BY <4>1, Tuple11
    <3>2. Run(Uint(1) \o Uint(1) \o Opt(Text), q, o + 1, o + 4) BY <1>4
    <3>3. Run(Opt(DataDeliveryControl), r, o + 4, e) BY <2>10, <3>1
    <3>4. q \o r = <<0, 1>> BY <3>1
    <3> HIDE DEF q, r
    <3>5. Run(ReadSpecification, q \o r, o + 1, e)
      BY <3>2, <3>3, JoinRuns DEF ReadSpecification
    <3> QED BY <3>4, <3>5
  <2>12. Run(READ_DATA_Payload, <<0, 1>>, o, e)
    BY <1>1, <2>11, JoinPlain DEF READ_DATA_Payload
  <2>13. e <= o + 14 BY <2>1, <2>3, <2>5, <2>7
  <2> QED BY <1>6, <2>12, <2>13
<1> QED BY <1>5, <1>6 DEF Flags

\* Every call that reserves room in a stream reserves enough.
LEMMA BufferedFits ==
  ASSUME NEW c \in BufferedCalls
  PROVE  c.reserved \in Nat /\ FitsIn(c.form, c.script, c.reserved)
<1>1. ASSUME NEW kind \in Kinds, NEW len \in Lengths, c = CreateCall(kind, "XML", len)
      PROVE  c.reserved \in Nat /\ FitsIn(c.form, c.script, c.reserved)
  <2>1. "XML" \in FormatsOf(kind) /\ len \in Nat BY LengthsAssumption DEF FormatsOf
  <2> QED BY <1>1, <2>1, CreateFits
<1>2. ASSUME NEW kind \in Kinds \ {"PUBLISHER", "SUBSCRIBER"}, NEW len \in Lengths,
             c = CreateCall(kind, "REFERENCE", len)
      PROVE  c.reserved \in Nat /\ FitsIn(c.form, c.script, c.reserved)
  <2>1. "REFERENCE" \in FormatsOf(kind) /\ len \in Nat /\ kind \in Kinds
    BY LengthsAssumption DEF FormatsOf
  <2> QED BY <1>2, <2>1, CreateFits
<1>3. ASSUME c = Buffered(DELETE_Payload, <<>>, 4)
      PROVE  c.reserved \in Nat /\ FitsIn(c.form, c.script, c.reserved)
  <2>1. c.form = BaseObjectRequest /\ c.script = <<>> /\ c.reserved = 4
    BY <1>3 DEF Buffered, DELETE_Payload
  <2>2. ASSUME NEW at \in Nat, NEW o \in Nat, o <= at + 1
        PROVE  \E e : Run(c.form, c.script, o, e) /\ e <= at + c.reserved
    <3>1. Run(BaseObjectRequest, <<>>, o, o + 1) BY PlainRuns
    <3>2. o + 1 <= at + 4 BY <2>2
    <3> QED BY <2>1, <3>1, <3>2
  <2> QED BY <2>1, <2>2 DEF FitsIn
<1>4. ASSUME NEW control \in Flags,
             c = Buffered(READ_DATA_Payload, <<0, control>>, 4 + 4 + IF control = 1 THEN 8 ELSE 0)
      PROVE  c.reserved \in Nat /\ FitsIn(c.form, c.script, c.reserved)
  <2> DEFINE more == IF control = 1 THEN 8 ELSE 0
  <2>1. /\ c.form = READ_DATA_Payload /\ c.script = <<0, control>>
        /\ c.reserved = 4 + 4 + more /\ more \in Nat
    BY <1>4 DEF Buffered
  <2>0. c.reserved \in Nat
    <3> HIDE DEF more
    <3> QED BY <2>1
  <2>2. ASSUME NEW at \in Nat, NEW o \in Nat, o <= at + 1
        PROVE  \E e : Run(c.form, c.script, o, e) /\ e <= at + c.reserved
    <3>1. PICK e : Run(READ_DATA_Payload, <<0, control>>, o, e) /\ e <= o + 6 + more
      BY ReadRequestRun
    <3>2. e \in Nat BY <3>1, RunTypes
    <3> HIDE DEF more
    <3>3. e <= at + c.reserved BY <2>1, <2>2, <3>1, <3>2
    <3> QED BY <2>1, <3>1, <3>3
  <2> QED BY <2>0, <2>2 DEF FitsIn
<1>5. ASSUME NEW len \in Lengths,
             c = Buffered(WRITE_DATA_Payload_Data \o Raw(len), <<>>, WRITE_DATA_PAYLOAD_SIZE + len)
      PROVE  c.reserved \in Nat /\ FitsIn(c.form, c.script, c.reserved)
  <2>1. /\ c.form = BaseObjectRequest \o Raw(len) /\ c.script = <<>> /\ c.reserved = 4 + len
        /\ len \in Nat
    BY <1>5, LengthsAssumption DEF Buffered, WRITE_DATA_PAYLOAD_SIZE, WRITE_DATA_Payload_Data
  <2>0. c.reserved \in Nat BY <2>1
  <2>2. ASSUME NEW at \in Nat, NEW o \in Nat, o <= at + 1
        PROVE  \E e : Run(c.form, c.script, o, e) /\ e <= at + c.reserved
    <3>1. Run(BaseObjectRequest, <<>>, o, o + 1) BY PlainRuns
    <3>2. Run(Raw(len), <<>>, o + 1, o + 1 + len) BY <2>1, PlainRuns
    <3>3. Run(c.form, c.script, o, o + 1 + len) BY <2>1, <3>1, <3>2, JoinPlain
    <3>4. o + 1 + len <= at + c.reserved BY <2>1, <2>2
    <3> QED BY <3>3, <3>4
  <2> QED BY <2>0, <2>2 DEF FitsIn
<1>6. ASSUME NEW len \in Lengths,
             c = Buffered(WRITE_DATA_Payload_Data \o SampleIdentity \o Raw(len), <<>>,
                          WRITE_DATA_PAYLOAD_SIZE + SAMPLE_IDENTITY_SIZE + len)
      PROVE  c.reserved \in Nat /\ FitsIn(c.form, c.script, c.reserved)
  <2>1. /\ c.form = BaseObjectRequest \o SampleIdentity \o Raw(len) /\ c.script = <<>>
        /\ c.reserved = 28 + len /\ len \in Nat
    BY <1>6, LengthsAssumption
      DEF Buffered, WRITE_DATA_PAYLOAD_SIZE, SAMPLE_IDENTITY_SIZE, WRITE_DATA_Payload_Data
  <2>0. c.reserved \in Nat BY <2>1
  <2>2. ASSUME NEW at \in Nat, NEW o \in Nat, at % 4 = 0, o <= at + 1
        PROVE  \E e : Run(c.form, c.script, o, e) /\ e <= at + c.reserved
    <3> DEFINE m == After((o + 1) + 16, 4)
               p == After(m, 4)
    <3>1. Run(BaseObjectRequest, <<>>, o, o + 1) BY PlainRuns
    <3>2. m \in Nat
      <4>1. (o + 1) + 16 \in Nat OBVIOUS
      <4> QED BY <4>1, AfterBounds, ArithmeticSizes
    <3>3. p \in Nat
      <4> HIDE DEF m
      <4> QED BY <3>2, AfterBounds, ArithmeticSizes
    <3>4. Run(SampleIdentity, <<>>, o + 1, p) BY SampleIdentityRun
    <3>5. p <= at + 28
      <4>1. at + 20 \in Nat /\ (at + 20) % 4 = 0 BY <2>2
      <4>2. (o + 1) + 16 <= at + 20 BY <2>2
      <4>3. p <= (at + 20) + 8
        <5>1. o + 1 \in Nat OBVIOUS
        <5> QED BY <4>1, <4>2, <5>1, SampleIdentityRun
      <4> HIDE DEF p
      <4> QED BY <3>3, <4>3
    <3> HIDE DEF m, p
    <3>6. Run(Raw(len), <<>>, p, p + len) BY <2>1, <3>3, PlainRuns
    <3>7. Run(c.form, c.script, o, p + len) BY <2>1, <3>1, <3>4, <3>6, JoinPlain
    <3>8. p + len <= at + c.reserved BY <2>1, <3>3, <3>5
    <3> QED BY <3>7, <3>8
  <2> QED BY <2>0, <2>2 DEF FitsIn
<1>7. CASE c \in CreateXml BY <1>1, <1>7 DEF CreateXml
<1>8. CASE c \in CreateRef BY <1>2, <1>8 DEF CreateRef
<1>9. CASE c \in DeleteEntity BY <1>3, <1>9 DEF DeleteEntity
<1>10. CASE c \in RequestData BY <1>4, <1>10 DEF RequestData
<1>11. CASE c \in BufferTopic BY <1>5, <1>11 DEF BufferTopic
<1>12. CASE c \in BufferReply BY <1>6, <1>12 DEF BufferReply
<1> QED BY <1>7, <1>8, <1>9, <1>10, <1>11, <1>12 DEF BufferedCalls

\* Messages that have a buffer of their own fit it.
LEMMA OwnBufferFits ==
  ASSUME NEW c \in OwnBufferCalls
  PROVE  c.reserved \in Nat /\ \E e : Run(c.form, c.script, 0, e) /\ e <= c.reserved
<1> DEFINE W(form, values, reserved) ==
  reserved \in Nat /\ \E e : Run(form, values, 0, e) /\ e <= reserved
<1>1. W(CREATE_CLIENT_Payload, <<0>>, CREATE_SESSION_MAX_MSG_SIZE)
  <2>1. Run(XrceCookie \o XrceVersion \o XrceVendorId \o ClientKey \o Uint(1), <<>>, 0, 13)
    <3>1. Run(Raw(4), <<>>, 0, 0 + 4) /\ Run(Raw(2), <<>>, 4, 4 + 2)
          /\ Run(Raw(2), <<>>, 6, 6 + 2) /\ Run(Raw(4), <<>>, 8, 8 + 4)
          /\ Run(Uint(1), <<>>, 12, 12 + 1)
      BY PlainRuns
    <3>2. 0 + 4 = 4 /\ 4 + 2 = 6 /\ 6 + 2 = 8 /\ 8 + 4 = 12 /\ 12 + 1 = 13 OBVIOUS
    <3>3. Run(Raw(4), <<>>, 0, 4) /\ Run(Raw(2), <<>>, 4, 6)
          /\ Run(Raw(2), <<>>, 6, 8) /\ Run(Raw(4), <<>>, 8, 12)
          /\ Run(Uint(1), <<>>, 12, 13)
      BY <3>1, <3>2
    <3> QED BY <3>3, JoinPlain DEF XrceCookie, XrceVersion, XrceVendorId, ClientKey
  <2>2. Run(Opt(PropertySeq), <<0>>, 13, 14)
    <3>1. Run(Opt(PropertySeq), <<0>>, 13, 13 + 1) BY OptRun
    <3> QED BY <3>1
  <2>3. Run(Uint(2), <<>>, 14, 16)
    <3>1. Run(Uint(2), <<>>, 14, After(14, 2)) BY ValueRun, ArithmeticSizes
    <3>2. After(14, 2) = 16 BY DEF After, Padding
    <3> QED BY <3>1, <3>2
  <2>4. Run(CREATE_CLIENT_Payload, <<0>>, 0, 16)
    BY <2>1, <2>2, <2>3, JoinPlain, JoinLast DEF CREATE_CLIENT_Payload, CLIENT_Representation
  <2> QED BY <2>4 DEF CREATE_SESSION_MAX_MSG_SIZE
<1>2. W(DELETE_Payload, <<>>, DELETE_SESSION_MAX_MSG_SIZE)
  <2>1. Run(BaseObjectRequest, <<>>, 0, 0 + 1) BY PlainRuns
  <2> QED BY <2>1 DEF DELETE_Payload, DELETE_SESSION_MAX_MSG_SIZE
<1>3. Run(Uint(2), <<>>, 0, 2) /\ Run(Uint(2), <<>>, 2, 4) /\ Run(Uint(1), <<>>, 4, 5)
      /\ Run(Raw(2), <<>>, 2, 4)
  <2>1. Run(Uint(2), <<>>, 0, After(0, 2)) /\ Run(Uint(2), <<>>, 2, After(2, 2))
    BY ValueRun, ArithmeticSizes
  <2>2. After(0, 2) = 2 /\ After(2, 2) = 4 BY DEF After, Padding
  <2>3. Run(Uint(1), <<>>, 4, 4 + 1) /\ Run(Raw(2), <<>>, 2, 2 + 2) BY PlainRuns
  <2>4. 4 + 1 = 5 /\ 2 + 2 = 4 OBVIOUS
  <2> QED BY <2>1, <2>2, <2>3, <2>4
<1>4. W(HEARTBEAT_Payload, <<>>, HEARTBEAT_MAX_MSG_SIZE)
  <2>1. Run(HEARTBEAT_Payload, <<>>, 0, 5) BY <1>3, JoinPlain DEF HEARTBEAT_Payload
  <2> QED BY <2>1 DEF HEARTBEAT_MAX_MSG_SIZE
<1>5. W(ACKNACK_Payload, <<>>, ACKNACK_MAX_MSG_SIZE)
  <2>1. Run(ACKNACK_Payload, <<>>, 0, 5) BY <1>3, JoinPlain DEF ACKNACK_Payload
  <2> QED BY <2>1 DEF ACKNACK_MAX_MSG_SIZE
<1>6. W(TIMESTAMP_Payload, <<>>, TIMESTAMP_MAX_MSG_SIZE)
  <2>1. Run(Uint(4), <<>>, 0, After(0, 4)) /\ Run(Uint(4), <<>>, 4, After(4, 4))
    BY ValueRun, ArithmeticSizes
  <2>2. After(0, 4) = 4 /\ After(4, 4) = 8 BY DEF After, Padding
  <2>3. Run(TIMESTAMP_Payload, <<>>, 0, 8)
    BY <2>1, <2>2, JoinPlain DEF TIMESTAMP_Payload, Time_t
  <2> QED BY <2>3 DEF TIMESTAMP_MAX_MSG_SIZE
<1>7. W(Uint(1) \o GET_INFO_Payload, <<>>, UXR_PING_BUF)
  <2>1. Run(Uint(1), <<>>, 0, 0 + 1) /\ Run(BaseObjectRequest, <<>>, 1, 1 + 1) BY PlainRuns
  <2>2. Run(Uint(4), <<>>, 2, After(2, 4)) BY ValueRun, ArithmeticSizes
  <2>3. After(2, 4) = 8 /\ 0 + 1 = 1 /\ 1 + 1 = 2 BY DEF After, Padding
  <2>4. Run(GET_INFO_Payload, <<>>, 1, 8) BY <2>1, <2>2, <2>3, JoinPlain DEF GET_INFO_Payload
  <2>5. Run(Uint(1) \o GET_INFO_Payload, <<>>, 0, 8) BY <2>1, <2>3, <2>4, JoinPlain
  <2> QED BY <2>5 DEF UXR_PING_BUF
<1>8. W(INFO_Payload, <<0, 0>>, INFO_MAX_MSG_SIZE)
  <2>1. Run(BaseObjectRequest, <<>>, 0, 0 + 1) /\ Run(Uint(1), <<>>, 1, 1 + 1)
        /\ Run(Uint(1), <<>>, 2, 2 + 1)
    BY PlainRuns
  <2>2. 0 + 1 = 1 /\ 1 + 1 = 2 /\ 2 + 1 = 3 OBVIOUS
  <2>3. Run(BaseObjectReply, <<>>, 0, 3)
    BY <2>1, <2>2, JoinPlain DEF BaseObjectReply, ResultStatus
  <2>4. Run(Opt(ObjectVariant), <<0>>, 3, 4) /\ Run(Opt(ActivityInfoVariant), <<0>>, 4, 5)
    <3>1. Run(Opt(ObjectVariant), <<0>>, 3, 3 + 1) /\ Run(Opt(ActivityInfoVariant), <<0>>, 4, 4 + 1)
      BY OptRun
    <3>2. 3 + 1 = 4 /\ 4 + 1 = 5 OBVIOUS
    <3> QED BY <3>1, <3>2
  <2>5. Run(ObjectInfo, <<0, 0>>, 3, 5)
    <3> DEFINE q == <<0>>
    <3>1. q \o q = <<0, 0>> BY Tuple11
    <3>2. Run(Opt(ObjectVariant), q, 3, 4) /\ Run(Opt(ActivityInfoVariant), q, 4, 5) BY <2>4
    <3> HIDE DEF q
    <3>3. Run(ObjectInfo, q \o q, 3, 5) BY <3>2, JoinRuns DEF ObjectInfo
    <3> QED BY <3>1, <3>3
  <2>6. Run(INFO_Payload, <<0, 0>>, 0, 5) BY <2>3, <2>5, JoinPlain DEF INFO_Payload
  <2> QED BY <2>6 DEF INFO_MAX_MSG_SIZE
<1>9. PICK form, values, reserved : /\ c = Buffered(form, values, reserved)
                                   /\ W(form, values, reserved)
  BY <1>1, <1>2, <1>4, <1>5, <1>6, <1>7, <1>8 DEF OwnBufferCalls
<1>10. c.form = form /\ c.script = values /\ c.reserved = reserved BY <1>9 DEF Buffered
<1> QED BY <1>9, <1>10

-----------------------------------------------------------------------------
(* The structures written into a representation first.                     *)

RunsTo(f, q, o, limit) == \E e : Run(f, q, o, e) /\ e <= limit

\* A text, a text that may be left out, and a field left out.
LEMMA TextNext ==
  ASSUME NEW f, NEW q, NEW o, NEW limit \in Nat, RunsTo(f, q, o, limit), NEW l \in Nat
  PROVE  /\ RunsTo(f \o Text, q \o <<l>>, o, limit + 7 + l)
         /\ RunsTo(f \o Opt(Text), q \o <<1, l>>, o, limit + 8 + l)
<1>1. PICK m : Run(f, q, o, m) /\ m <= limit BY DEF RunsTo
<1>2. m \in Nat BY <1>1, RunTypes
<1>3. RunsTo(f \o Text, q \o <<l>>, o, limit + 7 + l)
  <2> DEFINE e == After(m, 4) + l
             r == <<l>>
  <2>1. Run(Text, r, m, e) BY <1>2, TextRun
  <2>2. After(m, 4) \in Nat /\ After(m, 4) <= m + 2 * 4 - 1
    BY <1>2, AfterBounds, ArithmeticSizes
  <2>3. e <= limit + 7 + l BY <1>1, <1>2, <2>2
  <2> HIDE DEF e, r
  <2>4. Run(f \o Text, q \o r, o, e) BY <1>1, <2>1, JoinRuns
  <2> QED BY <2>3, <2>4 DEF RunsTo, r
<1>4. RunsTo(f \o Opt(Text), q \o <<1, l>>, o, limit + 8 + l)
  <2> DEFINE e == After(m + 1, 4) + l
             t == <<l>>
             r == <<1, l>>
  <2>1. m + 1 \in Nat BY <1>2
  <2>2. Run(Text, t, m + 1, e) BY <2>1, TextRun
  <2>3. After(m + 1, 4) \in Nat /\ After(m + 1, 4) <= (m + 1) + 2 * 4 - 1
    BY <2>1, AfterBounds, ArithmeticSizes
  <2>4. e <= limit + 8 + l BY <1>1, <1>2, <2>3
  <2>5. <<1>> \o t = r BY Tuple11
  <2> HIDE DEF e, t, r
  <2>6. Run(Opt(Text), <<1>> \o t, m, e) BY <1>2, <2>2, OptRun
  <2>7. Run(f \o Opt(Text), q \o r, o, e) BY <1>1, <2>5, <2>6, JoinRuns
  <2> QED BY <2>4, <2>7 DEF RunsTo, r
<1> QED BY <1>3, <1>4

LEMMA AbsentNext ==
  ASSUME NEW f, NEW q, NEW o, NEW limit \in Nat, RunsTo(f, q, o, limit), NEW g
  PROVE  RunsTo(f \o Opt(g), q \o <<0>>, o, limit + 1)
<1>1. PICK m : Run(f, q, o, m) /\ m <= limit BY DEF RunsTo
<1>2. m \in Nat BY <1>1, RunTypes
<1> DEFINE r == <<0>>
<1>3. Run(Opt(g), r, m, m + 1) BY <1>2, OptRun
<1> HIDE DEF r
<1>4. Run(f \o Opt(g), q \o r, o, m + 1) BY <1>1, <1>3, JoinRuns
<1>5. m + 1 <= limit + 1 BY <1>1, <1>2
<1> QED BY <1>4, <1>5 DEF RunsTo, r

LEMMA FirstText ==
  /\ \A l \in Nat : RunsTo(Text, <<l>>, 0, 7 + l)
  /\ \A f : RunsTo(Opt(f), <<0>>, 0, 1)
<1>1. ASSUME NEW l \in Nat PROVE RunsTo(Text, <<l>>, 0, 7 + l)
  <2>1. Run(Text, <<l>>, 0, After(0, 4) + l) BY TextRun
  <2>2. After(0, 4) = 4 BY DEF After, Padding
  <2>3. After(0, 4) + l <= 7 + l BY <2>2
  <2> QED BY <2>1, <2>3 DEF RunsTo
<1>2. ASSUME NEW f PROVE RunsTo(Opt(f), <<0>>, 0, 1)
  <2>1. Run(Opt(f), <<0>>, 0, 0 + 1) BY OptRun
  <2> QED BY <2>1 DEF RunsTo
<1> QED BY <1>1, <1>2

\* The quality of service of an endpoint, with the depth of its history or without.
LEMMA QosRun ==
  ASSUME NEW depth \in Flags
  PROVE  RunsTo(OBJK_Endpoint_QosBinary, <<depth, 0, 0, 0>>, 2, 11)
<1> DEFINE m == After(2, 2)
<1>1. m = 4 BY DEF After, Padding
<1>2. Run(Uint(2), <<>>, 2, m) BY ValueRun, ArithmeticSizes
<1> HIDE DEF m
<1>3. RunsTo(Uint(2) \o Opt(Uint(2)), <<depth>>, 2, 8)
  <2>1. CASE depth = 0
    <3>1. Run(Opt(Uint(2)), <<0>>, 4, 4 + 1) BY OptRun
    <3>2. Run(Uint(2) \o Opt(Uint(2)), <<0>>, 2, 4 + 1) BY <1>1, <1>2, <3>1, JoinPlain
    <3> QED BY <2>1, <3>2 DEF RunsTo
  <2>2. CASE depth = 1
    <3> DEFINE q == <<>>
               e == After(4 + 1, 2)
    <3>1. Run(Uint(2), q, 4 + 1, e) BY ValueRun, ArithmeticSizes
    <3>2. e = 8 BY DEF After, Padding
    <3>3. <<1>> \o q = <<1>> OBVIOUS
    <3> HIDE DEF q, e
    <3>4. Run(Opt(Uint(2)), <<1>> \o q, 4, e) BY <3>1, OptRun
    <3>5. Run(Uint(2) \o Opt(Uint(2)), <<1>>, 2, e) BY <1>1, <1>2, <3>3, <3>4, JoinPlain
    <3> QED BY <2>2, <3>2, <3>5 DEF RunsTo
  <2> QED BY <2>1, <2>2 DEF Flags
<1>4. RunsTo(Uint(2) \o Opt(Uint(2)) \o Opt(Uint(4)), <<depth>> \o <<0>>, 2, 8 + 1)
  BY <1>3, AbsentNext
<1>5. <<depth>> \o <<0>> = <<depth, 0>> /\ <<depth, 0>> \o <<0>> = <<depth, 0, 0>>
      /\ <<depth, 0, 0>> \o <<0>> = <<depth, 0, 0, 0>>
  BY Tuple11, Tuple21, Tuple31
<1>6. RunsTo(Uint(2) \o Opt(Uint(2)) \o Opt(Uint(4)), <<depth, 0>>, 2, 9) 
  <2>1. 8 + 1 = 9 OBVIOUS
  <2> QED BY <1>4, <1>5, <2>1
<1>7. RunsTo(Uint(2) \o Opt(Uint(2)) \o Opt(Uint(4)) \o Opt(Uint(4)), <<depth, 0>> \o <<0>>, 2, 9 + 1)
  BY <1>6, AbsentNext
<1>8. RunsTo(Uint(2) \o Opt(Uint(2)) \o Opt(Uint(4)) \o Opt(Uint(4)), <<depth, 0, 0>>, 2, 10)
  <2>1. 9 + 1 = 10 OBVIOUS
  <2> QED BY <1>5, <1>7, <2>1
<1>9. RunsTo(OBJK_Endpoint_QosBinary, <<depth, 0, 0>> \o <<0>>, 2, 10 + 1)
  BY <1>8, AbsentNext DEF OBJK_Endpoint_QosBinary
<1>10. RunsTo(OBJK_Endpoint_QosBinary, <<depth, 0, 0, 0>>, 2, 11)
  <2>1. 10 + 1 = 11 OBVIOUS
  <2> QED BY <1>5, <1>9, <2>1
<1> QED BY <1>10

\* An endpoint: its id, then its quality of service.
LEMMA EndpointRun ==
  ASSUME NEW f, NEW q, NEW limit, RunsTo(f, q, 2, limit)
  PROVE  RunsTo(ObjectId \o Opt(f), <<1>> \o q, 0, limit)
<1>1. PICK e : Run(f, q, 2, e) /\ e <= limit BY DEF RunsTo
<1>2. Run(f, q, 1 + 1, e) BY <1>1
<1>3. Run(Opt(f), <<1>> \o q, 1, e) BY <1>2, OptRun
<1>4. Run(ObjectId, <<>>, 0, 1)
  <2>1. Run(ObjectId, <<>>, 0, 0 + 1) BY PlainRuns
  <2> QED BY <2>1
<1> QED BY <1>1, <1>3, <1>4, JoinPlain DEF RunsTo

\* The structures fit: texts that are as long as the largest one considered, five times,
\* and the fixed fields.
BlobsHold ==
  /\ 13 <= UXR_BINARY_SEQUENCE_MAX
  /\ \A l \in Lengths : 5 * (l + 7) + 2 <= UXR_BINARY_SEQUENCE_MAX

BlobRun(form, values) ==
  \E limit \in Nat : RunsTo(form, values, 0, limit) /\ (BlobsHold => limit <= UXR_BINARY_SEQUENCE_MAX)

LEMMA ParticipantBlob == \A c \in CreateParticipantBin : BlobRun(c.form, c.script)
<1>1. BlobRun(OBJK_DomainParticipant_Binary, <<0, 0>>)
  <2>1. RunsTo(OBJK_DomainParticipant_Binary, <<0>> \o <<0>>, 0, 1 + 1)
    BY FirstText, AbsentNext DEF OBJK_DomainParticipant_Binary
  <2>2. <<0>> \o <<0>> = <<0, 0>> BY Tuple11
  <2>3. 1 + 1 \in Nat /\ (BlobsHold => 1 + 1 <= UXR_BINARY_SEQUENCE_MAX)
    BY CapacitiesAssumption DEF BlobsHold
  <2> QED BY <2>1, <2>2, <2>3 DEF BlobRun
<1>2. ASSUME NEW l \in Lengths PROVE BlobRun(OBJK_DomainParticipant_Binary, <<0, 1, l>>)
  <2>0. l \in Nat BY LengthsAssumption
  <2>1. RunsTo(OBJK_DomainParticipant_Binary, <<0>> \o <<1, l>>, 0, 1 + 8 + l)
    BY <2>0, FirstText, TextNext DEF OBJK_DomainParticipant_Binary
  <2>2. <<0>> \o <<1, l>> = <<0, 1, l>> BY Tuple12
  <2>3. 1 + 8 + l \in Nat /\ (BlobsHold => 1 + 8 + l <= UXR_BINARY_SEQUENCE_MAX)
    BY <2>0, CapacitiesAssumption DEF BlobsHold
  <2> QED BY <2>1, <2>2, <2>3 DEF BlobRun
<1>3. ASSUME NEW c \in CreateParticipantBin
      PROVE  c.form = OBJK_DomainParticipant_Binary
             /\ (c.script = <<0, 0>> \/ \E l \in Lengths : c.script = <<0, 1, l>>)
  BY DEF CreateParticipantBin, Bin, SomeText
<1> QED BY <1>1, <1>2, <1>3

LEMMA TopicBlob == \A c \in CreateTopicBin : BlobRun(c.form, c.script)
<1>1. ASSUME NEW l \in Lengths, NEW m \in Lengths
      PROVE  BlobRun(OBJK_Topic_Binary, <<l, 0, 1, m>>)
  <2>0. l \in Nat /\ m \in Nat BY LengthsAssumption
  <2>1. RunsTo(Text \o Opt(Text), <<l>> \o <<0>>, 0, 7 + l + 1)
    <3>1. 7 + l \in Nat /\ RunsTo(Text, <<l>>, 0, 7 + l) BY <2>0, FirstText
    <3> QED BY <3>1, AbsentNext
  <2>2. <<l>> \o <<0>> = <<l, 0>> /\ <<l, 0>> \o <<1, m>> = <<l, 0, 1, m>>
    BY Tuple11, Tuple22
  <2>3. RunsTo(OBJK_Topic_Binary, <<l, 0>> \o <<1, m>>, 0, 7 + l + 1 + 8 + m)
    <3>0. 7 + l + 1 \in Nat BY <2>0
    <3>1. RunsTo(Text \o Opt(Text), <<l, 0>>, 0, 7 + l + 1) BY <2>1, <2>2
    <3> QED BY <2>0, <3>0, <3>1, TextNext DEF OBJK_Topic_Binary
  <2>4. /\ 7 + l + 1 + 8 + m \in Nat
        /\ BlobsHold => 7 + l + 1 + 8 + m <= UXR_BINARY_SEQUENCE_MAX
    BY <2>0, CapacitiesAssumption DEF BlobsHold
  <2> QED BY <2>2, <2>3, <2>4 DEF BlobRun
<1>2. ASSUME NEW c \in CreateTopicBin
      PROVE  c.form = OBJK_Topic_Binary /\ \E l, m \in Lengths : c.script = <<l, 0, 1, m>>
  BY DEF CreateTopicBin, Bin, SomeText
<1> QED BY <1>1, <1>2

LEMMA PublisherBlob == \A c \in CreatePublisherBin \cup CreateSubscriberBin : BlobRun(c.form, c.script)
<1>1. ASSUME NEW f PROVE BlobRun(Opt(Text) \o Opt(f), <<0, 0>>)
  <2>1. RunsTo(Opt(Text) \o Opt(f), <<0>> \o <<0>>, 0, 1 + 1) BY FirstText, AbsentNext
  <2>2. <<0>> \o <<0>> = <<0, 0>> BY Tuple11
  <2>3. 1 + 1 \in Nat /\ (BlobsHold => 1 + 1 <= UXR_BINARY_SEQUENCE_MAX)
    BY CapacitiesAssumption DEF BlobsHold
  <2> QED BY <2>1, <2>2, <2>3 DEF BlobRun
<1>2. ASSUME NEW c \in CreatePublisherBin \cup CreateSubscriberBin
      PROVE  c.script = <<0, 0>> /\ \E f : c.form = Opt(Text) \o Opt(f)
  BY DEF CreatePublisherBin, CreateSubscriberBin, Bin, OBJK_Publisher_Binary,
    OBJK_Subscriber_Binary
<1> QED BY <1>1, <1>2

LEMMA EndpointBlob == \A c \in CreateDataWriterBin \cup CreateDataReaderBin : BlobRun(c.form, c.script)
<1>1. ASSUME NEW depth \in Flags
      PROVE  /\ BlobRun(OBJK_DataWriter_Binary, <<1>> \o QosScript(depth) \o <<0>>)
             /\ BlobRun(OBJK_DataReader_Binary, <<1>> \o QosScript(depth) \o <<0, 0>>)
  <2> DEFINE q == <<depth, 0, 0, 0>>
  <2>1. RunsTo(OBJK_Endpoint_QosBinary, q, 2, 11) BY QosRun
  <2>2. /\ <<1>> \o QosScript(depth) \o <<0>> = <<1>> \o (q \o <<0>>)
        /\ <<1>> \o QosScript(depth) \o <<0, 0>> = <<1>> \o ((q \o <<0>>) \o <<0>>)
    <3>1. q \in Seq(Nat) /\ <<0>> \in Seq(Nat) /\ <<1>> \in Seq(Nat) BY DEF Flags
    <3>2. QosScript(depth) = q BY DEF QosScript
    <3>3. <<0, 0>> = <<0>> \o <<0>> BY Tuple11
    <3> HIDE DEF q
    <3>4. /\ <<1>> \o q \o <<0>> = <<1>> \o (q \o <<0>>)
          /\ (q \o <<0>>) \o <<0>> = q \o (<<0>> \o <<0>>)
      BY <3>1, Associative
    <3>5. <<1>> \o q \o (<<0>> \o <<0>>) = <<1>> \o (q \o (<<0>> \o <<0>>))
      <4> DEFINE z == <<0>> \o <<0>>
      <4>1. z \in Seq(Nat) BY <3>1
      <4> HIDE DEF z
      <4> QED BY <3>1, <4>1, Associative DEF z
    <3> QED BY <3>2, <3>3, <3>4, <3>5
  <2> HIDE DEF q
  <2>3. RunsTo(OBJK_DataWriter_Binary_Qos, q \o <<0>>, 2, 11 + 1)
    BY <2>1, AbsentNext DEF OBJK_DataWriter_Binary_Qos
  <2>4. RunsTo(OBJK_Endpoint_QosBinary \o Opt(Uint(8)), q \o <<0>>, 2, 11 + 1)
    BY <2>1, AbsentNext
  <2>5. RunsTo(OBJK_DataReader_Binary_Qos, (q \o <<0>>) \o <<0>>, 2, 11 + 1 + 1)
    BY <2>4, AbsentNext DEF OBJK_DataReader_Binary_Qos
  <2>6. RunsTo(OBJK_DataWriter_Binary, <<1>> \o (q \o <<0>>), 0, 11 + 1)
    BY <2>3, EndpointRun DEF OBJK_DataWriter_Binary
  <2>7. RunsTo(OBJK_DataReader_Binary, <<1>> \o ((q \o <<0>>) \o <<0>>), 0, 11 + 1 + 1)
    BY <2>5, EndpointRun DEF OBJK_DataReader_Binary
  <2>8. /\ 11 + 1 \in Nat /\ 11 + 1 + 1 \in Nat
        /\ BlobsHold => 11 + 1 <= UXR_BINARY_SEQUENCE_MAX /\ 11 + 1 + 1 <= UXR_BINARY_SEQUENCE_MAX
    BY CapacitiesAssumption DEF BlobsHold
  <2> QED BY <2>2, <2>6, <2>7, <2>8 DEF BlobRun
<1>2. ASSUME NEW c \in CreateDataWriterBin
      PROVE  c.form = OBJK_DataWriter_Binary
             /\ \E depth \in Flags : c.script = <<1>> \o QosScript(depth) \o <<0>>
  <2> DEFINE given(depth) == <<1>> \o QosScript(depth) \o <<0>>
  <2>1. c \in Bin("DATAWRITER", OBJK_DataWriter_Binary, {given(depth) : depth \in Flags})
    BY <1>2 DEF CreateDataWriterBin
  <2> HIDE DEF given
  <2>2. c.form = OBJK_DataWriter_Binary /\ \E depth \in Flags : c.script = given(depth)
    BY <2>1 DEF Bin
  <2> QED BY <2>2 DEF given
<1>3. ASSUME NEW c \in CreateDataReaderBin
      PROVE  c.form = OBJK_DataReader_Binary
             /\ \E depth \in Flags : c.script = <<1>> \o QosScript(depth) \o <<0, 0>>
  <2> DEFINE given(depth) == <<1>> \o QosScript(depth) \o <<0, 0>>
  <2>1. c \in Bin("DATAREADER", OBJK_DataReader_Binary, {given(depth) : depth \in Flags})
    BY <1>3 DEF CreateDataReaderBin
  <2> HIDE DEF given
  <2>2. c.form = OBJK_DataReader_Binary /\ \E depth \in Flags : c.script = given(depth)
    BY <2>1 DEF Bin
  <2> QED BY <2>2 DEF given
<1> QED BY <1>1, <1>2, <1>3

LEMMA ReplierBlob == \A c \in CreateRequesterBin \cup CreateReplierBin : BlobRun(c.form, c.script)
<1>1. ASSUME NEW l \in Lengths, NEW m \in Lengths
      PROVE  BlobRun(Text \o Text \o Text \o Opt(Text) \o Opt(Text), <<l, m, l, 1, m, 1, l>>)
  <2>0. l \in Nat /\ m \in Nat BY LengthsAssumption
  <2> DEFINE a == 7 + l
             b == a + 7 + m
             c == b + 7 + l
             d == c + 8 + m
             e == d + 8 + l
  <2>1. a \in Nat /\ b \in Nat /\ c \in Nat /\ d \in Nat /\ e \in Nat BY <2>0
  <2>2. BlobsHold => e <= UXR_BINARY_SEQUENCE_MAX BY <2>0, CapacitiesAssumption DEF BlobsHold
  <2>3. RunsTo(Text, <<l>>, 0, a) BY <2>0, FirstText
  <2>4. /\ <<l>> \o <<m>> = <<l, m>> /\ <<l, m>> \o <<l>> = <<l, m, l>>
        /\ <<l, m, l>> \o <<1, m>> = <<l, m, l, 1, m>>
        /\ <<l, m, l, 1, m>> \o <<1, l>> = <<l, m, l, 1, m, 1, l>>
    BY Tuple11, Tuple21, Tuple32, Tuple52
  <2> HIDE DEF a, b, c, d, e
  <2>5. RunsTo(Text \o Text, <<l, m>>, 0, b) BY <2>0, <2>1, <2>3, <2>4, TextNext DEF b
  <2>6. RunsTo(Text \o Text \o Text, <<l, m, l>>, 0, c) BY <2>0, <2>1, <2>4, <2>5, TextNext DEF c
  <2>7. RunsTo(Text \o Text \o Text \o Opt(Text), <<l, m, l, 1, m>>, 0, d)
    BY <2>0, <2>1, <2>4, <2>6, TextNext DEF d
  <2>8. RunsTo(Text \o Text \o Text \o Opt(Text) \o Opt(Text), <<l, m, l, 1, m, 1, l>>, 0, e)
    BY <2>0, <2>1, <2>4, <2>7, TextNext DEF e
  <2> QED BY <2>1, <2>2, <2>8 DEF BlobRun
<1>2. ASSUME NEW c \in CreateRequesterBin \cup CreateReplierBin
      PROVE  c.form = Text \o Text \o Text \o Opt(Text) \o Opt(Text)
             /\ \E l, m \in Lengths : c.script = <<l, m, l, 1, m, 1, l>>
  BY DEF CreateRequesterBin, CreateReplierBin, Bin, SomeText, OBJK_Requester_Binary,
    OBJK_Replier_Binary
<1> QED BY <1>1, <1>2

LEMMA BlobFits ==
  ASSUME NEW c \in CreateBin
  PROVE  c.kind \in Kinds /\ BlobRun(c.form, c.script)
<1>1. c.kind \in Kinds
  BY DEF CreateBin, CreateParticipantBin, CreateTopicBin, CreatePublisherBin, CreateSubscriberBin,
    CreateDataWriterBin, CreateDataReaderBin, CreateRequesterBin, CreateReplierBin, Bin, Kinds
<1>2. BlobRun(c.form, c.script)
  BY ParticipantBlob, TopicBlob, PublisherBlob, EndpointBlob, ReplierBlob DEF CreateBin
<1> QED BY <1>1, <1>2

-----------------------------------------------------------------------------
(* One step along a form, or along a run.                                  *)

LEMMA RunStep ==
  ASSUME NEW f, NEW q, NEW o, NEW e, Run(f, q, o, e), f # <<>>
  PROVE  \E s, t, p : Steps(Head(f), q, o, s, t, p) /\ Run(s \o Tail(f), t, p, e)
<1>1. PICK R, S, V : Moves(R, S, V, e) /\ <<f, q, o>> \in R BY DEF Run
<1>2. Goes(R, S, f, q, o) BY <1>1 DEF Moves, Moving
<1>3. PICK s, t, p : Steps(Head(f), q, o, s, t, p) /\ <<s \o Tail(f), t, p>> \in R
  BY <1>2 DEF Goes
<1> DEFINE g == s \o Tail(f)
<1>4. <<g, t, p>> \in R BY <1>3
<1> HIDE DEF g
<1>5. Run(g, t, p, e) BY <1>1, <1>4 DEF Run
<1> QED BY <1>3, <1>5 DEF g

LEMMA RepeatedType ==
  ASSUME NEW S, NEW s \in Seq(S), NEW count \in Nat
  PROVE  Repeated(s, count) \in Seq(S)
<1> DEFINE L == Len(s)
           n == count * L
           r == Repeated(s, count)
<1>1. L \in Nat /\ \A i \in 1..L : s[i] \in S OBVIOUS
<1>2. n \in Nat BY <1>1
<1>3. r = [i \in 1..n |-> s[1 + ((i - 1) % L)]] BY DEF Repeated
<1>4. n # 0 => L # 0 BY <1>1
<1> HIDE DEF L, n, r
<1>5. ASSUME NEW i \in 1..n PROVE r[i] \in S
  <2>1. L \in Nat /\ L > 0 /\ i - 1 \in Nat BY <1>1, <1>2, <1>4
  <2>2. 1 + ((i - 1) % L) \in 1..L BY <2>1
  <2> QED BY <1>1, <1>3, <2>2
<1>6. r \in [1..n -> S]
  <2>1. DOMAIN r = 1..n /\ r = [i \in 1..n |-> r[i]] BY <1>3
  <2> QED BY <1>5, <2>1
<1>7. r \in Seq(S) BY <1>2, <1>6
<1> QED BY <1>7 DEF r

\* What a form that is not empty begins with, and that it goes on as a form.
LEMMA FormStep ==
  ASSUME NEW f, Form(f), f # <<>>
  PROVE  LET x == Head(f) IN
         /\ Form(Tail(f)) /\ <<>> \o Tail(f) = Tail(f)
         /\ x.k \in {"int", "tag", "align"} => x.n \in DataSizes
         /\ x.k \in {"raw", "data"} => x.n \in Nat \ {0} /\ x.cap \in Nat /\ x.n <= x.cap
         /\ x.k \in {"bytes", "list"} => x.cap \in Nat
         /\ x.k \in {"opt", "only"} => Form(x.s \o Tail(f))
         /\ x.k = "endian" => x.other \in BOOLEAN
         /\ x.k = "tag" => \A t \in DOMAIN x.alt : Form(x.alt[t] \o Tail(f))
         /\ x.k = "list" => \A count \in Nat : Form(Repeated(x.s, count) \o Tail(f))
<1> DEFINE x == Head(f)
           g == Tail(f)
<1>1. PICK S : Closed(S) /\ f \in Seq(S) BY DEF Form
<1>2. x \in S /\ g \in Seq(S) BY <1>1
<1>3. Right(x, S) BY <1>1, <1>2 DEF Closed
<1>4. <<>> \o g = g BY <1>2
<1> HIDE DEF x, g
<1>5. ASSUME NEW s \in Seq(S) PROVE Form(s \o g)
  <2>1. s \o g \in Seq(S) BY <1>2
  <2> QED BY <1>1, <2>1 DEF Form
<1>6. Form(g) BY <1>1, <1>2 DEF Form
<1>7. /\ x.k \in {"int", "tag", "align"} => x.n \in DataSizes
      /\ x.k \in {"raw", "data"} => x.n \in Nat \ {0} /\ x.cap \in Nat /\ x.n <= x.cap
      /\ x.k \in {"bytes", "list"} => x.cap \in Nat
      /\ x.k \in {"opt", "only", "list"} => x.s \in Seq(S)
      /\ x.k = "tag" => \A t \in DOMAIN x.alt : x.alt[t] \in Seq(S)
      /\ x.k = "endian" => x.other \in BOOLEAN
  BY <1>3 DEF Right
<1>8. x.k = "list" => \A count \in Nat : Form(Repeated(x.s, count) \o g)
  BY <1>5, <1>7, RepeatedType
<1>9. x.k \in {"opt", "only"} => Form(x.s \o g) BY <1>5, <1>7
<1>10. x.k = "tag" => \A t \in DOMAIN x.alt : Form(x.alt[t] \o g) BY <1>5, <1>7
<1> QED BY <1>4, <1>6, <1>7, <1>8, <1>9, <1>10 DEF x, g

-----------------------------------------------------------------------------
(* The slots cut for a message.                                            *)

\* A value that is split goes on in the next slot, whatever its size: a slot between two
\* others has room for any of them.
BlocksHold == \A b \in Blocks : b[2] >= 8

LEMMA OneSlotSnug ==
  ASSUME NEW size \in Nat, NEW at \in Nat, at <= size
  PROVE  LET b == InitBuffer(<<size>>, at, "none") IN Snug(b) /\ End(b) = size
<1> DEFINE b == InitBuffer(<<size>>, at, "none")
<1>1. /\ Regular(b) /\ Sound(b) /\ b.ends = <<size>> /\ b.full = "none" /\ b.slot = 1
      /\ b.at = at /\ b.offset = at /\ ~b.error
  BY OneSlotRegular
<1> HIDE DEF b
<1>2. Len(b.ends) = 1 /\ DOMAIN b.ends = {1} /\ b.ends[1] = size BY <1>1
<1>3. Begins(b, b.slot) = 0 /\ SlotSize(b) = size BY <1>1, <1>2 DEF Begins, SlotSize
<1>4. Snug(b) BY <1>1, <1>2, <1>3 DEF Snug
<1> QED BY <1>2, <1>4 DEF End, b

LEMMA FragmentsSnug ==
  ASSUME NEW length \in Nat, NEW block \in Blocks, block[1] < length
  PROVE  LET b == InitBuffer(FragmentEnds(length, block[1], block[2]), 0, "out") IN
         /\ Regular(b) /\ Sound(b) /\ End(b) = length /\ b.offset = 0
         /\ BlocksHold => Snug(b)
<1> DEFINE ends == FragmentEnds(length, block[1], block[2])
           b == InitBuffer(ends, 0, "out")
<1>1. block[1] \in Nat /\ block[2] \in Nat \ {0} BY BlocksAssumption
<1>2. /\ ends \in Seq(Nat) /\ Len(ends) > 1 /\ ends[Len(ends)] = length
      /\ \A i, j \in DOMAIN ends : i <= j => ends[i] <= ends[j]
      /\ \A i \in DOMAIN ends : 1 < i /\ i < Len(ends) => ends[i] = ends[i - 1] + block[2]
  BY <1>1, FragmentsRegular
<1> HIDE DEF ends
<1>3. ends # <<>> BY <1>2
<1>4. /\ Regular(b) /\ Sound(b) /\ b.ends = ends /\ b.full = "out" /\ b.slot = 1
      /\ b.at = 0 /\ b.offset = 0 /\ ~b.error
  BY <1>2, <1>3, InitRegular
<1> HIDE DEF b
<1>5. End(b) = length BY <1>2, <1>4 DEF End
<1>6. Begins(b, b.slot) = 0 /\ 1 \in DOMAIN b.ends /\ SlotSize(b) \in Nat
  BY <1>2, <1>4 DEF Begins, SlotSize
<1>7. BlocksHold => \A i \in DOMAIN ends : 1 < i /\ i < Len(ends) => ends[i] >= ends[i - 1] + 8
  <2> SUFFICES ASSUME BlocksHold, NEW i \in DOMAIN ends, 1 < i, i < Len(ends)
               PROVE  ends[i] >= ends[i - 1] + 8
    OBVIOUS
  <2>1. i - 1 \in DOMAIN ends /\ ends[i - 1] \in Nat BY <1>2
  <2>2. block[2] >= 8 BY DEF BlocksHold
  <2> QED BY <1>1, <1>2, <2>1, <2>2
<1>8. BlocksHold => Snug(b) BY <1>4, <1>6, <1>7 DEF Snug
<1> QED BY <1>4, <1>5, <1>8 DEF b, ends

\* A message that fits the bytes reserved, in any stream.
LEMMA StreamFits ==
  ASSUME NEW reserved \in Nat, NEW b \in StreamBuffers(reserved),
         NEW form, NEW values, FitsIn(form, values, reserved)
  PROVE  /\ Regular(b.ub) /\ Sound(b.ub) /\ (BlocksHold => Snug(b.ub))
         /\ \E e : Run(b.header \o form, values, b.ub.offset, e) /\ e <= End(b.ub)
<1>1. ASSUME NEW at \in {0, 4}, NEW header \in {Uint(1), <<>>},
             b = [ub |-> InitBuffer(<<at + reserved>>, at, "none"), header |-> header]
      PROVE  /\ Regular(b.ub) /\ Sound(b.ub) /\ Snug(b.ub)
             /\ \E e : Run(b.header \o form, values, b.ub.offset, e) /\ e <= End(b.ub)
  <2> DEFINE u == InitBuffer(<<at + reserved>>, at, "none")
  <2>1. b.ub = u /\ b.header = header BY <1>1
  <2>2. Snug(u) /\ End(u) = at + reserved
    <3>1. at \in Nat /\ at + reserved \in Nat /\ at <= at + reserved OBVIOUS
    <3> QED BY <3>1, OneSlotSnug
  <2>3. u.offset = at BY DEF InitBuffer
  <2> HIDE DEF u
  <2>4. \E e : Run(header \o form, values, at, e) /\ e <= at + reserved
    <3>1. at \in Nat /\ at + 1 \in Nat /\ at % 4 = 0 OBVIOUS
    <3>2. CASE header = Uint(1)
      <4>1. Run(Uint(1), <<>>, at, at + 1) BY <3>1, PlainRuns
      <4>2. PICK e : Run(form, values, at + 1, e) /\ e <= at + reserved BY <3>1 DEF FitsIn
      <4>3. Run(Uint(1) \o form, values, at, e) BY <4>1, <4>2, JoinPlain
      <4> QED BY <3>2, <4>2, <4>3
    <3>3. CASE header = <<>>
      <4>1. PICK e : Run(form, values, at, e) /\ e <= at + reserved BY <3>1 DEF FitsIn
      <4>2. PICK S : form \in Seq(S) BY <4>1, RunTypes
      <4>3. <<>> \o form = form BY <4>2
      <4> QED BY <3>3, <4>1, <4>3
    <3> QED BY <3>2, <3>3
  <2> QED BY <2>1, <2>2, <2>3, <2>4 DEF Snug
<1>2. ASSUME NEW c \in Blocks, c[1] < reserved,
             b = [ub |-> InitBuffer(FragmentEnds(reserved, c[1], c[2]), 0, "out"), header |-> <<>>]
      PROVE  /\ Regular(b.ub) /\ Sound(b.ub) /\ (BlocksHold => Snug(b.ub))
             /\ \E e : Run(b.header \o form, values, b.ub.offset, e) /\ e <= End(b.ub)
  <2> DEFINE u == InitBuffer(FragmentEnds(reserved, c[1], c[2]), 0, "out")
  <2>1. b.ub = u /\ b.header = <<>> BY <1>2
  <2>2. Regular(u) /\ Sound(u) /\ End(u) = reserved /\ u.offset = 0 /\ (BlocksHold => Snug(u))
    BY <1>2, FragmentsSnug
  <2> HIDE DEF u
  <2>3. PICK e : Run(form, values, 0, e) /\ e <= 0 + reserved BY DEF FitsIn
  <2>4. PICK S : form \in Seq(S) BY <2>3, RunTypes
  <2>5. <<>> \o form = form BY <2>4
  <2>6. 0 + reserved = reserved OBVIOUS
  <2> QED BY <2>1, <2>2, <2>3, <2>5, <2>6
<1>3. CASE \E at \in {0, 4}, header \in {Uint(1), <<>>} :
             b = [ub |-> InitBuffer(<<at + reserved>>, at, "none"), header |-> header]
  BY <1>1, <1>3
<1>4. CASE \E c \in Blocks : /\ c[1] < reserved
             /\ b = [ub |-> InitBuffer(FragmentEnds(reserved, c[1], c[2]), 0, "out"), header |-> <<>>]
  BY <1>2, <1>4
<1> QED BY <1>3, <1>4 DEF StreamBuffers

-----------------------------------------------------------------------------
(* The inductive invariant.                                                *)

\* The lengths of the structures and the slots for which the client's messages fit.
Fitting == BlobsHold /\ BlocksHold

Phased ==
  /\ phase \in {"idle", "blob", "write", "read", "done"}
  /\ phase = "blob" => call.dir = "out" /\ call.name \in Kinds
  /\ phase = "write" => call.dir \in {"in", "out"}
  /\ phase = "read" => call.dir = "in"
  /\ call.dir = "in" => call.name \in DOMAIN ReceivedForms
  /\ ok \in BOOLEAN /\ foreign \in BOOLEAN

BufferWell == Regular(ub) /\ Sound(ub)

\* What is written is aligned, and of the type its reader expects.
Entry(w) ==
  /\ w.n \in DataSizes /\ w.offset % w.n = 0
  /\ w.k \in {"bytes", "list"} => w.v \in Nat
  /\ w.k = "opt" => w.v \in Flags
WrittenWell == (\E S : written \in Seq(S)) /\ \A i \in DOMAIN written : Entry(written[i])

Kept(g, count) == g.item \in 0..count /\ g.n \in Nat /\ g.cap \in Nat /\ g.n <= g.cap
GotWell == (\E S : got \in Seq(S)) /\ \A i \in DOMAIN got : Kept(got[i], Len(written))

\* What is left of the client's message is a run from where the buffer is, and it ends
\* before the slots do.
OutWell ==
  call.dir = "out" =>
    /\ Fitting => Snug(ub)
    /\ phase \in {"blob", "write"} =>
         \E o, e : Run(todo, script, o, e) /\ (Fitting => o = ub.offset /\ e <= End(ub))

\* What is left of a message of the agent is a form, but for the bytes of a sequence that
\* is too long: behind the error that its length was, in the reader.
LongRaw(x) == x.k = "raw" /\ x.n \in Nat \ {0} /\ x.cap \in Nat
TooLong(f) == f # <<>> /\ LongRaw(Head(f)) /\ Form(Tail(f))
InWell ==
  call.dir = "in" /\ phase \in {"write", "read"} =>
    Form(todo) \/ (TooLong(todo) /\ (phase = "read" => ub.error))

IInv == Phased /\ BufferWell /\ WrittenWell /\ GotWell /\ OutWell /\ InWell

LEMMA NothingYet == written' = <<>> /\ got' = <<>> => WrittenWell' /\ GotWell'
<1> SUFFICES ASSUME written' = <<>>, got' = <<>> PROVE WrittenWell' /\ GotWell' OBVIOUS
<1>1. <<>> \in Seq({}) /\ DOMAIN <<>> = {} OBVIOUS
<1>2. WrittenWell' BY <1>1 DEF WrittenWell
<1>3. GotWell' BY <1>1 DEF GotWell
<1> QED BY <1>2, <1>3

LEMMA InitHolds == Init => IInv
<1> SUFFICES ASSUME Init PROVE IInv OBVIOUS
<1>1. phase = "idle" /\ call.dir = "none" /\ ok = TRUE /\ foreign = FALSE BY DEF Init
<1>2. Phased BY <1>1 DEF Phased
<1>3. BufferWell
  <2>1. ub = InitBuffer(<<1>>, 0, "none") BY DEF Init
  <2> QED BY <2>1, OneSlotRegular DEF BufferWell
<1>4. <<>> \in Seq({}) /\ DOMAIN <<>> = {} OBVIOUS
<1>5. WrittenWell /\ GotWell BY <1>4 DEF Init, WrittenWell, GotWell
<1>6. OutWell /\ InWell BY <1>1 DEF OutWell, InWell
<1> QED BY <1>2, <1>3, <1>5, <1>6 DEF IInv

-----------------------------------------------------------------------------
(* Beginning.                                                              *)

\* A message of the client that begins in a buffer of a stream.
LEMMA MessageBegins ==
  ASSUME NEW reserved \in Nat, NEW b \in StreamBuffers(reserved), NEW form, NEW values,
         FitsIn(form, values, reserved),
         script' = values, ub' = b.ub, todo' = b.header \o form,
         call' = Written("message"), Started
  PROVE  IInv'
<1>1. /\ Regular(b.ub) /\ Sound(b.ub) /\ (BlocksHold => Snug(b.ub))
      /\ \E e : Run(b.header \o form, values, b.ub.offset, e) /\ e <= End(b.ub)
  BY StreamFits
<1>2. /\ phase' = "write" /\ call'.dir = "out"
      /\ ok' = TRUE /\ foreign' = FALSE /\ written' = <<>> /\ got' = <<>>
  BY DEF Started, Written
<1>3. Phased' BY <1>2 DEF Phased
<1>4. BufferWell' BY <1>1 DEF BufferWell
<1>5. WrittenWell' /\ GotWell' BY <1>2, NothingYet
<1>6. OutWell' BY <1>1, <1>2 DEF OutWell, Fitting
<1>7. InWell' BY <1>2 DEF InWell
<1> QED BY <1>3, <1>4, <1>5, <1>6, <1>7 DEF IInv

LEMMA BeginBufferedKeeps == ASSUME IInv, BeginBuffered PROVE IInv'
<1>0. PICK c \in BufferedCalls : \E b \in StreamBuffers(c.reserved) :
        script' = c.script /\ ub' = b.ub /\ todo' = b.header \o c.form
  BY DEF BeginBuffered
<1>1. PICK b \in StreamBuffers(c.reserved) :
        script' = c.script /\ ub' = b.ub /\ todo' = b.header \o c.form
  BY <1>0
<1>2. c.reserved \in Nat /\ FitsIn(c.form, c.script, c.reserved) BY BufferedFits
<1>3. call' = Written("message") /\ Started BY DEF BeginBuffered
<1> QED BY <1>1, <1>2, <1>3, MessageBegins

LEMMA BeginOwnBufferKeeps == ASSUME IInv, BeginOwnBuffer PROVE IInv'
<1>1. PICK c \in OwnBufferCalls :
        script' = c.script /\ todo' = c.form /\ ub' = InitBuffer(<<c.reserved>>, 0, "none")
  BY DEF BeginOwnBuffer
<1>2. c.reserved \in Nat /\ \E e : Run(c.form, c.script, 0, e) /\ e <= c.reserved
  BY OwnBufferFits
<1>3. /\ phase' = "write" /\ call'.dir = "out"
      /\ ok' = TRUE /\ foreign' = FALSE /\ written' = <<>> /\ got' = <<>>
  BY DEF BeginOwnBuffer, Started, Written
<1>4. Snug(ub') /\ End(ub') = c.reserved /\ ub'.offset = 0
  <2>1. 0 <= c.reserved BY <1>2
  <2>2. ub'.offset = 0 BY <1>1 DEF InitBuffer
  <2> QED BY <1>1, <1>2, <2>1, <2>2, OneSlotSnug
<1>5. Phased' BY <1>3 DEF Phased
<1>6. BufferWell' BY <1>4 DEF BufferWell, Snug
<1>7. WrittenWell' /\ GotWell' BY <1>3, NothingYet
<1>8. OutWell' BY <1>1, <1>2, <1>3, <1>4 DEF OutWell
<1>9. InWell' BY <1>3 DEF InWell
<1> QED BY <1>5, <1>6, <1>7, <1>8, <1>9 DEF IInv

LEMMA BeginReceivedKeeps == ASSUME IInv, BeginReceived PROVE IInv'
<1>1. PICK name \in DOMAIN ReceivedForms, b \in AgentBuffers :
        /\ call' = [dir |-> "in", name |-> name]
        /\ todo' = ReceivedForms[name] /\ ub' = b
  BY DEF BeginReceived
<1>2. phase' = "write" /\ ok' = TRUE /\ foreign' = FALSE /\ written' = <<>> /\ got' = <<>>
  BY DEF BeginReceived, Started
<1>3. call'.dir = "in" /\ call'.name = name BY <1>1
<1>4. Phased' BY <1>2, <1>3 DEF Phased
<1>5. BufferWell' BY <1>1, AgentRegular DEF BufferWell
<1>6. WrittenWell' /\ GotWell' BY <1>2, NothingYet
<1>7. OutWell' BY <1>3 DEF OutWell
<1>8. InWell' BY <1>1, ReceivedForm DEF InWell
<1> QED BY <1>4, <1>5, <1>6, <1>7, <1>8 DEF IInv

LEMMA BeginBlobKeeps == ASSUME IInv, BeginBlob PROVE IInv'
<1>1. PICK c \in CreateBin : call' = Written(c.kind) /\ script' = c.script /\ todo' = c.form
  BY DEF BeginBlob
<1>2. /\ ub' = InitBuffer(<<UXR_BINARY_SEQUENCE_MAX>>, 0, "none")
      /\ phase' = "blob" /\ foreign' = FALSE /\ got' = <<>> /\ ok' = TRUE /\ written' = <<>>
  BY DEF BeginBlob
<1>3. call'.dir = "out" /\ call'.name = c.kind BY <1>1 DEF Written
<1>4. c.kind \in Kinds /\ BlobRun(c.form, c.script) BY BlobFits
<1>5. Snug(ub') /\ End(ub') = UXR_BINARY_SEQUENCE_MAX /\ ub'.offset = 0
  <2>1. UXR_BINARY_SEQUENCE_MAX \in Nat /\ 0 <= UXR_BINARY_SEQUENCE_MAX
    BY CapacitiesAssumption
  <2>2. ub'.offset = 0 BY <1>2 DEF InitBuffer
  <2> QED BY <1>2, <2>1, <2>2, OneSlotSnug
<1>6. \E e : Run(c.form, c.script, 0, e) /\ (Fitting => e <= UXR_BINARY_SEQUENCE_MAX)
  <2>1. PICK limit \in Nat : /\ RunsTo(c.form, c.script, 0, limit)
                             /\ BlobsHold => limit <= UXR_BINARY_SEQUENCE_MAX
    BY <1>4 DEF BlobRun
  <2>2. PICK e : Run(c.form, c.script, 0, e) /\ e <= limit BY <2>1 DEF RunsTo
  <2>3. e \in Nat BY <2>2, RunTypes
  <2>4. Fitting => e <= UXR_BINARY_SEQUENCE_MAX
    BY <2>1, <2>2, <2>3, CapacitiesAssumption DEF Fitting
  <2> QED BY <2>2, <2>4
<1>7. Phased' BY <1>2, <1>3, <1>4 DEF Phased
<1>8. BufferWell' BY <1>5 DEF BufferWell, Snug
<1>9. WrittenWell' /\ GotWell' BY <1>2, NothingYet
<1>10. OutWell' BY <1>1, <1>2, <1>3, <1>5, <1>6 DEF OutWell
<1>11. InWell' BY <1>2, <1>3 DEF InWell
<1> QED BY <1>7, <1>8, <1>9, <1>10, <1>11 DEF IInv

LEMMA EndBlobKeeps == ASSUME IInv, EndBlob PROVE IInv'
<1> DEFINE c == CreateCall(call.name, "BINARY", ub.offset)
<1>1. PICK b \in StreamBuffers(c.reserved) :
        script' = c.script /\ ub' = b.ub /\ todo' = b.header \o c.form
  BY DEF EndBlob
<1>2. call' = Written("message") /\ Started /\ phase = "blob" BY DEF EndBlob
<1>3. call.name \in Kinds BY <1>2 DEF IInv, Phased
<1>4. "BINARY" \in FormatsOf(call.name) BY DEF FormatsOf
<1>5. ub.offset \in Nat BY SlotType DEF IInv, BufferWell
<1>6. c.reserved \in Nat /\ FitsIn(c.form, c.script, c.reserved)
  BY <1>3, <1>4, <1>5, CreateFits
<1> HIDE DEF c
<1> QED BY <1>1, <1>2, <1>6, MessageBegins

-----------------------------------------------------------------------------
(* Writing.                                                                *)

\* The client's next node, with the value the script has for it.
LEMMA OutNode ==
  ASSUME IInv, Writing, call.dir = "out"
  PROVE  \E o, e, s, t, p :
           /\ o \in Nat /\ e \in Nat /\ p \in Nat /\ p <= e
           /\ Steps(Node, script, o, s, t, p) /\ Run(s \o Tail(todo), t, p, e)
           /\ Fitting => Snug(ub) /\ o = ub.offset /\ e <= End(ub)
<1>1. /\ Fitting => Snug(ub)
      /\ \E o, e : Run(todo, script, o, e) /\ (Fitting => o = ub.offset /\ e <= End(ub))
  BY DEF IInv, OutWell, Writing
<1>2. PICK o, e : Run(todo, script, o, e) /\ (Fitting => o = ub.offset /\ e <= End(ub))
  BY <1>1
<1>3. PICK s, t, p : Steps(Head(todo), script, o, s, t, p) /\ Run(s \o Tail(todo), t, p, e)
  BY <1>2, RunStep DEF Writing
<1>4. o \in Nat /\ e \in Nat BY <1>2, RunTypes
<1> DEFINE g == s \o Tail(todo)
<1>5. Run(g, t, p, e) BY <1>3
<1> HIDE DEF g
<1>6. p \in Nat /\ p <= e BY <1>5, RunTypes
<1> QED BY <1>1, <1>2, <1>3, <1>4, <1>6 DEF Node

\* After the node the client's message goes on as a run.
LEMMA OutNext ==
  ASSUME NEW e, NEW p, Run(todo', script', p, e), call'.dir = "out",
         Fitting => Snug(ub') /\ p = ub'.offset /\ e <= End(ub')
  PROVE  OutWell'
BY DEF OutWell

\* A value of the client.
LEMMA OutValue ==
  ASSUME IInv, NEW n \in DataSizes, ub' = Value(ub, n), call' = call, call.dir = "out",
         NEW o, NEW e \in Nat, After(o, n) <= e,
         Fitting => Snug(ub) /\ o = ub.offset /\ e <= End(ub),
         Run(todo', script', After(o, n), e)
  PROVE  OutWell'
<1> DEFINE p == After(o, n)
<1>1. ASSUME Fitting PROVE Snug(ub') /\ p = ub'.offset /\ e <= End(ub')
  <2>1. Snug(ub) /\ o = ub.offset /\ e <= End(ub) BY <1>1
  <2>2. End(ub) \in Nat /\ ub.offset \in Nat BY <2>1, SnugFacts
  <2>3. After(ub.offset, n) \in Nat BY <2>2, AfterBounds
  <2>4. After(ub.offset, n) <= End(ub) BY <2>1, <2>2, <2>3
  <2>5. LET b == Value(ub, n) IN
        /\ Snug(b) /\ b.ends = ub.ends /\ b.full = ub.full
        /\ b.offset = After(ub.offset, n)
    BY <2>1, <2>4, SnugValue
  <2> QED BY <2>1, <2>5 DEF End
<1>2. Run(todo', script', p, e) OBVIOUS
<1> HIDE DEF p
<1> QED BY <1>1, <1>2, OutNext

\* What is written joins what has been written, if there was room for it.
LEMMA WrittenNext ==
  ASSUME WrittenWell, GotWell, got' = got, NEW w, NEW c \in BOOLEAN,
         written' = IF c THEN written ELSE Append(written, w), ~c => Entry(w)
  PROVE  WrittenWell' /\ GotWell'
<1>1. PICK S : written \in Seq(S) BY DEF WrittenWell
<1>2. CASE c
  <2>1. written' = written BY <1>2
  <2> QED BY <2>1 DEF WrittenWell, GotWell
<1>3. CASE ~c
  <2>1. written' = Append(written, w) BY <1>3
  <2> DEFINE T == S \cup {w}
             L == Len(written)
  <2>2. written \in Seq(T) /\ w \in T
    <3>1. S \subseteq T /\ w \in T OBVIOUS
    <3> HIDE DEF T
    <3>2. Seq(S) \subseteq Seq(T) BY <3>1
    <3> QED BY <1>1, <3>1, <3>2
  <2> HIDE DEF T
  <2>3. /\ written' \in Seq(T) /\ L \in Nat /\ Len(written') = L + 1
        /\ DOMAIN written = 1..L /\ DOMAIN written' = 1..(L + 1)
        /\ \A i \in 1..L : written'[i] = written[i]
        /\ written'[L + 1] = w
    BY <2>1, <2>2
  <2> HIDE DEF L
  <2>4. \A i \in DOMAIN written' : Entry(written'[i])
    <3> TAKE i \in DOMAIN written'
    <3>1. CASE i \in 1..L BY <2>3, <3>1 DEF WrittenWell
    <3>2. CASE i = L + 1 BY <1>3, <2>3, <3>2
    <3> QED BY <2>3, <3>1, <3>2
  <2>5. WrittenWell' BY <2>3, <2>4 DEF WrittenWell
  <2>6. GotWell'
    <3>1. \A g : Kept(g, L) => Kept(g, L + 1) BY <2>3 DEF Kept
    <3>2. Len(written) = L BY DEF L
    <3> QED BY <2>3, <3>1, <3>2 DEF GotWell
  <2> QED BY <2>5, <2>6
<1> QED BY <1>2, <1>3

\* A value, whoever writes it.
LEMMA PutKeeps ==
  ASSUME IInv, NEW n \in DataSizes, NEW value, NEW fits, NEW then, Put(n, value, fits, then),
         Node.k \in {"bytes", "list"} => value \in Nat,
         Node.k = "opt" => value \in Flags
  PROVE  Phased' /\ BufferWell' /\ WrittenWell' /\ GotWell'
<1> DEFINE b == Value(ub, n)
           w == Item(ub, n, value, fits)
<1>1. /\ written' = IF b.error THEN written ELSE Append(written, w)
      /\ ub' = b /\ phase' = phase /\ call' = call /\ got' = got /\ ok' = ok
      /\ foreign' = foreign
  BY DEF Put
<1>2. Regular(b) /\ Sound(b) /\ (~b.error => (b.offset - n) % n = 0)
  BY ValueAligned DEF IInv, BufferWell
<1>3. b.error \in BOOLEAN BY <1>2, SlotType
<1>4. ~b.error => Entry(w) BY <1>2 DEF Entry, Item
<1>5. Phased' BY <1>1 DEF IInv, Phased
<1> HIDE DEF b, w
<1>6. BufferWell' BY <1>1, <1>2 DEF BufferWell
<1>7. WrittenWell' /\ GotWell' BY <1>1, <1>3, <1>4, WrittenNext DEF IInv
<1> QED BY <1>5, <1>6, <1>7

\* Who writes a node.
LEMMA WhoWrites ==
  ASSUME IInv, Writing
  PROVE  /\ call.dir = "out" \/ (call.dir = "in" /\ phase = "write")
         /\ call.dir = "in" => Form(todo) \/ TooLong(todo)
         /\ todo # <<>>
BY DEF IInv, Phased, Writing, InWell

\* The size of a node that is a value.
LEMMA NodeSizes ==
  ASSUME IInv, Writing, Node.k \in {"int", "tag"}
  PROVE  Node.n \in DataSizes
<1>1. CASE call.dir = "out"
  <2>1. PICK o, s, t, p : Steps(Node, script, o, s, t, p) BY <1>1, OutNode
  <2> QED BY <2>1 DEF Steps
<1>2. CASE call.dir = "in"
  <2>1. (Form(todo) \/ TooLong(todo)) /\ todo # <<>> BY <1>2, WhoWrites
  <2>2. CASE Form(todo) BY <2>1, <2>2, FormStep DEF Node
  <2>3. CASE TooLong(todo) BY <2>3 DEF TooLong, LongRaw, Node
  <2> QED BY <2>1, <2>2, <2>3
<1> QED BY <1>1, <1>2, WhoWrites

\* The client goes on along the run as the node at hand tells.
LEMMA OutMove ==
  ASSUME IInv, Writing, call.dir = "out", NEW n, NEW then, NEW q,
         \A o, s, t, p : Steps(Node, script, o, s, t, p) => s = then /\ t = q /\ p = After(o, n)
  PROVE  \E o, e : /\ o \in Nat /\ e \in Nat /\ After(o, n) <= e
                   /\ Run(then \o Tail(todo), q, After(o, n), e)
                   /\ Fitting => Snug(ub) /\ o = ub.offset /\ e <= End(ub)
<1>1. PICK o, e, s, t, p :
           /\ o \in Nat /\ e \in Nat /\ p \in Nat /\ p <= e
           /\ Steps(Node, script, o, s, t, p) /\ Run(s \o Tail(todo), t, p, e)
           /\ Fitting => Snug(ub) /\ o = ub.offset /\ e <= End(ub)
  BY OutNode
<1>2. s = then /\ t = q /\ p = After(o, n) BY <1>1
<1> QED BY <1>1, <1>2

\* A value is written: the client has it in its run, the agent in its form.
LEMMA ValueWritten ==
  ASSUME IInv, Writing, NEW n \in DataSizes, NEW value, NEW fits, NEW then,
         Put(n, value, fits, then),
         Node.k \in {"bytes", "list"} => value \in Nat,
         Node.k = "opt" => value \in Flags,
         call.dir = "out" =>
           \A o, s, t, p : Steps(Node, script, o, s, t, p) =>
             s = then /\ t = script' /\ p = After(o, n),
         call.dir = "in" => Form(then \o Tail(todo)) \/ TooLong(then \o Tail(todo))
  PROVE  IInv'
<1>1. Phased' /\ BufferWell' /\ WrittenWell' /\ GotWell' BY PutKeeps
<1>2. /\ ub' = Value(ub, n) /\ call' = call /\ phase' = phase /\ todo' = then \o Tail(todo)
  BY DEF Put
<1>3. OutWell'
  <2>1. CASE call.dir = "out"
    <3> DEFINE f == then \o Tail(todo)
               q == script'
    <3>1. PICK o, e : /\ o \in Nat /\ e \in Nat /\ After(o, n) <= e
                      /\ Run(f, q, After(o, n), e)
                      /\ Fitting => Snug(ub) /\ o = ub.offset /\ e <= End(ub)
      BY <2>1, OutMove
    <3>2. Run(todo', script', After(o, n), e) BY <1>2, <3>1
    <3> QED BY <1>2, <2>1, <3>1, <3>2, OutValue
  <2>2. CASE call.dir # "out" BY <1>2, <2>2 DEF OutWell
  <2> QED BY <2>1, <2>2
<1>4. InWell'
  <2>1. phase' # "read" BY <1>2 DEF Writing
  <2> QED BY <1>2, <2>1 DEF InWell
<1> QED BY <1>1, <1>3, <1>4 DEF IInv

\* A form of the agent goes on.
LEMMA InForm ==
  ASSUME IInv, Writing, call.dir = "in", Node.k # "raw"
  PROVE  Form(todo) /\ todo # <<>>
BY WhoWrites DEF TooLong, LongRaw, Node

LEMMA PutIntKeeps == ASSUME IInv, PutInt PROVE IInv'
<1>1. /\ Writing /\ Node.k = "int" /\ Put(Node.n, 0, TRUE, <<>>) /\ script' = script
  BY DEF PutInt
<1>2. Node.n \in DataSizes BY <1>1, NodeSizes
<1>3. \A o, s, t, p : Steps(Node, script, o, s, t, p) =>
        s = <<>> /\ t = script' /\ p = After(o, Node.n)
  BY <1>1 DEF Steps
<1>4. call.dir = "in" => Form(<<>> \o Tail(todo))
  <2> SUFFICES ASSUME call.dir = "in" PROVE Form(<<>> \o Tail(todo)) OBVIOUS
  <2>1. Form(todo) /\ todo # <<>> BY <1>1, InForm
  <2> QED BY <2>1, FormStep
<1>5. ~(Node.k \in {"bytes", "list"}) /\ Node.k # "opt" BY <1>1
<1> QED BY <1>1, <1>2, <1>3, <1>4, <1>5, ValueWritten

\* The bytes of a sequence and what comes behind them.
LEMMA ElementsNext ==
  ASSUME NEW g, Form(g), NEW len \in Nat, NEW cap \in Nat
  PROVE  LET f == Elements(len, cap) \o g IN
         /\ len <= cap => Form(f)
         /\ Form(f) \/ TooLong(f)
<1> DEFINE x == [k |-> "raw", n |-> len, cap |-> cap]
<1>1. PICK S : Closed(S) /\ g \in Seq(S) BY DEF Form
<1>2. <<>> \o g = g BY <1>1
<1>3. CASE len = 0 BY <1>2, <1>3 DEF Elements
<1>4. CASE len # 0
  <2>1. Elements(len, cap) = <<x>> BY <1>4 DEF Elements
  <2>2. x.k = "raw" /\ x.n = len /\ x.cap = cap /\ x.n \in Nat \ {0} BY <1>4
  <2> HIDE DEF x
  <2>3. CASE len <= cap
    <3>1. Right(x, {}) BY <2>2, <2>3 DEF Right
    <3>2. Closed({}) BY DEF Closed
    <3>3. Form(<<x>>) BY <3>1, <3>2, NodeForm
    <3>4. Form(<<x>> \o g) BY <3>3, JoinForm
    <3> QED BY <2>1, <3>4
  <2>4. CASE ~(len <= cap)
    <3> DEFINE f == <<x>> \o g
    <3>1. <<x>> \in Seq(S \cup {x}) /\ g \in Seq(S \cup {x})
      <4>1. S \subseteq S \cup {x} /\ x \in S \cup {x} OBVIOUS
      <4> DEFINE T == S \cup {x}
      <4> HIDE DEF T
      <4>2. S \subseteq T /\ x \in T BY <4>1 DEF T
      <4>3. <<x>> \in Seq(T) /\ g \in Seq(T) BY <1>1, <4>2
      <4> QED BY <4>3 DEF T
    <3>2. f # <<>> /\ Head(f) = x /\ Tail(f) = g BY <3>1
    <3> HIDE DEF f
    <3>3. TooLong(f) BY <2>2, <3>2 DEF TooLong, LongRaw
    <3> QED BY <2>1, <2>4, <3>3 DEF f
  <2> QED BY <2>3, <2>4
<1> QED BY <1>3, <1>4

LEMMA PutBytesKeeps == ASSUME IInv, PutBytes PROVE IInv'
<1>1. Writing /\ Node.k = "bytes" /\ ScriptMoves BY DEF PutBytes
<1>2. PICK len \in Options({l \in Lengths : l >= Node.least}) :
        Put(4, len, len <= Node.cap, Elements(len, Node.cap))
  BY DEF PutBytes
<1> DEFINE then == Elements(len, Node.cap)
<1>3. call.dir = "out" => /\ len = Head(script) /\ script' = Tail(script)
  BY <1>1, <1>2 DEF Options, ScriptMoves
<1>4. len \in Nat
  <2>1. CASE call.dir = "out"
    <3>1. PICK o, s, t, p : Steps(Node, script, o, s, t, p) BY <1>1, <2>1, OutNode
    <3> QED BY <1>1, <1>3, <2>1, <3>1 DEF Steps
  <2>2. CASE call.dir # "out" BY <1>2, <2>2, LengthsAssumption DEF Options
  <2> QED BY <2>1, <2>2
<1>5. call.dir = "out" =>
        \A o, s, t, p : Steps(Node, script, o, s, t, p) =>
          s = then /\ t = script' /\ p = After(o, 4)
  BY <1>1, <1>3 DEF Steps
<1>6. call.dir = "in" => Form(then \o Tail(todo)) \/ TooLong(then \o Tail(todo))
  <2> SUFFICES ASSUME call.dir = "in"
               PROVE  Form(then \o Tail(todo)) \/ TooLong(then \o Tail(todo))
    OBVIOUS
  <2>1. Form(todo) /\ todo # <<>> BY <1>1, InForm
  <2>2. Form(Tail(todo)) /\ Node.cap \in Nat BY <1>1, <2>1, FormStep DEF Node
  <2> QED BY <1>4, <2>2, ElementsNext
<1> HIDE DEF then
<1>7. Put(4, len, len <= Node.cap, then) BY <1>2 DEF then
<1>8. Node.k # "opt" /\ 4 \in DataSizes BY <1>1, ArithmeticSizes
<1> QED BY <1>1, <1>4, <1>5, <1>6, <1>7, <1>8, ValueWritten

LEMMA PutOptKeeps == ASSUME IInv, PutOpt PROVE IInv'
<1>1. Writing /\ Node.k = "opt" /\ ScriptMoves BY DEF PutOpt
<1>2. PICK flag \in Options(Flags) : Put(1, flag, TRUE, IF flag = 1 THEN Node.s ELSE <<>>)
  BY DEF PutOpt
<1> DEFINE then == IF flag = 1 THEN Node.s ELSE <<>>
<1>3. call.dir = "out" => /\ flag = Head(script) /\ script' = Tail(script)
  BY <1>1, <1>2 DEF Options, ScriptMoves
<1>4. flag \in Flags
  <2>1. CASE call.dir = "out"
    <3>1. PICK o, s, t, p : Steps(Node, script, o, s, t, p) BY <1>1, <2>1, OutNode
    <3> QED BY <1>1, <1>3, <2>1, <3>1 DEF Steps
  <2>2. CASE call.dir # "out" BY <1>2, <2>2 DEF Options
  <2> QED BY <2>1, <2>2
<1>5. call.dir = "out" =>
        \A o, s, t, p : Steps(Node, script, o, s, t, p) =>
          s = then /\ t = script' /\ p = After(o, 1)
  BY <1>1, <1>3 DEF Steps
<1>6. call.dir = "in" => Form(then \o Tail(todo))
  <2> SUFFICES ASSUME call.dir = "in" PROVE Form(then \o Tail(todo)) OBVIOUS
  <2>1. Form(todo) /\ todo # <<>> BY <1>1, InForm
  <2>2. Form(Node.s \o Tail(todo)) /\ Form(<<>> \o Tail(todo))
    BY <1>1, <2>1, FormStep DEF Node
  <2> QED BY <2>2
<1> HIDE DEF then
<1>7. Put(1, flag, TRUE, then) BY <1>2 DEF then
<1>8. ~(Node.k \in {"bytes", "list"}) /\ 1 \in DataSizes BY <1>1, ArithmeticSizes
<1> QED BY <1>1, <1>4, <1>5, <1>6, <1>7, <1>8, ValueWritten

LEMMA PutTagKeeps == ASSUME IInv, PutTag PROVE IInv'
<1>1. Writing /\ Node.k = "tag" /\ ScriptMoves BY DEF PutTag
<1>2. PICK tag \in Options(DOMAIN Node.alt) : Put(Node.n, tag, TRUE, Node.alt[tag])
  BY DEF PutTag
<1> DEFINE then == Node.alt[tag]
<1>3. call.dir = "out" => /\ tag = Head(script) /\ script' = Tail(script)
  BY <1>1, <1>2 DEF Options, ScriptMoves
<1>4. Node.n \in DataSizes BY <1>1, NodeSizes
<1>5. call.dir = "out" =>
        \A o, s, t, p : Steps(Node, script, o, s, t, p) =>
          s = then /\ t = script' /\ p = After(o, Node.n)
  BY <1>1, <1>3 DEF Steps
<1>6. call.dir = "in" => Form(then \o Tail(todo))
  <2> SUFFICES ASSUME call.dir = "in" PROVE Form(then \o Tail(todo)) OBVIOUS
  <2>1. Form(todo) /\ todo # <<>> BY <1>1, InForm
  <2>2. tag \in DOMAIN Node.alt BY <1>2 DEF Options
  <2> QED BY <1>1, <2>1, <2>2, FormStep DEF Node
<1> HIDE DEF then
<1>7. Put(Node.n, tag, TRUE, then) BY <1>2 DEF then
<1>8. ~(Node.k \in {"bytes", "list"}) /\ Node.k # "opt" BY <1>1
<1> QED BY <1>1, <1>4, <1>5, <1>6, <1>7, <1>8, ValueWritten

\* The client writes no list: only the agent does.
LEMMA PutListKeeps == ASSUME IInv, PutList PROVE IInv'
<1>1. Writing /\ Node.k = "list" /\ ScriptMoves BY DEF PutList
<1>2. PICK count \in Options(0..(Node.cap + 1)) :
        Put(4, count, count <= Node.cap, Repeated(Node.s, count))
  BY DEF PutList
<1> DEFINE then == Repeated(Node.s, count)
<1>3. call.dir = "in"
  <2>1. CASE call.dir = "out"
    <3>1. PICK o, s, t, p : Steps(Node, script, o, s, t, p) BY <1>1, <2>1, OutNode
    <3> QED BY <1>1, <3>1 DEF Steps
  <2> QED BY <1>1, <2>1, WhoWrites
<1>4. Form(todo) /\ todo # <<>> BY <1>1, <1>3, InForm
<1>5. Node.cap \in Nat /\ \A c \in Nat : Form(Repeated(Node.s, c) \o Tail(todo))
  BY <1>1, <1>4, FormStep DEF Node
<1>6. count \in Nat
  <2>1. count \in 0..(Node.cap + 1) BY <1>2, <1>3 DEF Options
  <2> QED BY <1>5, <2>1
<1>7. Form(then \o Tail(todo)) BY <1>5, <1>6
<1> HIDE DEF then
<1>8. Put(4, count, count <= Node.cap, then) BY <1>2 DEF then
<1>9. Node.k # "opt" /\ 4 \in DataSizes /\ call.dir # "out" BY <1>1, <1>3, ArithmeticSizes
<1> QED BY <1>1, <1>6, <1>7, <1>8, <1>9, ValueWritten

LEMMA PutRawKeeps == ASSUME IInv, PutRaw PROVE IInv'
<1> DEFINE n == Node.n
           b == Array(ub, n, 1)
           w == RawItem(ub, n)
           g == Tail(todo)
<1>1. /\ Writing /\ Node.k \in {"raw", "data"}
      /\ written' = IF b.error THEN written ELSE Append(written, w)
      /\ ub' = b /\ todo' = g
      /\ phase' = phase /\ call' = call /\ script' = script /\ got' = got /\ ok' = ok
      /\ foreign' = foreign
  BY DEF PutRaw
<1>2. n \in Nat /\ (call.dir = "in" => Form(g))
  <2>1. CASE call.dir = "out"
    <3>1. PICK o, s, t, p : Steps(Node, script, o, s, t, p) BY <1>1, <2>1, OutNode
    <3> QED BY <1>1, <2>1, <3>1 DEF Steps
  <2>2. CASE call.dir = "in"
    <3>1. (Form(todo) \/ TooLong(todo)) /\ todo # <<>> BY <1>1, <2>2, WhoWrites
    <3>2. CASE Form(todo) BY <1>1, <3>1, <3>2, FormStep DEF Node
    <3>3. CASE TooLong(todo) BY <3>3 DEF TooLong, LongRaw, Node
    <3> QED BY <3>1, <3>2, <3>3
  <2> QED BY <1>1, <2>1, <2>2, WhoWrites
<1>3. Regular(ub) /\ Sound(ub) BY DEF IInv, BufferWell
<1> HIDE DEF n
<1>4. Regular(b) /\ Sound(b) BY <1>2, <1>3, ArrayAligned, ArithmeticSizes
<1>5. b.error \in BOOLEAN /\ ub.offset \in Nat BY <1>3, <1>4, SlotType
<1>6. Entry(w) BY <1>5, ArithmeticSizes DEF Entry, RawItem
<1> HIDE DEF b, w, g
<1>7. Phased' BY <1>1 DEF IInv, Phased
<1>8. BufferWell' BY <1>1, <1>4 DEF BufferWell
<1>9. WrittenWell' /\ GotWell' BY <1>1, <1>5, <1>6, WrittenNext DEF IInv
<1>10. OutWell'
  <2>1. CASE call.dir = "out"
    <3>1. PICK o, e, s, t, p :
             /\ o \in Nat /\ e \in Nat /\ p \in Nat /\ p <= e
             /\ Steps(Node, script, o, s, t, p) /\ Run(s \o Tail(todo), t, p, e)
             /\ Fitting => Snug(ub) /\ o = ub.offset /\ e <= End(ub)
      BY <1>1, <2>1, OutNode
    <3>2. s = <<>> /\ t = script /\ p = o + n BY <1>1, <3>1 DEF Steps, n
    <3>3. todo # <<>> /\ \E S : todo \in Seq(S)
      <4>1. todo # <<>> BY <1>1 DEF Writing
      <4>2. \E x, y : Run(todo, script, x, y) BY <1>1, <2>1 DEF IInv, OutWell, Writing
      <4> QED BY <4>1, <4>2, RunTypes
    <3>4. s \o Tail(todo) = g BY <3>2, <3>3 DEF g
    <3>5. Run(todo', script', p, e) BY <1>1, <3>1, <3>2, <3>4
    <3>6. ASSUME Fitting PROVE Snug(ub') /\ p = ub'.offset /\ e <= End(ub')
      <4>1. Snug(ub) /\ o = ub.offset /\ e <= End(ub) BY <3>1, <3>6
      <4>2. End(ub) \in Nat BY <4>1, SnugFacts
      <4>3. ub.offset + n <= End(ub) BY <3>1, <3>2, <4>1, <4>2
      <4>4. Snug(b) /\ b.ends = ub.ends /\ b.offset = ub.offset + n
        BY <1>2, <4>1, <4>3, SnugArray DEF b
      <4> QED BY <1>1, <3>2, <4>1, <4>4 DEF End
    <3> QED BY <1>1, <2>1, <3>5, <3>6, OutNext
  <2>2. CASE call.dir # "out" BY <1>1, <2>2 DEF OutWell
  <2> QED BY <2>1, <2>2
<1>11. InWell'
  <2>1. phase' # "read" BY <1>1 DEF Writing
  <2> QED BY <1>1, <1>2, <2>1 DEF InWell
<1> QED BY <1>7, <1>8, <1>9, <1>10, <1>11 DEF IInv

-----------------------------------------------------------------------------
(* Nodes of both sides, and the end of the writing.                        *)

\* What is left when a node comes up, for who may come to it.
LEMMA AtNode ==
  ASSUME IInv, phase \in {"blob", "write", "read"}, todo # <<>>
  PROVE  /\ call.dir = "out" \/ call.dir = "in"
         /\ call.dir = "out" => Writing
         /\ call.dir = "in" /\ Node.k # "raw" => Form(todo)
         /\ call.dir = "in" => Form(todo) \/ TooLong(todo)
<1>1. /\ call.dir = "out" \/ call.dir = "in"
      /\ call.dir = "out" => phase # "read"
      /\ call.dir = "in" => phase # "blob"
  BY DEF IInv, Phased
<1>2. call.dir = "in" => Form(todo) \/ TooLong(todo) BY <1>1 DEF IInv, InWell
<1>3. TooLong(todo) => Node.k = "raw" BY DEF TooLong, LongRaw, Node
<1> QED BY <1>1, <1>2, <1>3 DEF Writing

LEMMA NothingWritten ==
  ASSUME IInv, written' = written, got' = got
  PROVE  WrittenWell' /\ GotWell'
BY DEF IInv, WrittenWell, GotWell

LEMMA SkipOtherKeeps == ASSUME IInv, SkipOther PROVE IInv'
<1> DEFINE then == IF Node.dir = call.dir THEN Node.s ELSE <<>>
<1>1. /\ phase \in {"blob", "write", "read"} /\ todo # <<>> /\ Node.k = "only"
      /\ todo' = then \o Tail(todo)
      /\ phase' = phase /\ call' = call /\ ub' = ub /\ script' = script
      /\ written' = written /\ got' = got /\ ok' = ok /\ foreign' = foreign
  BY DEF SkipOther
<1>2. Phased' BY <1>1 DEF IInv, Phased
<1>3. BufferWell' BY <1>1 DEF IInv, BufferWell
<1>4. WrittenWell' /\ GotWell' BY <1>1, NothingWritten
<1>5. CASE call.dir = "out"
  <2>1. Writing BY <1>1, <1>5, AtNode
  <2>2. PICK o, e, s, t, p :
           /\ o \in Nat /\ e \in Nat /\ p \in Nat /\ p <= e
           /\ Steps(Node, script, o, s, t, p) /\ Run(s \o Tail(todo), t, p, e)
           /\ Fitting => Snug(ub) /\ o = ub.offset /\ e <= End(ub)
    BY <1>5, <2>1, OutNode
  <2>3. s = then /\ t = script /\ p = o BY <1>1, <1>5, <2>2 DEF Steps
  <2> HIDE DEF then
  <2>4. Run(todo', script', p, e) BY <1>1, <2>2, <2>3
  <2>5. OutWell' BY <1>1, <1>5, <2>2, <2>3, <2>4, OutNext
  <2>6. InWell' BY <1>1, <1>5 DEF InWell
  <2> QED BY <1>2, <1>3, <1>4, <2>5, <2>6 DEF IInv
<1>6. CASE call.dir = "in"
  <2>1. Form(todo) BY <1>1, <1>6, AtNode
  <2>2. Form(Node.s \o Tail(todo)) /\ Form(<<>> \o Tail(todo))
    BY <1>1, <2>1, FormStep DEF Node
  <2>3. Form(todo') BY <1>1, <2>2
  <2>4. InWell' BY <2>3 DEF InWell
  <2>5. OutWell' BY <1>1, <1>6 DEF OutWell
  <2> QED BY <1>2, <1>3, <1>4, <2>4, <2>5 DEF IInv
<1> QED BY <1>1, <1>5, <1>6, AtNode

\* The client's messages have neither kind of node.
LEMMA AlignOrRebaseKeeps == ASSUME IInv, AlignOrRebase PROVE IInv'
<1>1. /\ phase \in {"blob", "write", "read"} /\ todo # <<>> /\ Node.k \in {"align", "rebase"}
      /\ ub' = IF Node.k = "align" THEN AlignTo(ub, Node.n) ELSE RebasedBuffer(ub)
      /\ todo' = Tail(todo)
      /\ phase' = phase /\ call' = call /\ script' = script
      /\ written' = written /\ got' = got /\ ok' = ok
      /\ foreign' = (foreign /\ Node.k = "align")
  BY DEF AlignOrRebase
<1>2. call.dir = "in"
  <2>1. CASE call.dir = "out"
    <3>1. Writing BY <1>1, <2>1, AtNode
    <3>2. PICK o, s, t, p : Steps(Node, script, o, s, t, p) BY <2>1, <3>1, OutNode
    <3> QED BY <1>1, <3>2 DEF Steps
  <2> QED BY <1>1, <2>1, AtNode
<1>3. Form(todo) BY <1>1, <1>2, AtNode
<1>4. Form(Tail(todo)) /\ (Node.k = "align" => Node.n \in DataSizes)
  BY <1>1, <1>3, FormStep DEF Node
<1>5. BufferWell'
  <2>1. Regular(ub) /\ Sound(ub) BY DEF IInv, BufferWell
  <2>2. CASE Node.k = "align"
    <3>1. ub' = AlignTo(ub, Node.n) /\ Node.n \in DataSizes BY <1>1, <1>4, <2>2
    <3> QED BY <2>1, <3>1, KeptRegular, AlignmentKept DEF BufferWell
  <2>3. CASE Node.k = "rebase"
    <3>1. ub' = RebasedBuffer(ub) BY <1>1, <2>3
    <3> QED BY <2>1, <3>1, KeptRegular, AlignmentKept, ArithmeticSizes DEF BufferWell
  <2> QED BY <1>1, <2>2, <2>3
<1>6. Phased'
  <2>1. foreign' \in BOOLEAN BY <1>1
  <2> QED BY <1>1, <2>1 DEF IInv, Phased
<1>7. WrittenWell' /\ GotWell' BY <1>1, NothingWritten
<1>8. OutWell' BY <1>1, <1>2 DEF OutWell
<1>9. InWell' BY <1>1, <1>4 DEF InWell
<1> QED BY <1>5, <1>6, <1>7, <1>8, <1>9 DEF IInv

\* Nor do they change the order.
LEMMA SetOrderKeeps == ASSUME IInv, SetOrder PROVE IInv'
<1>1. /\ phase \in {"blob", "write", "read"} /\ todo # <<>> /\ Node.k = "endian"
      /\ foreign' = Node.other /\ todo' = Tail(todo)
      /\ phase' = phase /\ call' = call /\ ub' = ub /\ script' = script
      /\ written' = written /\ got' = got /\ ok' = ok
  BY DEF SetOrder
<1>2. call.dir = "in"
  <2>1. CASE call.dir = "out"
    <3>1. Writing BY <1>1, <2>1, AtNode
    <3>2. PICK o, s, t, p : Steps(Node, script, o, s, t, p) BY <2>1, <3>1, OutNode
    <3> QED BY <1>1, <3>2 DEF Steps
  <2> QED BY <1>1, <2>1, AtNode
<1>3. Form(todo) BY <1>1, <1>2, AtNode
<1>4. Form(Tail(todo)) /\ Node.other \in BOOLEAN BY <1>1, <1>3, FormStep DEF Node
<1>5. BufferWell' BY <1>1 DEF IInv, BufferWell
<1>6. Phased' BY <1>1, <1>4 DEF IInv, Phased
<1>7. WrittenWell' /\ GotWell' BY <1>1, NothingWritten
<1>8. OutWell' BY <1>1, <1>2 DEF OutWell
<1>9. InWell' BY <1>1, <1>4 DEF InWell
<1> QED BY <1>5, <1>6, <1>7, <1>8, <1>9 DEF IInv

LEMMA EndWritingKeeps == ASSUME IInv, EndWriting PROVE IInv'
<1>1. /\ phase = "write" /\ call' = call /\ script' = script
      /\ written' = written /\ got' = got /\ ok' = ok
  BY DEF EndWriting
<1>2. WrittenWell' /\ GotWell' BY <1>1, NothingWritten
<1>3. CASE call.dir = "out" /\ phase' = "done" /\ UNCHANGED <<ub, foreign, todo>>
  <2>1. Phased' BY <1>1, <1>3 DEF IInv, Phased
  <2>2. BufferWell' BY <1>3 DEF IInv, BufferWell
  <2>3. OutWell' BY <1>1, <1>3 DEF IInv, OutWell
  <2>4. InWell' BY <1>1, <1>3 DEF InWell
  <2> QED BY <1>2, <2>1, <2>2, <2>3, <2>4 DEF IInv
<1>4. CASE /\ call.dir = "in" /\ ~ub.error /\ ub.slot \in DOMAIN ub.ends
           /\ phase' = "read" /\ foreign' = FALSE /\ todo' = ReceivedForms[call.name]
           /\ ub' = IF ub.full = "none"
                    THEN InitBuffer(<<ub.at>>, 4, "none")
                    ELSE InitBuffer(ArrivedEnds(ub), 0, "in")
  <2>1. Phased' BY <1>1, <1>4 DEF IInv, Phased
  <2>2. BufferWell'
    <3>1. Regular(ub) BY DEF IInv, BufferWell
    <3>2. ub.at \in Nat BY <3>1, SlotType
    <3>3. CASE ub.full = "none"
      <4>1. ub' = InitBuffer(<<ub.at>>, 4, "none") BY <1>4, <3>3
      <4> QED BY <3>2, <4>1, OneSlotRegular DEF BufferWell
    <3>4. CASE ub.full # "none"
      <4> DEFINE ends == ArrivedEnds(ub)
      <4>1. ub' = InitBuffer(ends, 0, "in") BY <1>4, <3>4
      <4>2. /\ ends \in Seq(Nat) /\ ends # <<>>
            /\ \A i, j \in DOMAIN ends : i <= j => ends[i] <= ends[j]
        BY <1>4, <3>1, ArrivedRegular
      <4> HIDE DEF ends
      <4> QED BY <4>1, <4>2, InitRegular DEF BufferWell
    <3> QED BY <3>3, <3>4
  <2>3. OutWell' BY <1>1, <1>4 DEF OutWell
  <2>4. call.name \in DOMAIN ReceivedForms BY <1>4 DEF IInv, Phased
  <2>5. InWell' BY <1>4, <2>4, ReceivedForm DEF InWell
  <2> QED BY <1>2, <2>1, <2>2, <2>3, <2>5 DEF IInv
<1> QED BY <1>3, <1>4 DEF EndWriting

-----------------------------------------------------------------------------
(* Reading.                                                                *)

\* The reader is the client, and knows what is written at a place, or that nothing is.
LEMMA AtRead ==
  ASSUME IInv, Reading
  PROVE  /\ call.dir = "in" /\ phase = "read" /\ todo # <<>>
         /\ Node.k # "raw" => Form(todo)
         /\ Form(todo) \/ (TooLong(todo) /\ ub.error)
         /\ Regular(ub) /\ Sound(ub)
<1>1. phase = "read" /\ todo # <<>> BY DEF Reading
<1>2. call.dir = "in" BY <1>1 DEF IInv, Phased
<1>3. Form(todo) \/ (TooLong(todo) /\ ub.error) BY <1>1, <1>2 DEF IInv, InWell
<1>4. Node.k # "raw" => Form(todo) BY <1>1, <1>2, AtNode
<1> QED BY <1>1, <1>2, <1>3, <1>4 DEF IInv, BufferWell

LEMMA FoundWritten ==
  ASSUME IInv, NEW places, NEW other
  PROVE  /\ Found(places, other) \in 0..Len(written)
         /\ Found(places, other) # 0 => Found(places, other) \in DOMAIN written
<1>1. PICK S : written \in Seq(S) BY DEF IInv, WrittenWell
<1> DEFINE L == Len(written)
           those == {i \in DOMAIN written : written[i].places = places /\ written[i].foreign = other}
<1>2. L \in Nat /\ DOMAIN written = 1..L BY <1>1
<1> HIDE DEF L
<1>3. CASE those = {}
  <2>1. Found(places, other) = 0 BY <1>3 DEF Found
  <2> QED BY <1>2, <2>1 DEF L
<1>4. CASE those # {}
  <2>1. Found(places, other) = CHOOSE i \in those : TRUE BY <1>4 DEF Found
  <2>2. Found(places, other) \in those BY <1>4, <2>1
  <2>3. Found(places, other) \in DOMAIN written BY <2>2
  <2> QED BY <1>2, <2>3 DEF L
<1> QED BY <1>3, <1>4

\* The value of a node, as far as its reader needs to know.
LEMMA ValueRead ==
  ASSUME IInv, NEW n, NEW all, NEW value \in ReadValues(n, all)
  PROVE  Node.k \in {"bytes", "list"} /\ all \subseteq Nat => value \in Nat
<1> DEFINE i == Found(LooksAt(n), AsForeign(n))
<1>1. i # 0 => i \in DOMAIN written BY FoundWritten
<1>2. value \in all \/ (i # 0 /\ written[i].k = Node.k /\ value = written[i].v)
  BY DEF ReadValues
<1> HIDE DEF i
<1>3. \A j \in DOMAIN written : Entry(written[j]) BY DEF IInv, WrittenWell
<1> QED BY <1>1, <1>2, <1>3 DEF Entry

\* What is read joins what has been read.
LEMMA GotNext ==
  ASSUME IInv, written' = written, NEW g, NEW c \in BOOLEAN,
         got' = IF c THEN got ELSE Append(got, g), ~c => Kept(g, Len(written))
  PROVE  WrittenWell' /\ GotWell'
<1>1. WrittenWell' BY DEF IInv, WrittenWell
<1>2. PICK S : got \in Seq(S) BY DEF IInv, GotWell
<1>3. \A i \in DOMAIN got : Kept(got[i], Len(written)) BY DEF IInv, GotWell
<1>4. CASE c
  <2>1. got' = got BY <1>4
  <2> QED BY <1>1, <1>2, <1>3, <2>1 DEF GotWell
<1>5. CASE ~c
  <2>1. got' = Append(got, g) BY <1>5
  <2> DEFINE T == S \cup {g}
             L == Len(got)
  <2>2. got \in Seq(T) /\ g \in T
    <3>1. S \subseteq T /\ g \in T OBVIOUS
    <3> HIDE DEF T
    <3>2. Seq(S) \subseteq Seq(T) BY <3>1
    <3> QED BY <1>2, <3>1, <3>2
  <2> HIDE DEF T
  <2>3. /\ got' \in Seq(T) /\ L \in Nat
        /\ DOMAIN got = 1..L /\ DOMAIN got' = 1..(L + 1)
        /\ \A i \in 1..L : got'[i] = got[i]
        /\ got'[L + 1] = g
    BY <2>1, <2>2
  <2> HIDE DEF L
  <2>4. \A i \in DOMAIN got' : Kept(got'[i], Len(written))
    <3> TAKE i \in DOMAIN got'
    <3>1. CASE i \in 1..L BY <1>3, <2>3, <3>1
    <3>2. CASE i = L + 1 BY <1>5, <2>3, <3>2
    <3> QED BY <2>3, <3>1, <3>2
  <2> QED BY <1>1, <2>3, <2>4 DEF GotWell
<1> QED BY <1>4, <1>5

\* A slot that is left takes the order with it.
LEMMA OrderKept == ASSUME IInv, NEW b PROVE StillForeign(b) \in BOOLEAN
<1>1. foreign \in BOOLEAN BY DEF IInv, Phased
<1> QED BY <1>1 DEF StillForeign

\* A value is read, and the buffer goes on as b.
LEMMA ValueKeeps ==
  ASSUME IInv, Reading, NEW n \in DataSizes, NEW b, NEW then, Get(n, b, then),
         Regular(b) /\ Sound(b),
         Form(then \o Tail(todo)) \/ (TooLong(then \o Tail(todo)) /\ b.error)
  PROVE  IInv'
<1> DEFINE places == LooksAt(n)
           other == AsForeign(n)
           g == Taken(places, n, other)
           c == Value(ub, n).error
<1>1. call.dir = "in" /\ phase = "read" /\ Regular(ub) /\ Sound(ub) BY AtRead
<1>2. c \in BOOLEAN
  <2>1. Regular(Value(ub, n)) BY <1>1, ValueAligned
  <2> QED BY <2>1, SlotType
<1>3. ~c => Kept(g, Len(written))
  <2> SUFFICES ASSUME ~c PROVE Kept(g, Len(written)) OBVIOUS
  <2>1. Len(places) = n BY <1>1, PlacesCounted DEF LooksAt
  <2>2. n \in Nat
    <3>1. n = 1 \/ n = 2 \/ n = 4 \/ n = 8 BY Sizes
    <3> QED BY <3>1
  <2> HIDE DEF places, other
  <2>3. Found(places, other) \in 0..Len(written) BY FoundWritten
  <2> QED BY <2>1, <2>2, <2>3 DEF Kept, Taken
<1>4. /\ got' = IF c THEN got ELSE Append(got, g)
      /\ ub' = b /\ foreign' = StillForeign(b) /\ ok' = (ok /\ ~b.error)
      /\ todo' = then \o Tail(todo)
      /\ phase' = phase /\ call' = call /\ written' = written
  BY DEF Get
<1> HIDE DEF c, g
<1>5. WrittenWell' /\ GotWell' BY <1>2, <1>3, <1>4, GotNext
<1>6. Phased'
  <2>1. ok' \in BOOLEAN BY <1>4
  <2>2. foreign' \in BOOLEAN BY <1>4, OrderKept
  <2> QED BY <1>1, <1>4, <2>1, <2>2 DEF IInv, Phased
<1>7. BufferWell' BY <1>4 DEF BufferWell
<1>8. OutWell' BY <1>1, <1>4 DEF OutWell
<1>9. InWell' BY <1>4 DEF InWell
<1> QED BY <1>5, <1>6, <1>7, <1>8, <1>9 DEF IInv

LEMMA GetKeeps ==
  ASSUME IInv, Reading, NEW n \in DataSizes, NEW then, Get(n, Value(ub, n), then),
         Form(then \o Tail(todo))
  PROVE  IInv'
<1> DEFINE b == Value(ub, n)
<1>1. Regular(b) /\ Sound(b) BY AtRead, ValueAligned
<1>2. Get(n, b, then) OBVIOUS
<1> HIDE DEF b
<1> QED BY <1>1, <1>2, ValueKeeps

LEMMA GetIntKeeps == ASSUME IInv, GetInt PROVE IInv'
<1>1. Reading /\ Node.k = "int" /\ Get(Node.n, Value(ub, Node.n), <<>>) BY DEF GetInt
<1>2. Form(todo) /\ todo # <<>> BY <1>1, AtRead
<1>3. Node.n \in DataSizes /\ Form(<<>> \o Tail(todo)) BY <1>1, <1>2, FormStep DEF Node
<1> QED BY <1>1, <1>3, GetKeeps

LEMMA GetOptKeeps == ASSUME IInv, GetOpt PROVE IInv'
<1>1. Reading /\ Node.k = "opt" BY DEF GetOpt
<1>2. PICK flag \in ReadValues(1, Flags) :
        Get(1, Value(ub, 1), IF flag = 1 THEN Node.s ELSE <<>>)
  BY DEF GetOpt
<1> DEFINE then == IF flag = 1 THEN Node.s ELSE <<>>
<1>3. Form(todo) /\ todo # <<>> BY <1>1, AtRead
<1>4. Form(Node.s \o Tail(todo)) /\ Form(<<>> \o Tail(todo)) BY <1>1, <1>3, FormStep DEF Node
<1>5. Form(then \o Tail(todo)) BY <1>4
<1>6. Get(1, Value(ub, 1), then) BY <1>2
<1> HIDE DEF then
<1> QED BY <1>1, <1>5, <1>6, GetKeeps, ArithmeticSizes

LEMMA GetTagKeeps == ASSUME IInv, GetTag PROVE IInv'
<1>1. Reading /\ Node.k = "tag" BY DEF GetTag
<1>2. PICK tag \in ReadValues(Node.n, DOMAIN Node.alt) :
        Get(Node.n, Value(ub, Node.n),
            IF Value(ub, Node.n).error THEN <<>> ELSE Chosen(Node.alt, tag))
  BY DEF GetTag
<1> DEFINE then == IF Value(ub, Node.n).error THEN <<>> ELSE Chosen(Node.alt, tag)
<1>3. Form(todo) /\ todo # <<>> BY <1>1, AtRead
<1>4. /\ Node.n \in DataSizes /\ Form(<<>> \o Tail(todo))
      /\ \A t \in DOMAIN Node.alt : Form(Node.alt[t] \o Tail(todo))
  BY <1>1, <1>3, FormStep DEF Node
<1>5. then = <<>> \/ (tag \in DOMAIN Node.alt /\ then = Node.alt[tag]) BY DEF Chosen, Other
<1>6. Get(Node.n, Value(ub, Node.n), then) BY <1>2
<1> HIDE DEF then
<1>7. Form(then \o Tail(todo)) BY <1>4, <1>5
<1> QED BY <1>1, <1>4, <1>6, <1>7, GetKeeps

\* The header of a sequence leaves a buffer, and an error if it is too long.
LEMMA HeaderKept ==
  ASSUME IInv, Reading, NEW length \in Nat, NEW capacity \in Nat
  PROVE  LET b == SequenceHeader(ub, length, capacity) IN
         Regular(b) /\ Sound(b) /\ (length > capacity => b.error)
<1>1. Regular(ub) /\ Sound(ub) BY AtRead
<1> QED BY <1>1, KeptRegular, AlignmentKept, ArithmeticSizes

LEMMA GetListKeeps == ASSUME IInv, GetList PROVE IInv'
<1>1. Reading /\ Node.k = "list" BY DEF GetList
<1>2. PICK count \in ReadValues(4, {0, Node.cap + 1}) :
        Get(4, SequenceHeader(ub, count, Node.cap),
            IF ListFits(count, Node.cap) THEN Repeated(Node.s, count) ELSE <<>>)
  BY DEF GetList
<1> DEFINE then == IF ListFits(count, Node.cap) THEN Repeated(Node.s, count) ELSE <<>>
           b == SequenceHeader(ub, count, Node.cap)
<1>3. Form(todo) /\ todo # <<>> BY <1>1, AtRead
<1>4. /\ Node.cap \in Nat /\ Form(<<>> \o Tail(todo))
      /\ \A c \in Nat : Form(Repeated(Node.s, c) \o Tail(todo))
  BY <1>1, <1>3, FormStep DEF Node
<1>5. count \in Nat
  <2>1. {0, Node.cap + 1} \subseteq Nat BY <1>4
  <2> QED BY <1>1, <1>2, <2>1, ValueRead
<1>6. Form(then \o Tail(todo)) BY <1>4, <1>5
<1>7. Get(4, b, then) BY <1>2
<1>8. Regular(b) /\ Sound(b) BY <1>1, <1>4, <1>5, HeaderKept
<1> HIDE DEF then, b
<1> QED BY <1>1, <1>6, <1>7, <1>8, ValueKeeps, ArithmeticSizes

\* A sequence that is too long leaves the bytes to be read behind an error.
LEMMA GetBytesKeeps == ASSUME IInv, GetBytes PROVE IInv'
<1>1. Reading /\ Node.k = "bytes" BY DEF GetBytes
<1>2. PICK len \in ReadValues(4, {0, Node.cap + 1}) :
        Get(4, SequenceHeader(ub, len, Node.cap), Elements(len, Node.cap))
  BY DEF GetBytes
<1> DEFINE then == Elements(len, Node.cap)
           b == SequenceHeader(ub, len, Node.cap)
<1>3. Form(todo) /\ todo # <<>> BY <1>1, AtRead
<1>4. Node.cap \in Nat /\ Form(Tail(todo)) BY <1>1, <1>3, FormStep DEF Node
<1>5. len \in Nat
  <2>1. {0, Node.cap + 1} \subseteq Nat BY <1>4
  <2> QED BY <1>1, <1>2, <2>1, ValueRead
<1>6. Regular(b) /\ Sound(b) /\ (len > Node.cap => b.error) BY <1>1, <1>4, <1>5, HeaderKept
<1>7. Get(4, b, then) BY <1>2
<1> HIDE DEF b
<1>8. Form(then \o Tail(todo)) \/ (TooLong(then \o Tail(todo)) /\ b.error)
  <2>1. CASE len <= Node.cap BY <1>4, <1>5, <2>1, ElementsNext
  <2>2. CASE ~(len <= Node.cap)
    <3>1. len > Node.cap BY <1>4, <1>5, <2>2
    <3> QED BY <1>4, <1>5, <1>6, <3>1, ElementsNext
  <2> QED BY <2>1, <2>2
<1> HIDE DEF then
<1> QED BY <1>1, <1>6, <1>7, <1>8, ArithmeticSizes, ValueKeeps

\* Bytes are taken, and the buffer goes on as b.
LEMMA GetArrayKeeps ==
  ASSUME IInv, Reading, Node.k \in {"raw", "data"}, NEW b, GetArray(b),
         Node.n \in Nat => Regular(b) /\ Sound(b)
  PROVE  IInv'
<1> DEFINE n == Node.n
           places == ArrayPlaces(ub, n, 1)
           g == Taken(places, Node.cap, FALSE)
<1>1. /\ got' = Append(got, g) /\ ub' = b /\ foreign' = StillForeign(b)
      /\ ok' = (ok /\ ~b.error)
      /\ todo' = Tail(todo)
      /\ phase' = phase /\ call' = call /\ written' = written
  BY DEF GetArray
<1>2. /\ call.dir = "in" /\ phase = "read" /\ todo # <<>> /\ Regular(ub) /\ Sound(ub)
      /\ Form(todo) \/ (TooLong(todo) /\ ub.error)
  BY AtRead
<1>3. /\ n \in Nat /\ Node.cap \in Nat /\ (ub.error \/ n <= Node.cap) /\ Form(Tail(todo))
  <2>1. CASE Form(todo) BY <1>2, <2>1, FormStep DEF Node
  <2>2. CASE TooLong(todo) /\ ub.error BY <2>2 DEF TooLong, LongRaw, Node
  <2> QED BY <1>2, <2>1, <2>2
<1>a. Regular(b) /\ Sound(b) BY <1>3
<1> HIDE DEF n
<1>4. Len(places) \in 0..n /\ (ub.error => Len(places) = 0) BY <1>2, <1>3, PlacesCounted
<1>5. Found(places, FALSE) \in 0..Len(written) BY FoundWritten
<1> HIDE DEF places
<1>6. Len(places) \in Nat /\ Len(places) <= Node.cap BY <1>3, <1>4
<1>7. Kept(g, Len(written)) BY <1>3, <1>5, <1>6 DEF Kept, Taken
<1> HIDE DEF g
<1>8. got' = IF FALSE THEN got ELSE Append(got, g) BY <1>1
<1>9. WrittenWell' /\ GotWell' BY <1>1, <1>7, <1>8, GotNext
<1>10. BufferWell' BY <1>1, <1>a DEF BufferWell
<1>11. ok' \in BOOLEAN /\ foreign' \in BOOLEAN
  <2>1. ok' \in BOOLEAN BY <1>1
  <2>2. foreign' \in BOOLEAN BY <1>1, OrderKept
  <2> QED BY <2>1, <2>2
<1>12. Phased' BY <1>1, <1>2, <1>11 DEF IInv, Phased
<1>13. OutWell' BY <1>1, <1>2 DEF OutWell
<1>14. InWell' BY <1>1, <1>3 DEF InWell
<1> QED BY <1>9, <1>10, <1>12, <1>13, <1>14 DEF IInv

LEMMA GetRawKeeps == ASSUME IInv, GetRaw PROVE IInv'
<1> DEFINE b == Array(ub, Node.n, 1)
<1>1. Reading /\ Node.k = "raw" /\ GetArray(b) BY DEF GetRaw
<1>2. Regular(ub) /\ Sound(ub) BY <1>1, AtRead
<1>3. Node.n \in Nat => Regular(b) /\ Sound(b) BY <1>2, ArrayAligned, ArithmeticSizes
<1> HIDE DEF b
<1> QED BY <1>1, <1>3, GetArrayKeeps

\* A buffer that has jumped is one, if not where its reader takes it to be.
LEMMA JumpedKept ==
  ASSUME Regular(ub), Sound(ub), Node.n \in Nat
  PROVE  LET c == Jumped(ub) IN Regular(c) /\ Sound(c) /\ c.full = ub.full
<1> DEFINE c == Jumped(ub)
           m == ub.at + Node.n
<1>1. c = ub \/ c = [ub EXCEPT !.at = @ + Node.n] BY DEF Jumped
<1> HIDE DEF c
<1>2. CASE c = ub BY <1>2 DEF c
<1>3. CASE c = [ub EXCEPT !.at = @ + Node.n]
  <2>1. ub \in Buffers /\ ub.at \in Nat BY DEF Regular
  <2>2. m \in Nat /\ m \in Int BY <2>1
  <2>3. c = [ub EXCEPT !.at = m] BY <1>3, <2>1 DEF Buffers
  <2> HIDE DEF m
  <2>4. /\ c \in Buffers /\ c.at = m /\ c.ends = ub.ends /\ c.full = ub.full
        /\ c.slot = ub.slot /\ c.error = ub.error /\ c.last = ub.last /\ c.offset = ub.offset
    BY <2>1, <2>2, <2>3 DEF Buffers
  <2>5. Regular(c) /\ Sound(c) BY <2>2, <2>4 DEF Regular, Sound
  <2> QED BY <2>4, <2>5 DEF c
<1> QED BY <1>1, <1>2, <1>3

LEMMA GetDataKeeps == ASSUME IInv, GetData PROVE IInv'
<1> DEFINE c == Jumped(ub)
           b == Array(c, Node.n, 1)
<1>1. Reading /\ Node.k = "data" /\ GetArray(b) BY DEF GetData
<1>2. Regular(ub) /\ Sound(ub) BY <1>1, AtRead
<1>3. Node.n \in Nat => Regular(c) /\ Sound(c) BY <1>2, JumpedKept
<1> HIDE DEF c
<1>4. Node.n \in Nat => Regular(b) /\ Sound(b) BY <1>3, ArrayAligned, ArithmeticSizes
<1> HIDE DEF b
<1> QED BY <1>1, <1>4, GetArrayKeeps

LEMMA EndReadingKeeps == ASSUME IInv, EndReading PROVE IInv'
<1>1. /\ phase = "read" /\ phase' = "done" /\ call' = call /\ ub' = ub /\ ok' = ok
      /\ written' = written /\ got' = got /\ foreign' = foreign
  BY DEF EndReading
<1>2. call.dir = "in" BY <1>1 DEF IInv, Phased
<1>3. WrittenWell' /\ GotWell' BY <1>1, NothingWritten
<1>4. Phased' BY <1>1 DEF IInv, Phased
<1>5. BufferWell' BY <1>1 DEF IInv, BufferWell
<1>6. OutWell' BY <1>1, <1>2 DEF OutWell
<1>7. InWell' BY <1>1 DEF InWell
<1> QED BY <1>3, <1>4, <1>5, <1>6, <1>7 DEF IInv

-----------------------------------------------------------------------------
(* What every message keeps.                                               *)

LEMMA StepHolds == IInv /\ [Next]_vars => IInv'
<1> SUFFICES ASSUME IInv, [Next]_vars PROVE IInv' OBVIOUS
<1>1. CASE BeginBuffered BY <1>1, BeginBufferedKeeps
<1>2. CASE BeginOwnBuffer BY <1>2, BeginOwnBufferKeeps
<1>3. CASE BeginReceived BY <1>3, BeginReceivedKeeps
<1>4. CASE BeginBlob BY <1>4, BeginBlobKeeps
<1>5. CASE EndBlob BY <1>5, EndBlobKeeps
<1>6. CASE PutInt BY <1>6, PutIntKeeps
<1>7. CASE PutRaw BY <1>7, PutRawKeeps
<1>8. CASE PutBytes BY <1>8, PutBytesKeeps
<1>9. CASE PutOpt BY <1>9, PutOptKeeps
<1>10. CASE PutTag BY <1>10, PutTagKeeps
<1>11. CASE PutList BY <1>11, PutListKeeps
<1>12. CASE SkipOther BY <1>12, SkipOtherKeeps
<1>13. CASE AlignOrRebase BY <1>13, AlignOrRebaseKeeps
<1>14. CASE EndWriting BY <1>14, EndWritingKeeps
<1>15. CASE GetInt BY <1>15, GetIntKeeps
<1>16. CASE GetRaw BY <1>16, GetRawKeeps
<1>17. CASE GetBytes BY <1>17, GetBytesKeeps
<1>18. CASE GetOpt BY <1>18, GetOptKeeps
<1>19. CASE GetTag BY <1>19, GetTagKeeps
<1>20. CASE GetList BY <1>20, GetListKeeps
<1>21. CASE EndReading BY <1>21, EndReadingKeeps
<1>23. CASE SetOrder BY <1>23, SetOrderKeeps
<1>24. CASE GetData BY <1>24, GetDataKeeps
<1>22. CASE UNCHANGED vars
  <2>1. /\ phase' = phase /\ call' = call /\ ub' = ub /\ todo' = todo /\ script' = script
        /\ written' = written /\ got' = got /\ ok' = ok /\ foreign' = foreign
    BY <1>22 DEF vars
  <2>2. Phased' BY <2>1 DEF IInv, Phased
  <2>3. BufferWell' BY <2>1 DEF IInv, BufferWell
  <2>4. WrittenWell' /\ GotWell' BY <2>1, NothingWritten
  <2>5. OutWell' BY <2>1 DEF IInv, OutWell
  <2>6. InWell' BY <2>1 DEF IInv, InWell
  <2> QED BY <2>2, <2>3, <2>4, <2>5, <2>6 DEF IInv
<1> QED
  BY <1>1, <1>2, <1>3, <1>4, <1>5, <1>6, <1>7, <1>8, <1>9, <1>10, <1>11, <1>12, <1>13,
     <1>14, <1>15, <1>16, <1>17, <1>18, <1>19, <1>20, <1>21, <1>22, <1>23, <1>24 DEF Next

LEMMA InvariantHolds == Spec => []IInv
BY InitHolds, StepHolds, PTL DEF Spec

\* Whatever is written and read, the buffer stays one (the whole of basic.c, array.c,
\* sequence.c and string.c, called by xrce_types.c).
THEOREM CodecTyped == Spec => []TypeOK
<1>1. IInv => TypeOK
  <2> SUFFICES ASSUME IInv PROVE TypeOK OBVIOUS
  <2>1. phase \in {"idle", "blob", "write", "read", "done"} /\ ok \in BOOLEAN /\ foreign \in BOOLEAN
    BY DEF IInv, Phased
  <2>2. ub \in Buffers /\ ub.at \in Nat BY DEF IInv, BufferWell, Regular
  <2>3. \A i \in DOMAIN written : written[i].n \in DataSizes BY DEF IInv, WrittenWell, Entry
  <2>4. \A i \in DOMAIN got : got[i].item \in 0..Len(written) BY DEF IInv, GotWell, Kept
  <2> QED BY <2>1, <2>2, <2>3, <2>4 DEF TypeOK
<1> QED BY <1>1, InvariantHolds, PTL

\* Every value of every message is written at a multiple of its size, in any stream and
\* however the message is cut into fragments (ucdr_buffer_alignment and its callers).
THEOREM CodecAligned == Spec => []ValuesAligned
<1>1. IInv => ValuesAligned BY DEF IInv, WrittenWell, Entry, ValuesAligned
<1> QED BY <1>1, InvariantHolds, PTL

\* No message of the agent makes the client copy more bytes than the array of a structure
\* has, whatever lengths it announces (ucdr_deserialize_sequence_header, string.c).
THEOREM NeverBeyond == Spec => []NothingBeyondCapacity
<1>1. IInv => NothingBeyondCapacity BY DEF IInv, GotWell, Kept, NothingBeyondCapacity
<1> QED BY <1>1, InvariantHolds, PTL

\* The room the client computes by hand is enough for its message, for every length of the
\* names and representations, in every stream: if the structures written into a
\* representation first fit UXR_BINARY_SEQUENCE_MAX, and the blocks of the slots take the
\* rest of any value that is split (uxr_common_create_entity, write_access.c, session.c).
THEOREM RoomEnough == ASSUME Fitting PROVE Spec => []FitsReservation
<1>1. IInv => FitsReservation
  <2> SUFFICES ASSUME IInv, call.dir = "out"
               PROVE  ~ub.error /\ ub.slot <= Len(ub.ends) /\ ub.at <= SlotSize(ub)
    BY DEF FitsReservation
  <2>1. Snug(ub) BY DEF IInv, OutWell
  <2>2. ub.slot \in 1..Len(ub.ends) /\ Len(ub.ends) \in Nat BY <2>1, SnugFacts
  <2>3. ~ub.error /\ ub.at <= SlotSize(ub) BY <2>1 DEF Snug
  <2> QED BY <2>2, <2>3
<1> QED BY <1>1, InvariantHolds, PTL
-----------------------------------------------------------------------------
(* Reading in step with the writing.  A reader of what has arrived is at   *)
(* the place where the writer was, with the same alignment, value by       *)
(* value: though its last slot is shorter, and its slots are followed one  *)
(* by one by another callback.                                             *)

\* The iterator of b2 is where that of b1 is, or further on: an iterator at the end of its
\* slot goes on in the next one.
NotAfter(b1, b2) ==
  \/ b1.slot < b2.slot
  \/ b1.slot = b2.slot /\ b1.at <= b2.at /\ (b1.at >= SlotSize(b1) => b2.at = b1.at)

\* A place the iterator has gone past.
IsPlace(p) == p[1] \in Nat /\ p[2] \in Int
Passed(p, b) == p[1] < b.slot \/ (p[1] = b.slot /\ p[2] < b.at)

\* A buffer of the agent, and where it may come to its end.
Writer(b) == Regular(b) /\ Sound(b) /\ ~b.error /\ b.full # "in" /\ End(b) <= Wrapped
Known(b) == b.slot \in DOMAIN b.ends
Final(f, b) ==
  /\ Regular(f) /\ Known(f) /\ f.full # "in"
  /\ f.ends = b.ends /\ f.full = b.full /\ NotAfter(b, f)

\* The buffer of the reader where the writer had b, of the message that ends with f.
Arrived(b, f) ==
  [b EXCEPT !.ends = ArrivedEnds(f), !.full = IF f.full = "none" THEN "none" ELSE "in"]

LEMMA SameSize ==
  ASSUME NEW b1, NEW b2, b1.slot = b2.slot, b1.ends = b2.ends
  PROVE  SlotSize(b1) = SlotSize(b2)
BY DEF SlotSize, Begins

LEMMA SameBegins ==
  ASSUME NEW b1, NEW b2, b1.ends = b2.ends
  PROVE  \A slot : Begins(b1, slot) = Begins(b2, slot)
BY DEF Begins

LEMMA NotAfterItself ==
  ASSUME NEW b, Regular(b)
  PROVE  NotAfter(b, b)
<1>1. b.at \in Nat BY SlotType
<1> QED BY <1>1 DEF NotAfter

LEMMA NotAfterTransitive ==
  ASSUME NEW b1, NEW b2, NEW b3, Regular(b1), Regular(b2), Regular(b3), b1.ends = b2.ends,
         NotAfter(b1, b2), NotAfter(b2, b3)
  PROVE  NotAfter(b1, b3)
<1>1. /\ b1.slot \in Nat /\ b2.slot \in Nat /\ b3.slot \in Nat
      /\ b1.at \in Nat /\ b2.at \in Nat /\ b3.at \in Nat
      /\ SlotSize(b1) \in Int /\ SlotSize(b2) \in Int
  BY SlotType
<1>2. b1.slot = b2.slot => SlotSize(b1) = SlotSize(b2) BY SameSize
<1> QED BY <1>1, <1>2 DEF NotAfter

LEMMA PassedStays ==
  ASSUME NEW b1, NEW b2, Regular(b1), Regular(b2), NotAfter(b1, b2),
         NEW p, IsPlace(p), Passed(p, b1)
  PROVE  Passed(p, b2)
<1>1. /\ b1.slot \in Nat /\ b2.slot \in Nat /\ b1.at \in Nat /\ b2.at \in Nat
      /\ p[1] \in Nat /\ p[2] \in Int
  BY SlotType DEF IsPlace
<1> QED BY <1>1 DEF NotAfter, Passed

\* A slot that has bytes up to a position, and the one before it, that has less.
LEMMA SlotBounds ==
  ASSUME NEW buf, Regular(buf), NEW pos \in Nat
  PROVE  LET slot == SlotAt(buf, pos) IN
         /\ slot \in Nat \ {0} /\ slot <= Len(buf.ends) + 1
         /\ slot \in DOMAIN buf.ends => pos <= buf.ends[slot]
         /\ slot # 1 => slot - 1 \in DOMAIN buf.ends /\ buf.ends[slot - 1] < pos
         /\ Begins(buf, slot) \in Nat /\ Begins(buf, slot) <= pos
         /\ \A q \in Nat : q <= pos => SlotAt(buf, q) <= slot
<1> DEFINE slot == SlotAt(buf, pos)
           L == Len(buf.ends)
<1>1. /\ slot \in Nat \ {0} /\ slot <= L + 1
      /\ \A j \in DOMAIN buf.ends : pos <= buf.ends[j] => slot <= j
      /\ \A j \in DOMAIN buf.ends : buf.ends[j] < pos => slot > j
  BY SlotFound
<1>2. /\ L \in Nat \ {0} /\ DOMAIN buf.ends = 1..L
      /\ \A i \in 1..L : buf.ends[i] \in Nat
      /\ \A i \in Nat \ {0} : Begins(buf, i) \in Nat
  BY SlotType
<1>3. Begins(buf, slot) \in Nat /\ Begins(buf, slot) <= pos BY <1>1, <1>2, BeginsBefore
<1>4. ASSUME NEW q \in Nat, q <= pos PROVE SlotAt(buf, q) <= slot
  <2>1. /\ SlotAt(buf, q) \in Nat /\ SlotAt(buf, q) <= L + 1
        /\ \A j \in DOMAIN buf.ends : q <= buf.ends[j] => SlotAt(buf, q) <= j
    BY SlotFound
  <2>2. CASE slot = L + 1 BY <2>1, <2>2
  <2>3. CASE slot # L + 1
    <3>1. slot \in DOMAIN buf.ends BY <1>1, <1>2, <2>3
    <3>2. pos <= buf.ends[slot] BY <1>1, <1>2, <3>1
    <3>3. q <= buf.ends[slot] BY <1>2, <1>4, <3>1, <3>2
    <3> QED BY <2>1, <3>1, <3>3
  <2> QED BY <2>2, <2>3
<1> HIDE DEF slot, L
<1>5. slot \in DOMAIN buf.ends => pos <= buf.ends[slot]
  <2> SUFFICES ASSUME slot \in DOMAIN buf.ends PROVE pos <= buf.ends[slot] OBVIOUS
  <2>1. buf.ends[slot] \in Nat BY <1>2
  <2>2. buf.ends[slot] < pos => slot > slot BY <1>1
  <2>3. ~(slot > slot) BY <1>1
  <2> QED BY <2>1, <2>2, <2>3
<1>6. slot # 1 => slot - 1 \in DOMAIN buf.ends /\ buf.ends[slot - 1] < pos
  <2> SUFFICES ASSUME slot # 1
               PROVE  slot - 1 \in DOMAIN buf.ends /\ buf.ends[slot - 1] < pos
    OBVIOUS
  <2>1. slot - 1 \in 1..L BY <1>1, <1>2
  <2>2. buf.ends[slot - 1] \in Nat BY <1>2, <2>1
  <2>3. pos <= buf.ends[slot - 1] => slot <= slot - 1 BY <1>1, <1>2, <2>1
  <2> QED BY <1>1, <1>2, <2>1, <2>2, <2>3
<1> QED BY <1>1, <1>3, <1>4, <1>5, <1>6 DEF slot, L

\* A slot of the message ends where the next one begins.
LEMMA NextBegins ==
  ASSUME NEW buf, Regular(buf), Known(buf)
  PROVE  /\ Begins(buf, buf.slot + 1) = buf.ends[buf.slot]
         /\ SlotSize(buf) = buf.ends[buf.slot] - Begins(buf, buf.slot)
         /\ buf.ends[buf.slot] \in Nat /\ Begins(buf, buf.slot) \in Nat
         /\ Begins(buf, buf.slot) <= buf.ends[buf.slot]
         /\ buf.slot # 1 => /\ buf.slot - 1 \in DOMAIN buf.ends
                            /\ Begins(buf, buf.slot) = buf.ends[buf.slot - 1]
<1>1. /\ buf.slot \in Nat \ {0} /\ DOMAIN buf.ends = 1..Len(buf.ends) /\ Len(buf.ends) \in Nat
      /\ \A i \in DOMAIN buf.ends : buf.ends[i] \in Nat
      /\ buf.slot \in DOMAIN buf.ends
  BY SlotType DEF Known
<1>2. Begins(buf, buf.slot + 1) = buf.ends[buf.slot]
  <2>1. buf.slot + 1 # 1 /\ (buf.slot + 1) - 1 = buf.slot BY <1>1
  <2> QED BY <1>1, <2>1 DEF Begins
<1>3. SlotSize(buf) = buf.ends[buf.slot] - Begins(buf, buf.slot) BY <1>1 DEF SlotSize
<1>4. buf.slot # 1 => /\ buf.slot - 1 \in DOMAIN buf.ends
                      /\ Begins(buf, buf.slot) = buf.ends[buf.slot - 1]
  BY <1>1 DEF Begins
<1>5. Begins(buf, buf.slot) \in Nat BY <1>1, SlotType
<1>6. Begins(buf, buf.slot) <= buf.ends[buf.slot]
  <2>1. CASE buf.slot = 1 BY <1>1, <2>1 DEF Begins
  <2>2. CASE buf.slot # 1
    <3>1. buf.slot - 1 <= buf.slot BY <1>1
    <3> QED BY <1>1, <1>4, <2>2, <3>1 DEF Regular
  <2> QED BY <2>1, <2>2
<1> QED BY <1>1, <1>2, <1>3, <1>4, <1>5, <1>6

\* Behind the last slot there is no way back.
LEMMA BeyondStays ==
  ASSUME NEW buf, Regular(buf), End(buf) <= Wrapped, ~Known(buf)
  PROVE  Position(buf) >= End(buf) /\ End(buf) \in Nat
<1> DEFINE L == Len(buf.ends)
<1>1. /\ buf.slot \in Nat \ {0} /\ DOMAIN buf.ends = 1..L /\ L \in Nat \ {0}
      /\ \A i \in 1..L : buf.ends[i] \in Nat
      /\ buf.at \in Nat /\ End(buf) = buf.ends[L]
  BY SlotType DEF End
<1> HIDE DEF L
<1>2. buf.slot > L BY <1>1 DEF Known
<1>3. End(buf) \in Nat /\ Wrapped \in Nat BY <1>1 DEF Wrapped
<1>4. Begins(buf, buf.slot) \in Nat /\ Begins(buf, buf.slot) >= End(buf)
  <2>1. buf.slot # 1 BY <1>1, <1>2
  <2>2. CASE buf.slot - 1 \in DOMAIN buf.ends
    <3>1. buf.slot - 1 = L BY <1>1, <1>2, <2>2
    <3> QED BY <1>1, <1>3, <2>1, <2>2, <3>1 DEF Begins
  <2>3. CASE buf.slot - 1 \notin DOMAIN buf.ends
    BY <1>3, <2>1, <2>3 DEF Begins
  <2> QED BY <2>2, <2>3
<1>5. Begins(buf, buf.slot + 1) = Wrapped
  <2>1. buf.slot + 1 # 1 /\ (buf.slot + 1) - 1 = buf.slot BY <1>1
  <2> QED BY <2>1 DEF Begins, Known
<1>6. Position(buf) = Begins(buf, buf.slot) + buf.at \/ Position(buf) = Begins(buf, buf.slot + 1)
  BY DEF Position
<1> QED BY <1>1, <1>3, <1>4, <1>5, <1>6

\* Where bytes come to lie that are moved.
LEMMA MovesOn ==
  ASSUME NEW buf, Regular(buf), End(buf) <= Wrapped, NEW k \in Nat \ {0}
  PROVE  LET pos == Position(buf) + k
             slot == SlotAt(buf, pos)
         IN  /\ pos \in Nat
             /\ slot \in DOMAIN buf.ends => Known(buf)
             /\ Known(buf) /\ buf.at < SlotSize(buf) =>
                  /\ slot >= buf.slot
                  /\ slot = buf.slot => pos - Begins(buf, slot) = buf.at + k
             /\ Known(buf) /\ ~(buf.at < SlotSize(buf)) => slot > buf.slot
<1> DEFINE pos == Position(buf) + k
           slot == SlotAt(buf, pos)
           L == Len(buf.ends)
<1>1. /\ buf.slot \in Nat \ {0} /\ buf.at \in Nat /\ Position(buf) \in Nat
      /\ DOMAIN buf.ends = 1..L /\ L \in Nat \ {0}
      /\ \A i \in 1..L : buf.ends[i] \in Nat
  BY SlotType
<1>2. pos \in Nat BY <1>1
<1>3. /\ slot \in Nat \ {0}
      /\ \A j \in DOMAIN buf.ends : buf.ends[j] < pos => slot > j
  BY <1>2, SlotFound
<1>4. slot \in DOMAIN buf.ends => Known(buf)
  <2> SUFFICES ASSUME ~Known(buf) PROVE slot \notin DOMAIN buf.ends OBVIOUS
  <2>1. Position(buf) >= End(buf) BY BeyondStays
  <2>2. buf.ends[L] < pos /\ L \in DOMAIN buf.ends BY <1>1, <2>1 DEF End
  <2>3. slot > L BY <1>3, <2>2
  <2> HIDE DEF slot, L
  <2> QED BY <1>1, <1>3, <2>3
<1>5. ASSUME Known(buf), buf.at < SlotSize(buf)
      PROVE  slot >= buf.slot /\ (slot = buf.slot => pos - Begins(buf, slot) = buf.at + k)
  <2>1. Position(buf) = Begins(buf, buf.slot) + buf.at BY <1>5 DEF Position
  <2>2. Begins(buf, buf.slot) \in Nat BY <1>1, SlotType
  <2>3. slot >= buf.slot
    <3>1. CASE buf.slot = 1 BY <1>3, <3>1
    <3>2. CASE buf.slot # 1
      <4>1. buf.slot - 1 \in DOMAIN buf.ends /\ Begins(buf, buf.slot) = buf.ends[buf.slot - 1]
        BY <1>5, <3>2, NextBegins
      <4>2. buf.ends[buf.slot - 1] < pos BY <1>1, <2>1, <2>2, <4>1
      <4>3. slot > buf.slot - 1 BY <1>3, <4>1, <4>2
      <4> HIDE DEF slot
      <4> QED BY <1>1, <1>3, <4>3
    <3> QED BY <3>1, <3>2
  <2>4. slot = buf.slot => pos - Begins(buf, slot) = buf.at + k
    <3> SUFFICES ASSUME slot = buf.slot PROVE pos - Begins(buf, buf.slot) = buf.at + k
      OBVIOUS
    <3> QED BY <1>1, <2>1, <2>2
  <2> QED BY <2>3, <2>4
<1>6. ASSUME Known(buf), ~(buf.at < SlotSize(buf)) PROVE slot > buf.slot
  <2>1. Position(buf) = Begins(buf, buf.slot + 1) BY <1>6 DEF Position
  <2>2. buf.ends[buf.slot] \in Nat /\ Begins(buf, buf.slot + 1) = buf.ends[buf.slot]
    BY <1>6, NextBegins
  <2>3. buf.ends[buf.slot] < pos BY <2>1, <2>2
  <2> QED BY <1>3, <1>6, <2>3 DEF Known
<1> QED BY <1>2, <1>4, <1>5, <1>6

-----------------------------------------------------------------------------
(* Moving bytes, by the writer and by the reader.                          *)

\* Bytes that reach a slot of the message were moved from one, and all of them.
LEMMA MovedAlong ==
  ASSUME NEW w, Writer(w), NEW n \in Nat, NEW size \in DataSizes,
         ~Moved(w, n, size).error, Known(Moved(w, n, size))
  PROVE  LET b == Moved(w, n, size)
             pos == Position(w) + n
         IN  /\ Regular(b) /\ b.ends = w.ends /\ b.full = w.full /\ ~b.error
             /\ Known(w) /\ NotAfter(w, b) /\ Available(w, n) = n
             /\ b.offset = w.offset + n /\ b.last = size
             /\ n = 0 => b.slot = w.slot /\ b.at = w.at
             /\ n # 0 => b.slot = SlotAt(w, pos) /\ b.at = pos - Begins(w, b.slot)
<1> DEFINE b == Moved(w, n, size)
           pos == Position(w) + n
           k == Available(w, n)
<1>1. Regular(w) /\ ~w.error /\ End(w) <= Wrapped BY DEF Writer
<1>2. /\ Regular(b) /\ b.ends = w.ends /\ b.full = w.full /\ b.last = size
      /\ b.error = (w.error \/ k < n)
      /\ ~b.error => b.offset = w.offset + n
  BY <1>1, MovedRegular
<1>3. k \in 0..n BY <1>1, AvailableBounds
<1>4. k = n
  <2>1. ~b.error OBVIOUS
  <2> HIDE DEF b, k
  <2>2. b.error = (w.error \/ k < n) BY <1>2
  <2>3. ~(k < n) BY <2>1, <2>2
  <2> QED BY <1>3, <2>3
<1>5. w \in Buffers /\ w.slot \in Nat \ {0} /\ w.at \in Nat /\ SlotSize(w) \in Int
      /\ Position(w) \in Nat
  BY <1>1, SlotType DEF Regular
<1>6. /\ n = 0 => b.slot = w.slot /\ b.at = w.at
      /\ n # 0 => b.slot = SlotAt(w, pos) /\ b.at = pos - Begins(w, b.slot)
  <2>1. b = MovedBy(w, n, size, n, pos) BY <1>4 DEF Moved
  <2> HIDE DEF b, k, pos
  <2> QED BY <1>5, <2>1 DEF MovedBy, Buffers
<1>7. Known(b) /\ ~b.error OBVIOUS
<1> HIDE DEF b, k, pos
<1>8. Known(w) /\ NotAfter(w, b)
  <2>1. CASE n = 0
    <3>1. Known(w) BY <1>2, <1>6, <1>7, <2>1 DEF Known
    <3> QED BY <1>5, <1>6, <2>1, <3>1 DEF NotAfter
  <2>2. CASE n # 0
    <3>1. /\ pos \in Nat
          /\ b.slot \in DOMAIN w.ends => Known(w)
          /\ Known(w) /\ w.at < SlotSize(w) =>
               /\ b.slot >= w.slot
               /\ b.slot = w.slot => pos - Begins(w, b.slot) = w.at + n
          /\ Known(w) /\ ~(w.at < SlotSize(w)) => b.slot > w.slot
      BY <1>1, <1>6, <2>2, MovesOn DEF pos
    <3>2. Known(w) BY <1>2, <1>7, <3>1 DEF Known
    <3>3. b.slot \in Nat /\ b.at \in Nat BY <1>2, SlotType
    <3>4. CASE w.at < SlotSize(w)
      <4>1. b.slot >= w.slot /\ (b.slot = w.slot => b.at = w.at + n)
        BY <1>6, <2>2, <3>1, <3>2, <3>4
      <4> QED BY <1>5, <3>2, <3>3, <3>4, <4>1 DEF NotAfter
    <3>5. CASE ~(w.at < SlotSize(w))
      <4>1. b.slot > w.slot BY <3>1, <3>2, <3>5
      <4> QED BY <1>5, <3>2, <3>3, <4>1 DEF NotAfter
    <3> QED BY <3>4, <3>5
  <2> QED BY <2>1, <2>2
<1> QED BY <1>2, <1>4, <1>6, <1>7, <1>8 DEF b, k, pos

\* The slots of what has arrived.
LEMMA ArrivedFacts ==
  ASSUME NEW w, NEW f, Regular(w), Final(f, w)
  PROVE  LET r == Arrived(w, f) IN
         /\ Regular(r) /\ Known(w)
         /\ r.slot = w.slot /\ r.at = w.at /\ r.offset = w.offset /\ r.last = w.last
         /\ r.error = w.error /\ r.full # "out" /\ (r.full = "none" <=> w.full = "none")
         /\ r.ends = ArrivedEnds(f) /\ Len(r.ends) = f.slot /\ DOMAIN r.ends = 1..f.slot
         /\ w.slot <= f.slot /\ f.slot \in Nat \ {0} /\ f.at \in Nat
         /\ \A s \in 1..f.slot : Begins(r, s) = Begins(w, s)
         /\ \A s \in 1..f.slot : s < f.slot => s \in DOMAIN w.ends /\ r.ends[s] = w.ends[s]
         /\ r.ends[f.slot] = Begins(w, f.slot) + f.at
<1> DEFINE r == Arrived(w, f)
           ends == ArrivedEnds(f)
           full == IF f.full = "none" THEN "none" ELSE "in"
<1>1. /\ Regular(f) /\ Known(f) /\ f.full # "in" /\ f.ends = w.ends /\ f.full = w.full
      /\ NotAfter(w, f)
  BY DEF Final
<1>2. /\ w \in Buffers /\ w.slot \in Nat \ {0} /\ w.at \in Nat /\ f.slot \in Nat \ {0} /\ f.at \in Nat
      /\ DOMAIN w.ends = 1..Len(w.ends) /\ Len(w.ends) \in Nat
      /\ \A s \in Nat \ {0} : Begins(w, s) \in Nat
      /\ \A s \in DOMAIN w.ends : w.ends[s] \in Nat
  BY <1>1, SlotType DEF Regular
<1>3. w.slot <= f.slot BY <1>1, <1>2 DEF NotAfter
<1>4. f.slot \in 1..Len(w.ends) BY <1>1, <1>2 DEF Known
<1>5. Known(w) BY <1>2, <1>3, <1>4 DEF Known
<1>6. ends \in Seq(Nat) /\ ends # <<>>
      /\ \A i, j \in DOMAIN ends : i <= j => ends[i] <= ends[j]
  BY <1>1, ArrivedRegular DEF Known
<1>7. ends = [s \in 1..f.slot |-> IF s < f.slot THEN w.ends[s] ELSE Begins(w, s) + f.at]
  BY <1>1, SameBegins DEF ArrivedEnds
<1>8. Len(ends) = f.slot /\ DOMAIN ends = 1..f.slot
  <2>1. DOMAIN ends = 1..f.slot BY <1>7
  <2> HIDE DEF ends
  <2>2. DOMAIN ends = 1..Len(ends) /\ Len(ends) \in Nat BY <1>6
  <2>3. \A a, b \in Nat : 1..a = 1..b => a = b
    <3> SUFFICES ASSUME NEW a \in Nat, NEW b \in Nat, 1..a = 1..b PROVE a = b OBVIOUS
    <3>1. Cardinality(1..a) = a /\ Cardinality(1..b) = b BY UpTo
    <3> QED BY <3>1
  <2> QED BY <1>2, <2>1, <2>2, <2>3
<1>9. \A s \in 1..f.slot : s < f.slot => s \in DOMAIN w.ends /\ ends[s] = w.ends[s]
  BY <1>2, <1>4, <1>7
<1>10. ends[f.slot] = Begins(w, f.slot) + f.at
  <2>1. f.slot \in 1..f.slot /\ ~(f.slot < f.slot) BY <1>2
  <2> QED BY <1>7, <2>1
<1>11. r = [w EXCEPT !.ends = ends, !.full = full] BY DEF Arrived
<1>12. full \in {"none", "in"} /\ (full = "none" <=> w.full = "none") BY <1>1
<1> HIDE DEF r, ends, full
<1>13. r \in Buffers BY <1>2, <1>6, <1>11, <1>12 DEF Buffers
<1>14. /\ r.slot = w.slot /\ r.at = w.at /\ r.offset = w.offset /\ r.last = w.last
       /\ r.error = w.error /\ r.full = full /\ r.ends = ends
  BY <1>2, <1>11 DEF Buffers
<1>15. w.slot \in 1..f.slot BY <1>2, <1>3
<1>16. Regular(r)
  BY <1>2, <1>6, <1>8, <1>13, <1>14, <1>15 DEF Regular
<1>17. ASSUME NEW s \in 1..f.slot PROVE Begins(r, s) = Begins(w, s)
  <2>1. CASE s = 1 BY <2>1 DEF Begins
  <2>2. CASE s # 1
    <3>1. s - 1 \in 1..f.slot /\ s - 1 < f.slot BY <1>2, <2>2
    <3>2. s - 1 \in DOMAIN w.ends /\ ends[s - 1] = w.ends[s - 1] BY <1>9, <3>1
    <3> QED BY <1>8, <1>14, <2>2, <3>1, <3>2 DEF Begins
  <2> QED BY <2>1, <2>2
<1>18. r.full # "out" /\ (r.full = "none" <=> w.full = "none") BY <1>12, <1>14
<1> QED BY <1>2, <1>3, <1>5, <1>8, <1>9, <1>10, <1>14, <1>16, <1>17, <1>18 DEF r, ends

\* What is left of the slot the reader is in.
LEMMA ArrivedRoom ==
  ASSUME NEW w, NEW f, Regular(w), Final(f, w)
  PROVE  LET r == Arrived(w, f) IN
         /\ w.slot < f.slot => /\ SlotSize(r) = SlotSize(w)
                               /\ BufferRemaining(r) = BufferRemaining(w)
                               /\ Position(r) = Position(w)
         /\ w.slot = f.slot => /\ w.at <= f.at /\ SlotSize(r) = f.at
                               /\ BufferRemaining(r) = f.at - w.at
                               /\ w.at < SlotSize(w) => Position(r) = Position(w)
                               /\ ~(w.at < SlotSize(w)) => w.at = f.at
<1> DEFINE r == Arrived(w, f)
<1>1. /\ Regular(r) /\ Known(w)
      /\ r.slot = w.slot /\ r.at = w.at
      /\ DOMAIN r.ends = 1..f.slot
      /\ f.slot \in Nat \ {0} /\ f.at \in Nat
      /\ \A s \in 1..f.slot : Begins(r, s) = Begins(w, s)
      /\ \A s \in 1..f.slot : s < f.slot => s \in DOMAIN w.ends /\ r.ends[s] = w.ends[s]
      /\ r.ends[f.slot] = Begins(w, f.slot) + f.at
      /\ w.slot <= f.slot
  BY ArrivedFacts
<1> HIDE DEF r
<1>2. /\ w.slot \in Nat \ {0} /\ w.at \in Nat /\ SlotSize(w) \in Int
      /\ \A s \in Nat \ {0} : Begins(w, s) \in Nat
  BY SlotType
<1>3. w.slot \in 1..f.slot /\ Known(r) BY <1>1, <1>2 DEF Known
<1>4. /\ SlotSize(w) = w.ends[w.slot] - Begins(w, w.slot)
      /\ Begins(w, w.slot + 1) = w.ends[w.slot]
      /\ SlotSize(r) = r.ends[r.slot] - Begins(r, r.slot)
      /\ Begins(r, r.slot + 1) = r.ends[r.slot]
      /\ w.ends[w.slot] \in Nat
  BY <1>1, <1>3, NextBegins
<1>5. Begins(r, r.slot) = Begins(w, w.slot) BY <1>1, <1>3
<1>6. ASSUME w.slot < f.slot
      PROVE  /\ SlotSize(r) = SlotSize(w) /\ BufferRemaining(r) = BufferRemaining(w)
             /\ Position(r) = Position(w)
  <2>1. r.ends[r.slot] = w.ends[w.slot] BY <1>1, <1>3, <1>6
  <2>2. SlotSize(r) = SlotSize(w) BY <1>4, <1>5, <2>1
  <2>3. BufferRemaining(r) = BufferRemaining(w) BY <1>1, <2>2 DEF BufferRemaining
  <2>4. Position(r) = Position(w) BY <1>1, <1>4, <1>5, <2>1, <2>2 DEF Position
  <2> QED BY <2>2, <2>3, <2>4
<1>7. ASSUME w.slot = f.slot
      PROVE  /\ w.at <= f.at /\ SlotSize(r) = f.at
             /\ BufferRemaining(r) = f.at - w.at
             /\ w.at < SlotSize(w) => Position(r) = Position(w)
             /\ ~(w.at < SlotSize(w)) => w.at = f.at
  <2>1. w.at <= f.at /\ (w.at >= SlotSize(w) => f.at = w.at)
    BY <1>1, <1>2, <1>7 DEF Final, NotAfter
  <2>2. SlotSize(r) = f.at
    <3>1. Begins(w, w.slot) \in Nat BY <1>2
    <3> QED BY <1>1, <1>4, <1>5, <1>7, <3>1
  <2>3. BufferRemaining(r) = f.at - w.at BY <1>1, <1>2, <2>1, <2>2 DEF BufferRemaining
  <2>4. ASSUME w.at < SlotSize(w) PROVE Position(r) = Position(w)
    <3>1. Position(w) = Begins(w, w.slot) + w.at BY <2>4 DEF Position
    <3>2. CASE r.at < SlotSize(r) BY <1>1, <1>5, <3>1, <3>2 DEF Position
    <3>3. CASE ~(r.at < SlotSize(r))
      <4>1. f.at = w.at BY <1>1, <1>2, <2>1, <2>2, <3>3
      <4>2. Position(r) = r.ends[r.slot] BY <1>4, <3>3 DEF Position
      <4> QED BY <1>1, <1>7, <3>1, <4>1, <4>2
    <3> QED BY <3>2, <3>3
  <2>5. ~(w.at < SlotSize(w)) => w.at = f.at BY <1>2, <2>1
  <2> QED BY <2>1, <2>2, <2>3, <2>4, <2>5
<1> QED BY <1>6, <1>7 DEF r

\* The slot of a position that has arrived.
LEMMA SlotAlike ==
  ASSUME NEW w, NEW f, Regular(w), Final(f, w), NEW pos \in Nat,
         SlotAt(w, pos) <= f.slot, pos <= Begins(w, f.slot) + f.at
  PROVE  LET r == Arrived(w, f) IN
         /\ SlotAt(r, pos) = SlotAt(w, pos)
         /\ Begins(r, SlotAt(r, pos)) = Begins(w, SlotAt(w, pos))
<1> DEFINE r == Arrived(w, f)
           slot == SlotAt(w, pos)
<1>1. /\ Regular(r)
      /\ DOMAIN r.ends = 1..f.slot
      /\ f.slot \in Nat \ {0}
      /\ \A s \in 1..f.slot : Begins(r, s) = Begins(w, s)
      /\ \A s \in 1..f.slot : s < f.slot => s \in DOMAIN w.ends /\ r.ends[s] = w.ends[s]
      /\ r.ends[f.slot] = Begins(w, f.slot) + f.at
  BY ArrivedFacts
<1> HIDE DEF r
<1>2. /\ slot \in Nat \ {0}
      /\ slot \in DOMAIN w.ends => pos <= w.ends[slot]
      /\ slot # 1 => slot - 1 \in DOMAIN w.ends /\ w.ends[slot - 1] < pos
  BY SlotBounds
<1>3. slot \in 1..f.slot BY <1>1, <1>2
<1>4. /\ SlotAt(r, pos) \in Nat \ {0}
      /\ \A j \in DOMAIN r.ends : pos <= r.ends[j] => SlotAt(r, pos) <= j
      /\ \A j \in DOMAIN r.ends : r.ends[j] < pos => SlotAt(r, pos) > j
  BY <1>1, SlotFound
<1> HIDE DEF slot
<1>5. pos <= r.ends[slot]
  <2>1. CASE slot = f.slot BY <1>1, <2>1
  <2>2. CASE slot # f.slot
    <3>1. slot < f.slot BY <1>1, <1>3, <2>2
    <3> QED BY <1>1, <1>2, <1>3, <3>1
  <2> QED BY <2>1, <2>2
<1>6. SlotAt(r, pos) <= slot BY <1>1, <1>3, <1>4, <1>5
<1>7. SlotAt(r, pos) >= slot
  <2>1. CASE slot = 1 BY <1>4, <2>1
  <2>2. CASE slot # 1
    <3>1. slot - 1 \in 1..f.slot /\ slot - 1 < f.slot BY <1>1, <1>3, <2>2
    <3>2. r.ends[slot - 1] < pos BY <1>1, <1>2, <2>2, <3>1
    <3>3. SlotAt(r, pos) > slot - 1 BY <1>1, <1>4, <3>1, <3>2
    <3> QED BY <1>3, <1>4, <3>3
  <2> QED BY <2>1, <2>2
<1>8. SlotAt(r, pos) = slot BY <1>3, <1>4, <1>6, <1>7
<1> QED BY <1>1, <1>3, <1>8 DEF r, slot

\* The message ends behind every buffer the writer had.
LEMMA FinalBefore ==
  ASSUME NEW w, NEW b, NEW f, Regular(w), Regular(b), b.ends = w.ends, b.full = w.full,
         NotAfter(w, b), Final(f, b)
  PROVE  Final(f, w)
<1>1. Regular(f) /\ Known(f) /\ f.full # "in" /\ f.ends = b.ends /\ f.full = b.full /\ NotAfter(b, f)
  BY DEF Final
<1>2. NotAfter(w, f) BY <1>1, NotAfterTransitive
<1> QED BY <1>1, <1>2 DEF Final

\* The positions of bytes the writer has moved are in the slots that have arrived.
LEMMA MovedArrives ==
  ASSUME NEW w, Writer(w), NEW n \in Nat, NEW size \in DataSizes, NEW f,
         ~Moved(w, n, size).error, Final(f, Moved(w, n, size)), n # 0
  PROVE  LET pos == Position(w) + n
             r == Arrived(w, f)
         IN  /\ pos \in Nat /\ pos <= Begins(w, f.slot) + f.at
             /\ SlotAt(w, pos) <= f.slot
             /\ Position(r) = Position(w)
             /\ Available(r, n) = n
<1> DEFINE b == Moved(w, n, size)
           pos == Position(w) + n
           r == Arrived(w, f)
<1>1. Known(b)
  BY ArrivedFacts, MovedRegular DEF Writer
<1>2. /\ Regular(b) /\ b.ends = w.ends /\ b.full = w.full
      /\ Known(w) /\ NotAfter(w, b) /\ Available(w, n) = n
      /\ b.slot = SlotAt(w, pos) /\ b.at = pos - Begins(w, b.slot)
  BY <1>1, MovedAlong
<1>3. Regular(w) /\ ~w.error /\ End(w) <= Wrapped /\ w.full # "in" BY DEF Writer
<1>4. /\ w.slot \in Nat \ {0} /\ w.at \in Nat /\ Position(w) \in Nat /\ SlotSize(w) \in Int
      /\ w.full \in {"none", "out", "in"} /\ BufferRemaining(w) \in Nat
      /\ \A s \in Nat \ {0} : Begins(w, s) \in Nat
  BY <1>3, SlotType
<1>5. Final(f, w) BY <1>2, <1>3, FinalBefore
<1>6. /\ Regular(r) /\ r.full # "out" /\ (r.full = "none" <=> w.full = "none")
      /\ r.error = w.error
      /\ r.slot = w.slot /\ r.at = w.at
      /\ DOMAIN r.ends = 1..f.slot /\ Len(r.ends) = f.slot
      /\ f.slot \in Nat \ {0} /\ f.at \in Nat
      /\ \A s \in 1..f.slot : s < f.slot => s \in DOMAIN w.ends /\ r.ends[s] = w.ends[s]
      /\ r.ends[f.slot] = Begins(w, f.slot) + f.at
      /\ w.slot <= f.slot
  BY <1>3, <1>5, ArrivedFacts
<1>7. /\ w.slot < f.slot => /\ BufferRemaining(r) = BufferRemaining(w)
                            /\ Position(r) = Position(w)
      /\ w.slot = f.slot => /\ w.at <= f.at
                            /\ BufferRemaining(r) = f.at - w.at
                            /\ w.at < SlotSize(w) => Position(r) = Position(w)
  BY <1>3, <1>5, ArrivedRoom
<1>8. NotAfter(b, f) /\ b.slot \in Nat /\ b.at \in Nat BY <1>2, SlotType DEF Final
<1>9. pos \in Nat BY <1>4
<1>10. /\ w.at < SlotSize(w) => /\ b.slot >= w.slot
                                /\ b.slot = w.slot => b.at = w.at + n
       /\ ~(w.at < SlotSize(w)) => b.slot > w.slot
  BY <1>2, <1>3, MovesOn
<1> HIDE DEF b, pos, r
<1>11. b.slot <= f.slot /\ (b.slot = f.slot => b.at <= f.at) BY <1>6, <1>8 DEF NotAfter
<1>12. pos <= Begins(w, f.slot) + f.at
  <2>1. CASE b.slot = f.slot
    <3>1. Begins(w, f.slot) \in Nat BY <1>4, <1>6
    <3> QED BY <1>2, <1>6, <1>9, <1>11, <2>1, <3>1
  <2>2. CASE b.slot # f.slot
    <3>1. b.slot < f.slot BY <1>6, <1>8, <1>11, <2>2
    <3>2. b.slot \in Nat \ {0} BY <1>2, SlotType
    <3>3. b.slot \in 1..f.slot /\ f.slot \in 1..f.slot BY <1>6, <3>1, <3>2
    <3>4. b.slot \in DOMAIN w.ends /\ r.ends[b.slot] = w.ends[b.slot] BY <1>6, <3>1, <3>3
    <3>5. pos <= w.ends[b.slot] BY <1>2, <1>3, <1>9, <3>4, SlotBounds
    <3>6. r.ends[b.slot] <= r.ends[f.slot] BY <1>6, <3>1, <3>3 DEF Regular
    <3>7. w.ends[b.slot] \in Nat /\ Begins(w, f.slot) \in Nat BY <1>3, <1>4, <1>6, <3>4, SlotType
    <3> QED BY <1>6, <1>9, <3>4, <3>5, <3>6, <3>7
  <2> QED BY <2>1, <2>2
<1>13. w.at < SlotSize(w) \/ w.slot < f.slot BY <1>4, <1>6, <1>8, <1>10, <1>11
<1>14. Position(r) = Position(w) BY <1>4, <1>6, <1>7, <1>13
<1>15. Available(r, n) = n
  <2>1. CASE w.full = "none"
    <3>1. r.full = "none" /\ ~r.error BY <1>3, <1>6, <2>1
    <3>2. n <= BufferRemaining(w) BY <1>2, <1>3, <2>1, AvailableBounds
    <3>3. n <= BufferRemaining(r)
      <4>1. CASE w.slot < f.slot BY <1>7, <3>2, <4>1
      <4>2. CASE w.slot = f.slot
        <5>1. w.at < SlotSize(w) BY <1>4, <1>6, <1>13, <4>2
        <5>2. b.slot = f.slot BY <1>4, <1>6, <1>8, <1>10, <1>11, <4>2, <5>1
        <5>3. w.at + n <= f.at BY <1>10, <1>11, <4>2, <5>1, <5>2
        <5> QED BY <1>4, <1>6, <1>7, <4>2, <5>3
      <4> QED BY <1>4, <1>6, <4>1, <4>2
    <3> QED BY <3>1, <3>3 DEF Available
  <2>2. CASE w.full = "out"
    <3>1. r.full = "in" /\ ~r.error
      <4>1. r.full \in {"none", "out", "in"} BY <1>6, SlotType
      <4> QED BY <1>3, <1>6, <2>2, <4>1
    <3>2. r.ends[Len(r.ends)] = Begins(w, f.slot) + f.at BY <1>6
    <3>3. n <= r.ends[Len(r.ends)] - Position(r)
      <4>1. Begins(w, f.slot) \in Nat BY <1>4, <1>6
      <4> QED BY <1>4, <1>6, <1>12, <1>14, <3>2, <4>1 DEF pos
    <3> QED BY <3>1, <3>3 DEF Available
  <2> QED BY <1>3, <1>4, <2>1, <2>2
<1>16. SlotAt(w, pos) <= f.slot BY <1>2, <1>11
<1> QED BY <1>9, <1>12, <1>14, <1>15, <1>16 DEF pos, r

\* Buffers are the same if their fields are.
LEMMA SameFields ==
  ASSUME NEW b1 \in Buffers, NEW b2 \in Buffers, b1.ends = b2.ends, b1.slot = b2.slot,
         b1.at = b2.at, b1.offset = b2.offset, b1.last = b2.last, b1.error = b2.error,
         b1.full = b2.full
  PROVE  b1 = b2
BY DEF Buffers

LEMMA ArrivedFields ==
  ASSUME NEW b \in Buffers, NEW f
  PROVE  LET r == Arrived(b, f) IN
         /\ r.ends = ArrivedEnds(f) /\ r.full = IF f.full = "none" THEN "none" ELSE "in"
         /\ r.slot = b.slot /\ r.at = b.at /\ r.offset = b.offset /\ r.last = b.last
         /\ r.error = b.error
<1> DEFINE ends == ArrivedEnds(f)
           full == IF f.full = "none" THEN "none" ELSE "in"
           r == Arrived(b, f)
<1>1. r = [b EXCEPT !.ends = ends, !.full = full] BY DEF Arrived
<1> HIDE DEF r, ends, full
<1>2. /\ r.ends = ends /\ r.full = full
      /\ r.slot = b.slot /\ r.at = b.at /\ r.offset = b.offset /\ r.last = b.last
      /\ r.error = b.error
  BY <1>1 DEF Buffers
<1> QED BY <1>2 DEF r, ends, full

\* The iterator behind the byte that ends at a position.
LiesAt(b, buf, pos) == b.slot = SlotAt(buf, pos) /\ b.at = pos - Begins(buf, SlotAt(buf, pos))

LEMMA MovedFields ==
  ASSUME NEW buf \in Buffers, NEW n \in Nat, NEW size, Available(buf, n) = n
  PROVE  LET b == Moved(buf, n, size)
             pos == Position(buf) + n
         IN  /\ n = 0 => b.slot = buf.slot /\ b.at = buf.at
             /\ n # 0 => LiesAt(b, buf, pos)
<1> DEFINE b == Moved(buf, n, size)
           pos == Position(buf) + n
<1>1. b = MovedBy(buf, n, size, n, pos) BY DEF Moved
<1> HIDE DEF b, pos
<1>2. /\ n = 0 => b.slot = buf.slot /\ b.at = buf.at
      /\ n # 0 => LiesAt(b, buf, pos)
  BY <1>1 DEF MovedBy, LiesAt, Buffers
<1> QED BY <1>2 DEF b, pos

\* The reader moves the bytes the writer has moved, to and from the same places.
LEMMA MovedAlike ==
  ASSUME NEW w, Writer(w), NEW n \in Nat, NEW size \in DataSizes, NEW f,
         ~Moved(w, n, size).error, Final(f, Moved(w, n, size))
  PROVE  LET r == Arrived(w, f) IN
         /\ Final(f, w) /\ Known(Moved(w, n, size))
         /\ Moved(r, n, size) = Arrived(Moved(w, n, size), f)
         /\ PlacesMoved(r, n, Position(r)) = PlacesMoved(w, n, Position(w))
<1> DEFINE b == Moved(w, n, size)
           pos == Position(w) + n
           r == Arrived(w, f)
<1>1. Known(b)
  BY ArrivedFacts, MovedRegular DEF Writer
<1>2. /\ Regular(b) /\ b.ends = w.ends /\ b.full = w.full /\ ~b.error
      /\ NotAfter(w, b) /\ Available(w, n) = n
      /\ b.offset = w.offset + n /\ b.last = size
      /\ n = 0 => b.slot = w.slot /\ b.at = w.at
      /\ n # 0 => b.slot = SlotAt(w, pos) /\ b.at = pos - Begins(w, b.slot)
  BY <1>1, MovedAlong
<1>3. Regular(w) /\ ~w.error BY DEF Writer
<1>4. Final(f, w) BY <1>2, <1>3, FinalBefore
<1>5. /\ Regular(r) /\ r.slot = w.slot /\ r.at = w.at /\ r.offset = w.offset
      /\ r.error = w.error
  BY <1>3, <1>4, ArrivedFacts
<1>6. n # 0 => /\ pos \in Nat /\ pos <= Begins(w, f.slot) + f.at
               /\ SlotAt(w, pos) <= f.slot
               /\ Position(r) = Position(w)
               /\ Available(r, n) = n
  BY MovedArrives
<1>7. n = 0 => Available(r, n) = 0
  <2> HIDE DEF r
  <2>1. Available(r, n) \in 0..n BY <1>5, AvailableBounds
  <2> QED BY <2>1
<1>8. Available(r, n) = n BY <1>6, <1>7
<1>9. n # 0 => /\ SlotAt(r, pos) = SlotAt(w, pos)
               /\ Begins(r, SlotAt(r, pos)) = Begins(w, SlotAt(w, pos))
  BY <1>3, <1>4, <1>6, SlotAlike
<1>10. b \in Buffers /\ w \in Buffers /\ r \in Buffers BY <1>2, <1>3, <1>5 DEF Regular
<1> DEFINE c == Moved(r, n, size)
           d == Arrived(b, f)
<1>11. /\ d \in Buffers /\ d.ends = ArrivedEnds(f)
       /\ d.full = IF f.full = "none" THEN "none" ELSE "in"
       /\ d.slot = b.slot /\ d.at = b.at /\ d.offset = b.offset /\ d.last = b.last
       /\ d.error = b.error
  <2>1. d \in Buffers BY <1>2, ArrivedFacts DEF Regular
  <2> QED BY <1>10, <2>1, ArrivedFields
<1>12. c = d
  <2>1. /\ c \in Buffers /\ c.ends = r.ends /\ c.full = r.full /\ c.last = size
        /\ ~c.error => c.offset = r.offset + n
    BY <1>5, MovedRegular DEF Regular
  <2>2. c.error = FALSE
    <3>1. c.error = (r.error \/ Available(r, n) < n) BY <1>5, MovedRegular
    <3>2. r.error = FALSE BY <1>3, <1>5, <1>10 DEF Buffers
    <3>3. ~(Available(r, n) < n) BY <1>8
    <3> HIDE DEF c, r
    <3> QED BY <3>1, <3>2, <3>3
  <2>3. d.error = FALSE BY <1>2, <1>11 DEF Buffers
  <2>4. r.ends = ArrivedEnds(f) /\ r.full = IF f.full = "none" THEN "none" ELSE "in"
    BY <1>10, ArrivedFields
  <2>5. (n = 0 => c.slot = r.slot /\ c.at = r.at) /\ (n # 0 => LiesAt(c, r, Position(r) + n))
    <3> HIDE DEF r
    <3> QED BY <1>8, <1>10, MovedFields
  <2>6. n # 0 => Position(r) + n = pos BY <1>6 DEF pos
  <2> HIDE DEF r, b, c, d, pos
  <2>7. c.slot = d.slot /\ c.at = d.at
    <3>1. CASE n = 0 BY <1>2, <1>5, <1>11, <2>5, <3>1
    <3>2. CASE n # 0
      <4>1. LiesAt(c, r, pos) BY <2>5, <2>6, <3>2
      <4> QED BY <1>2, <1>9, <1>11, <3>2, <4>1 DEF LiesAt
    <3> QED BY <3>1, <3>2
  <2>8. c.offset = d.offset BY <1>2, <1>5, <1>11, <2>1, <2>2
  <2>9. c.ends = d.ends /\ c.full = d.full /\ c.last = d.last /\ c.error = d.error
    BY <1>2, <1>11, <2>1, <2>2, <2>3, <2>4
  <2> QED BY <1>11, <2>1, <2>7, <2>8, <2>9, SameFields
<1>13. PlacesMoved(r, n, Position(r)) = PlacesMoved(w, n, Position(w))
  <2>1. PlacesMoved(r, n, Position(r)) =
          [j \in 1..n |-> PlaceAt(r, Position(r) + j, SlotAt(r, Position(r) + j))]
    BY <1>8 DEF PlacesMoved
  <2>2. PlacesMoved(w, n, Position(w)) =
          [j \in 1..n |-> PlaceAt(w, Position(w) + j, SlotAt(w, Position(w) + j))]
    BY <1>2 DEF PlacesMoved
  <2>3. ASSUME NEW j \in 1..n
        PROVE  PlaceAt(r, Position(r) + j, SlotAt(r, Position(r) + j))
                 = PlaceAt(w, Position(w) + j, SlotAt(w, Position(w) + j))
    <3>1. n # 0 /\ j \in Nat /\ j <= n BY <2>3
    <3>2. Position(w) \in Nat BY <1>3, SlotType
    <3> DEFINE q == Position(w) + j
    <3>3. q \in Nat /\ q <= pos BY <3>1, <3>2
    <3>4. Position(r) + j = q BY <1>6, <3>1
    <3>5. q <= Begins(w, f.slot) + f.at
      <4>1. f.slot \in Nat \ {0} /\ f.at \in Nat BY <1>3, <1>4, ArrivedFacts
      <4>2. Begins(w, f.slot) \in Nat BY <1>3, <4>1, SlotType
      <4> HIDE DEF q, pos
      <4> QED BY <1>6, <3>1, <3>3, <4>1, <4>2
    <3>6. SlotAt(w, q) <= f.slot
      <4>1. SlotAt(w, q) <= SlotAt(w, pos) /\ SlotAt(w, pos) \in Nat
        BY <1>3, <1>6, <3>1, <3>3, SlotBounds
      <4>2. SlotAt(w, q) \in Nat BY <1>3, <3>3, SlotBounds
      <4>3. f.slot \in Nat BY <1>3, <1>4, ArrivedFacts
      <4> HIDE DEF q, pos
      <4> QED BY <1>6, <3>1, <4>1, <4>2, <4>3
    <3> HIDE DEF q
    <3>7. SlotAt(r, q) = SlotAt(w, q) /\ Begins(r, SlotAt(r, q)) = Begins(w, SlotAt(w, q))
      BY <1>3, <1>4, <3>3, <3>5, <3>6, SlotAlike
    <3> HIDE DEF r
    <3> QED BY <3>4, <3>7 DEF PlaceAt, q
  <2> HIDE DEF r
  <2> QED BY <2>1, <2>2, <2>3
<1> QED BY <1>1, <1>4, <1>12, <1>13
-----------------------------------------------------------------------------
(* Values, arrays and padding, by the writer and by the reader.            *)

\* What a writer does that has not come to the end of its slots.
Along(w, b) ==
  Writer(b) /\ b.ends = w.ends /\ b.full = w.full /\ Known(w) /\ NotAfter(w, b)

\* Places the writer had not gone past, and has now.
Mark(places, w, b) == IsPlace(places[1]) /\ ~Passed(places[1], w) /\ Passed(places[1], b)

LEMMA AlongEnds ==
  ASSUME NEW w, Writer(w), NEW b, Regular(b), Sound(b), ~b.error, b.ends = w.ends,
         b.full = w.full, Known(w), NotAfter(w, b)
  PROVE  Along(w, b)
BY DEF Along, Writer, End

\* The reader's buffer is aligned as the writer's was.
LEMMA AlignedAlong ==
  ASSUME NEW w, Writer(w), NEW n \in DataSizes, ~Aligned(w, n).error, Known(Aligned(w, n))
  PROVE  Along(w, Aligned(w, n))
<1> DEFINE k == BufferAlignment(w, n)
           a == Aligned(w, n)
<1>1. Regular(w) /\ Sound(w) /\ ~w.error /\ w \in Buffers BY DEF Writer, Regular
<1>2. k \in Nat BY <1>1, AlignmentFills
<1>3. a = Moved(w, k, 1) BY DEF Aligned, AdvanceBuffer
<1>4. ~a.error /\ Known(a) OBVIOUS
<1> HIDE DEF a, k
<1>5. /\ Regular(a) /\ a.ends = w.ends /\ a.full = w.full /\ Known(w) /\ NotAfter(w, a)
      /\ a.last = 1
  BY <1>2, <1>3, <1>4, MovedAlong, ArithmeticSizes
<1>6. Sound(a)
  <2>1. a.offset \in Nat BY <1>5, SlotType
  <2>2. a.offset % 1 = 0 BY <2>1
  <2> QED BY <1>5, <2>2 DEF Sound
<1>7. Along(w, a) BY <1>4, <1>5, <1>6, AlongEnds
<1> QED BY <1>7 DEF a

LEMMA AlignedAlike ==
  ASSUME NEW w, Writer(w), NEW n \in DataSizes, ~Aligned(w, n).error,
         NEW f, Final(f, Aligned(w, n))
  PROVE  Aligned(Arrived(w, f), n) = Arrived(Aligned(w, n), f) /\ Final(f, w)
<1> DEFINE k == BufferAlignment(w, n)
           r == Arrived(w, f)
<1>1. Regular(w) /\ Sound(w) /\ ~w.error /\ w \in Buffers BY DEF Writer, Regular
<1>2. k \in Nat BY <1>1, AlignmentFills
<1>3. Aligned(w, n) = Moved(w, k, 1) BY DEF Aligned, AdvanceBuffer
<1>4. BufferAlignment(r, n) = k
  <2>1. r.last = w.last /\ r.offset = w.offset BY <1>1, ArrivedFields
  <2> HIDE DEF r
  <2> QED BY <2>1 DEF BufferAlignment
<1>5. Aligned(r, n) = Moved(r, k, 1) BY <1>4 DEF Aligned, AdvanceBuffer
<1> HIDE DEF k
<1>6. Moved(r, k, 1) = Arrived(Moved(w, k, 1), f) /\ Final(f, w)
  BY <1>2, <1>3, MovedAlike, ArithmeticSizes
<1> HIDE DEF r
<1>7. Aligned(r, n) = Arrived(Aligned(w, n), f) BY <1>3, <1>5, <1>6
<1> QED BY <1>6, <1>7 DEF r

\* The next slot.
LEMMA ContinuedOn ==
  ASSUME NEW a, Regular(a), ~a.error
  PROVE  LET c == Continued(a) IN
         /\ ~c.error => a.full = "out" \/ (a.full = "in" /\ a.slot < Len(a.ends))
         /\ a.full = "out" \/ (a.full = "in" /\ a.slot < Len(a.ends)) =>
              c.error = FALSE /\ c.slot = a.slot + 1
<1> DEFINE room == BufferRemaining(a)
           d == [a EXCEPT !.at = @ + room, !.offset = @ + room]
           c == Continued(a)
<1>1. /\ a \in Buffers /\ a.slot \in Nat \ {0} /\ a.at \in Nat /\ a.offset \in Nat /\ room \in Nat
      /\ a.full \in {"none", "out", "in"} /\ a.error \in BOOLEAN
  BY SlotType DEF Regular
<1>2. c = OnFull(d) BY DEF Continued
<1> HIDE DEF room
<1>3. d = [a EXCEPT !.at = a.at + room, !.offset = a.offset + room] BY <1>1 DEF Buffers
<1> HIDE DEF c, d
<1>4. /\ d.slot = a.slot /\ d.ends = a.ends /\ d.full = a.full /\ d.error = FALSE /\ d \in Buffers
  <2>1. d.slot = a.slot /\ d.ends = a.ends /\ d.full = a.full /\ d.error = a.error
    BY <1>1, <1>3 DEF Buffers
  <2>2. a.at + room \in Int /\ a.offset + room \in Nat BY <1>1
  <2>3. d \in Buffers BY <1>1, <1>3, <2>2 DEF Buffers
  <2> QED BY <1>1, <2>1, <2>3
<1>5. LET e == NextSlot(d) IN e.error = FALSE /\ e.slot = a.slot + 1
  BY <1>1, <1>4 DEF NextSlot, Buffers
<1>6. [d EXCEPT !.error = TRUE].error BY <1>4 DEF Buffers
<1>7. CASE a.full = "out" BY <1>2, <1>4, <1>5, <1>7 DEF OnFull, OnFullOutput, c
<1>8. CASE a.full = "none"
  <2>1. c.error BY <1>2, <1>4, <1>6, <1>8 DEF OnFull
  <2> QED BY <1>8, <2>1 DEF c
<1>9. CASE a.full = "in"
  <2>1. CASE a.slot < Len(a.ends)
    BY <1>2, <1>4, <1>5, <1>9, <2>1 DEF OnFull, OnFullInput, c
  <2>2. CASE ~(a.slot < Len(a.ends))
    <3>1. c.error BY <1>2, <1>4, <1>6, <1>9, <2>2 DEF OnFull, OnFullInput
    <3> QED BY <1>9, <2>2, <3>1 DEF c
  <2> QED BY <2>1, <2>2
<1> QED BY <1>1, <1>7, <1>8, <1>9

\* A buffer behind a value of n bytes.
Behold(b, slot, at, offset, n) ==
  b.slot = slot /\ b.at = at /\ b.offset = offset /\ b.last = n /\ b.error = FALSE

LEMMA ValueInside ==
  ASSUME NEW w, Regular(w), Sound(w), NEW n \in DataSizes,
         ~Aligned(w, n).error, n <= BufferRemaining(Aligned(w, n))
  PROVE  LET a == Aligned(w, n) IN Behold(Value(w, n), a.slot, a.at + n, a.offset + n, n)
<1> DEFINE a == Aligned(w, n)
           room == BufferRemaining(a)
           c == Continued(a)
           b == Value(w, n)
<1>1. Regular(a) BY AlignedFacts
<1>2. ~a.error /\ n <= room OBVIOUS
<1> HIDE DEF a
<1>3. /\ a \in Buffers /\ a.slot \in Nat \ {0} /\ a.at \in Nat /\ a.offset \in Nat /\ room \in Nat
      /\ a.error = FALSE
  BY <1>1, <1>2, SlotType DEF Regular
<1>4. n \in Nat \ {0} BY Sizes
<1> HIDE DEF room, c, b
<1>5. ~(n > room) BY <1>2, <1>3, <1>4
<1>6. b = [a EXCEPT !.at = a.at + n, !.offset = a.offset + n, !.last = n]
  BY <1>2, <1>3, <1>5 DEF b, Value, ValueFrom, a, room, Buffers
<1>7. b.slot = a.slot /\ b.at = a.at + n /\ b.offset = a.offset + n /\ b.last = n
      /\ b.error = a.error
  BY <1>3, <1>6 DEF Buffers
<1> QED BY <1>3, <1>7 DEF Behold, a, b

LEMMA ValueSplit ==
  ASSUME NEW w, Regular(w), Sound(w), NEW n \in DataSizes,
         ~Aligned(w, n).error, ~(n <= BufferRemaining(Aligned(w, n))),
         ~Continued(Aligned(w, n)).error
  PROVE  LET a == Aligned(w, n) IN
         Behold(Value(w, n), a.slot + 1, n - BufferRemaining(a), a.offset + n, n)
<1> DEFINE a == Aligned(w, n)
           room == BufferRemaining(a)
           c == Continued(a)
           b == Value(w, n)
<1>1. Regular(a) BY AlignedFacts
<1>2. ~a.error /\ ~(n <= room) /\ ~c.error OBVIOUS
<1>3. Regular(c) /\ c.ends = a.ends /\ c.full = a.full /\ c.offset = a.offset + room
  BY <1>1, ContinuedFacts
<1>4. c.slot = a.slot + 1 BY <1>1, <1>2, ContinuedOn
<1> HIDE DEF a
<1>5. /\ a \in Buffers /\ a.slot \in Nat \ {0} /\ a.at \in Nat /\ a.offset \in Nat /\ room \in Nat
      /\ a.error = FALSE
  BY <1>1, <1>2, SlotType DEF Regular
<1> HIDE DEF room, c, b
<1>6. c \in Buffers /\ c.offset \in Nat /\ c.error = FALSE
  BY <1>2, <1>3, SlotType DEF Regular
<1>7. n \in Nat \ {0} BY Sizes
<1>8. n > room BY <1>2, <1>5, <1>7
<1>9. b = [c EXCEPT !.at = n - room, !.offset = c.offset + (n - room), !.last = n]
  BY <1>2, <1>6, <1>8 DEF b, Value, ValueFrom, a, room, c, Buffers
<1>10. c.offset + (n - room) = a.offset + n BY <1>3, <1>5, <1>7, <1>8
<1>11. b.slot = c.slot /\ b.at = n - room /\ b.offset = a.offset + n /\ b.last = n
       /\ b.error = c.error
  BY <1>6, <1>9, <1>10 DEF Buffers
<1> QED BY <1>4, <1>6, <1>11 DEF Behold, a, b, room

\* A value that was written or read.
LEMMA ValueGoes ==
  ASSUME NEW w, Regular(w), Sound(w), NEW n \in DataSizes, ~Value(w, n).error
  PROVE  LET a == Aligned(w, n) IN
         ~a.error /\ (n <= BufferRemaining(a) \/ ~Continued(a).error)
<1> DEFINE a == Aligned(w, n)
           room == BufferRemaining(a)
           c == Continued(a)
           b == Value(w, n)
<1>1. Regular(a) BY AlignedFacts
<1>2. ~b.error OBVIOUS
<1> HIDE DEF a
<1>3. a \in Buffers /\ room \in Nat BY <1>1, SlotType DEF Regular
<1>4. n \in Nat \ {0} BY Sizes
<1> HIDE DEF room, c, b
<1>5. ~a.error BY <1>2 DEF b, Value, ValueFrom, a
<1>6. ASSUME ~(n <= room), c.error PROVE FALSE
  <2>1. n > room BY <1>3, <1>4, <1>6
  <2> DEFINE last == IF room > 0 THEN w.last ELSE a.last
  <2>2. b = [a EXCEPT !.error = TRUE, !.last = last]
    BY <1>3, <1>5, <1>6, <2>1 DEF b, Value, ValueFrom, a, room, c, Buffers
  <2> HIDE DEF last
  <2>3. b.error = TRUE BY <1>3, <2>2 DEF Buffers
  <2> QED BY <1>2, <2>3
<1> QED BY <1>5, <1>6 DEF a, room, c

LEMMA ValueAlong ==
  ASSUME NEW w, Writer(w), NEW n \in DataSizes, ~Value(w, n).error, Known(Value(w, n))
  PROVE  /\ Along(w, Value(w, n)) /\ Mark(ValuePlaces(w, n), w, Value(w, n))
         /\ Along(w, Aligned(w, n)) /\ NotAfter(Aligned(w, n), Value(w, n))
<1> DEFINE a == Aligned(w, n)
           room == BufferRemaining(a)
           c == Continued(a)
           b == Value(w, n)
           p == ValuePlaces(w, n)[1]
<1>1. Regular(w) /\ Sound(w) /\ ~w.error /\ w.full # "in" BY DEF Writer
<1>2. /\ Regular(b) /\ Sound(b) /\ b.ends = w.ends /\ b.full = w.full /\ ~b.error /\ Known(b)
  BY <1>1, ValueAligned
<1>3. ~a.error /\ (n <= room \/ ~c.error) BY <1>1, ValueGoes
<1>4. Regular(a) /\ a.ends = w.ends /\ a.full = w.full BY <1>1, AlignedFacts
<1>5. n <= room => Behold(b, a.slot, a.at + n, a.offset + n, n)
  BY <1>1, <1>3, ValueInside
<1>6. ~(n <= room) => Behold(b, a.slot + 1, n - room, a.offset + n, n)
  BY <1>1, <1>3, ValueSplit
<1>7. Known(a) => Along(w, a) BY <1>3, AlignedAlong
<1>8. ~(n <= room) => c.slot = a.slot + 1 BY <1>3, <1>4, ContinuedOn
<1>9. p = IF 1 <= room THEN <<a.slot, a.at + 1 - 1>> ELSE <<c.slot, 1 - room - 1>>
  <2>1. 1 \in 1..n
    <3>1. n = 1 \/ n = 2 \/ n = 4 \/ n = 8 BY Sizes
    <3> QED BY <3>1
  <2>2. ValuePlaces(w, n) = PlacesFrom(n, a, room, c) BY <1>2 DEF ValuePlaces
  <2> HIDE DEF a, room, c
  <2> QED BY <2>1, <2>2 DEF PlacesFrom
<1>10. n \in Nat \ {0}
  <2>1. n = 1 \/ n = 2 \/ n = 4 \/ n = 8 BY Sizes
  <2> QED BY <2>1
<1> HIDE DEF a
<1>11. /\ a.slot \in Nat \ {0} /\ a.at \in Nat /\ room \in Nat /\ SlotSize(a) \in Int
       /\ DOMAIN a.ends = 1..Len(a.ends) /\ Len(a.ends) \in Nat
  BY <1>4, SlotType
<1>12. w.slot \in Nat \ {0} /\ w.at \in Nat BY <1>1, SlotType
<1>13. room = IF a.at < SlotSize(a) THEN SlotSize(a) - a.at ELSE 0 BY DEF BufferRemaining
<1> HIDE DEF room, b, c, p
<1>14. ASSUME n <= room
       PROVE  NotAfter(a, b) /\ Along(w, a) /\ IsPlace(p) /\ Passed(p, b) /\ ~Passed(p, w)
  <2>1. b.slot = a.slot /\ b.at = a.at + n BY <1>5, <1>14 DEF Behold
  <2>2. Known(a) BY <1>2, <1>4, <2>1 DEF Known
  <2>3. a.at < SlotSize(a) BY <1>10, <1>11, <1>13, <1>14
  <2>4. NotAfter(a, b) BY <1>10, <1>11, <2>1, <2>3 DEF NotAfter
  <2>5. p = <<a.slot, a.at>> BY <1>9, <1>10, <1>11, <1>14
  <2>6. Along(w, a) BY <1>7, <2>2
  <2>7. IsPlace(p) /\ Passed(p, b) BY <1>10, <1>11, <2>1, <2>5 DEF IsPlace, Passed
  <2>8. ~Passed(p, w)
    <3>1. NotAfter(w, a) BY <2>6 DEF Along
    <3> QED BY <1>11, <1>12, <2>5, <3>1 DEF NotAfter, Passed
  <2> QED BY <2>4, <2>6, <2>7, <2>8
<1>15. ASSUME ~(n <= room)
       PROVE  NotAfter(a, b) /\ Along(w, a) /\ IsPlace(p) /\ Passed(p, b) /\ ~Passed(p, w)
  <2>1. b.slot = a.slot + 1 /\ b.at = n - room BY <1>6, <1>15 DEF Behold
  <2>2. Known(a)
    <3>1. a.slot + 1 \in DOMAIN a.ends BY <1>2, <1>4, <2>1 DEF Known
    <3> QED BY <1>11, <3>1 DEF Known
  <2>3. a.slot < b.slot BY <1>11, <2>1
  <2>4. NotAfter(a, b) BY <2>3 DEF NotAfter
  <2>5. Along(w, a) BY <1>7, <2>2
  <2>6. NotAfter(w, a) BY <2>5 DEF Along
  <2>7. IsPlace(p) /\ Passed(p, b) /\ ~Passed(p, w)
    <3>1. CASE 1 <= room
      <4>1. p[1] = a.slot /\ p[2] = a.at BY <1>9, <1>11, <3>1
      <4> QED BY <1>11, <1>12, <2>3, <2>6, <4>1 DEF IsPlace, Passed, NotAfter
    <3>2. CASE ~(1 <= room)
      <4>1. p = <<a.slot + 1, 1 - room - 1>> BY <1>8, <1>9, <1>15, <3>2
      <4>2. p[1] = a.slot + 1 /\ p[2] = 0 /\ room = 0 BY <1>11, <3>2, <4>1
      <4> QED BY <1>10, <1>11, <1>12, <2>1, <2>6, <4>2 DEF IsPlace, Passed, NotAfter
    <3> QED BY <3>1, <3>2
  <2> QED BY <2>4, <2>5, <2>7
<1>16. NotAfter(a, b) /\ Along(w, a) /\ IsPlace(p) /\ Passed(p, b) /\ ~Passed(p, w)
  BY <1>14, <1>15
<1>17. Along(w, b)
  <2>1. NotAfter(w, a) /\ Known(w) BY <1>16 DEF Along
  <2>2. NotAfter(w, b) BY <1>1, <1>2, <1>4, <1>16, <2>1, NotAfterTransitive
  <2> QED BY <1>2, <2>1, <2>2, AlongEnds
<1> QED BY <1>16, <1>17 DEF Mark, a, b, p

LEMMA ValueAlike ==
  ASSUME NEW w, Writer(w), NEW n \in DataSizes, ~Value(w, n).error,
         NEW f, Final(f, Value(w, n))
  PROVE  /\ Value(Arrived(w, f), n) = Arrived(Value(w, n), f)
         /\ ValuePlaces(Arrived(w, f), n) = ValuePlaces(w, n)
         /\ ~Value(Arrived(w, f), n).error
<1> DEFINE a == Aligned(w, n)
           b == Value(w, n)
           r == Arrived(w, f)
           d == Arrived(b, f)
           ra == Aligned(r, n)
           rb == Value(r, n)
           room == BufferRemaining(a)
<1>1. Regular(w) /\ Sound(w) /\ ~w.error /\ w.full # "in" /\ w \in Buffers BY DEF Writer, Regular
<1>2. Regular(b) /\ Sound(b) /\ b.ends = w.ends /\ b.full = w.full /\ ~b.error /\ b \in Buffers
  BY <1>1, ValueAligned DEF Regular
<1>3. Known(b) BY <1>2, ArrivedFacts
<1>4. Along(w, a) /\ NotAfter(a, b) /\ Along(w, b) BY <1>3, ValueAlong
<1>5. /\ Writer(a) /\ Regular(a) /\ ~a.error /\ a.ends = w.ends /\ a.full = w.full
      /\ a \in Buffers
  BY <1>4 DEF Along, Writer, Regular
<1>6. Final(f, a) BY <1>2, <1>4, <1>5, FinalBefore
<1>7. ra = Arrived(a, f) /\ Final(f, w) BY <1>5, <1>6, AlignedAlike
<1>8. n \in Nat \ {0}
  <2>1. n = 1 \/ n = 2 \/ n = 4 \/ n = 8 BY Sizes
  <2> QED BY <2>1
<1>9. Regular(r) /\ Sound(r)
  <2>1. Regular(r) /\ r.error = w.error /\ r.last = w.last /\ r.offset = w.offset
    BY <1>1, <1>7, ArrivedFacts
  <2> HIDE DEF r
  <2> QED BY <1>1, <2>1 DEF Sound
<1>10. /\ d \in Buffers /\ d.ends = ArrivedEnds(f)
       /\ d.full = IF f.full = "none" THEN "none" ELSE "in"
       /\ d.slot = b.slot /\ d.at = b.at /\ d.offset = b.offset /\ d.last = b.last
       /\ d.error = b.error
  <2>1. d \in Buffers BY <1>2, ArrivedFacts DEF Regular
  <2> QED BY <1>2, <2>1, ArrivedFields
<1>11. r.ends = ArrivedEnds(f) /\ r.full = IF f.full = "none" THEN "none" ELSE "in"
  BY <1>1, ArrivedFields
<1>12. /\ Regular(ra) /\ ra.slot = a.slot /\ ra.at = a.at /\ ra.offset = a.offset
       /\ ra.error = a.error /\ ra.ends = ArrivedEnds(f) /\ Len(ra.ends) = f.slot
       /\ ra.full # "out" /\ (ra.full = "none" <=> a.full = "none")
  BY <1>5, <1>6, <1>7, ArrivedFacts
<1>13. /\ a.slot < f.slot => BufferRemaining(ra) = room
       /\ a.slot = f.slot => a.at <= f.at /\ BufferRemaining(ra) = f.at - a.at
  BY <1>5, <1>6, <1>7, ArrivedRoom
<1>14. NotAfter(b, f) /\ f.slot \in Nat /\ f.at \in Nat BY SlotType DEF Final
<1>15. /\ a.slot \in Nat \ {0} /\ a.at \in Nat /\ a.offset \in Nat /\ room \in Nat
       /\ a.full \in {"none", "out", "in"}
  BY <1>5, SlotType
<1>16. /\ n <= room => Behold(b, a.slot, a.at + n, a.offset + n, n)
       /\ ~(n <= room) => /\ Behold(b, a.slot + 1, n - room, a.offset + n, n)
                          /\ ~Continued(a).error
  <2>1. ~a.error /\ (n <= room \/ ~Continued(a).error) BY <1>1, <1>2, ValueGoes
  <2>2. n <= room => Behold(b, a.slot, a.at + n, a.offset + n, n)
    BY <1>1, <2>1, ValueInside
  <2>3. ~(n <= room) => Behold(b, a.slot + 1, n - room, a.offset + n, n)
    BY <1>1, <2>1, ValueSplit
  <2> QED BY <2>1, <2>2, <2>3
<1>17. ra.full \in {"none", "out", "in"} /\ BufferRemaining(ra) \in Nat BY <1>12, SlotType
<1> DEFINE rroom == BufferRemaining(ra)
<1> HIDE DEF rroom
<1>18. ASSUME n <= room
       PROVE  n <= rroom /\ Behold(rb, b.slot, b.at, b.offset, n)
  <2>1. /\ b.slot = a.slot /\ b.at = a.at + n /\ b.offset = a.offset + n
    BY <1>16, <1>18 DEF Behold
  <2> HIDE DEF a, b, room, ra
  <2>2. a.slot <= f.slot /\ (a.slot = f.slot => a.at + n <= f.at)
    BY <1>14, <1>15, <2>1 DEF NotAfter
  <2>3. n <= rroom
    <3>1. CASE a.slot < f.slot BY <1>13, <1>18, <3>1 DEF rroom
    <3>2. CASE a.slot = f.slot BY <1>8, <1>13, <1>14, <1>15, <2>2, <3>2 DEF rroom
    <3> QED BY <1>14, <1>15, <2>2, <3>1, <3>2
  <2>4. ~ra.error BY <1>5, <1>12
  <2>5. Behold(rb, ra.slot, ra.at + n, ra.offset + n, n)
    BY <1>9, <2>3, <2>4, ValueInside DEF ra, rroom
  <2> QED BY <1>12, <2>1, <2>3, <2>5
<1>19. ASSUME ~(n <= room)
       PROVE  rroom = room /\ Behold(rb, b.slot, b.at, b.offset, n)
              /\ Continued(ra).slot = Continued(a).slot
  <2>1. b.slot = a.slot + 1 /\ b.at = n - room /\ b.offset = a.offset + n /\ ~Continued(a).error
    BY <1>16, <1>19 DEF Behold
  <2>2. a.full = "out" /\ Continued(a).slot = a.slot + 1
    BY <1>1, <1>5, <1>19, <2>1, ContinuedOn
  <2> HIDE DEF a, b, room, ra
  <2>3. a.slot < f.slot BY <1>14, <1>15, <2>1 DEF NotAfter
  <2>4. rroom = room BY <1>13, <2>3 DEF rroom
  <2>5. ra.full = "in" BY <1>12, <1>17, <2>2
  <2>6. ra.slot < Len(ra.ends) /\ ~ra.error BY <1>5, <1>12, <2>3
  <2>7. Continued(ra).error = FALSE /\ Continued(ra).slot = ra.slot + 1
    BY <1>12, <2>5, <2>6, ContinuedOn
  <2>8. ~(n <= rroom) BY <1>19, <2>4
  <2>9. Behold(rb, ra.slot + 1, n - rroom, ra.offset + n, n)
    BY <1>9, <2>6, <2>7, <2>8, ValueSplit DEF ra, rroom
  <2> QED BY <1>12, <2>1, <2>2, <2>4, <2>7, <2>9
<1>20. Behold(rb, b.slot, b.at, b.offset, n) BY <1>18, <1>19
<1>21. b.last = n /\ b.error = FALSE BY <1>16 DEF Behold
<1>22. rb = d
  <2>1. Regular(rb) /\ rb.ends = r.ends /\ rb.full = r.full BY <1>9, ValueAligned
  <2> HIDE DEF rb, d, b, r
  <2>2. rb \in Buffers BY <2>1 DEF Regular
  <2> QED BY <1>10, <1>11, <1>20, <1>21, <2>1, <2>2, SameFields DEF Behold
<1>23. ~rb.error BY <1>20 DEF Behold
<1>24. ValuePlaces(r, n) = ValuePlaces(w, n)
  <2>1. ValuePlaces(r, n) = PlacesFrom(n, ra, rroom, Continued(ra))
    BY <1>23 DEF ValuePlaces, rroom
  <2>2. ValuePlaces(w, n) = PlacesFrom(n, a, room, Continued(a))
    BY <1>2 DEF ValuePlaces
  <2> DEFINE c == Continued(a)
             rc == Continued(ra)
  <2>3. ~(n <= room) => rroom = room /\ rc.slot = c.slot BY <1>19
  <2> HIDE DEF a, ra, c, rc, room
  <2>4. PlacesFrom(n, ra, rroom, rc) = PlacesFrom(n, a, room, c)
    <3>1. ASSUME NEW j \in 1..n
          PROVE  (IF j <= rroom THEN <<ra.slot, ra.at + j - 1>> ELSE <<rc.slot, j - rroom - 1>>)
                   = (IF j <= room THEN <<a.slot, a.at + j - 1>> ELSE <<c.slot, j - room - 1>>)
      <4>1. CASE n <= room
        <5>1. n <= rroom /\ rroom \in Nat BY <1>17, <1>18, <4>1 DEF rroom
        <5>2. j <= room /\ j <= rroom BY <1>8, <1>15, <4>1, <5>1
        <5> QED BY <1>12, <5>2
      <4>2. CASE ~(n <= room) BY <1>12, <2>3, <4>2
      <4> QED BY <4>1, <4>2
    <3> QED BY <3>1 DEF PlacesFrom
  <2> QED BY <2>1, <2>2, <2>4 DEF c, rc
<1> QED BY <1>22, <1>23, <1>24

\* An array of bytes needs no padding: its bytes are moved from where the buffer is.
LEMMA BytesNeedNoPadding ==
  ASSUME NEW w, Regular(w), ~w.error
  PROVE  ArrayStart(w, 1) = w
<1> DEFINE a == Aligned(w, 1)
           s == ArrayStart(w, 1)
<1>1. /\ w \in Buffers /\ w.offset \in Nat /\ w.last \in {0} \cup DataSizes /\ w.error = FALSE
  BY SlotType DEF Regular
<1>2. BufferAlignment(w, 1) = 0
  <2>1. Padding(w.offset, 1) = 0
    <3>1. w.offset % 1 = 0 BY <1>1
    <3>2. (1 - 0) % 1 = 0 OBVIOUS
    <3> QED BY <3>1, <3>2 DEF Padding
  <2> QED BY <2>1 DEF BufferAlignment
<1>3. a = Moved(w, 0, 1) BY <1>2 DEF Aligned, AdvanceBuffer
<1>4. Available(w, 0) = 0
  <2>1. Available(w, 0) \in 0..0 BY AvailableBounds
  <2> QED BY <2>1
<1>5. /\ Regular(a) /\ a.ends = w.ends /\ a.full = w.full
      /\ a.error = (w.error \/ Available(w, 0) < 0)
      /\ ~a.error => a.offset = w.offset + 0
  <2> DEFINE m == Moved(w, 0, 1)
  <2>1. /\ Regular(m) /\ m.ends = w.ends /\ m.full = w.full
        /\ m.error = (w.error \/ Available(w, 0) < 0)
        /\ ~m.error => m.offset = w.offset + 0
    <3>1. 0 \in Nat /\ 1 \in DataSizes BY ArithmeticSizes
    <3>2. /\ Regular(m) /\ m.ends = w.ends /\ m.full = w.full BY <3>1, MovedRegular
    <3>3. m.error = (w.error \/ Available(w, 0) < 0) BY <3>1, MovedRegular
    <3>4. ~m.error => m.offset = w.offset + 0 BY <3>1, MovedRegular
    <3> QED BY <3>2, <3>3, <3>4
  <2> HIDE DEF m
  <2>2. a = m BY <1>3 DEF m
  <2> HIDE DEF a
  <2> QED BY <2>1, <2>2
<1>6. a.slot = w.slot /\ a.at = w.at BY <1>1, <1>3, <1>4, MovedFields
<1>7. s = [a EXCEPT !.last = w.last] BY DEF ArrayStart
<1> HIDE DEF a, s
<1>8. a.error = FALSE
  <2>1. ~(Available(w, 0) < 0) BY <1>4
  <2> QED BY <1>1, <1>5, <2>1
<1>9. a \in Buffers BY <1>5 DEF Regular
<1>10. /\ s \in Buffers /\ s.ends = a.ends /\ s.slot = a.slot /\ s.at = a.at
       /\ s.offset = a.offset /\ s.last = w.last /\ s.error = a.error /\ s.full = a.full
  <2>1. s \in Buffers BY <1>1, <1>7, <1>9 DEF Buffers
  <2> QED BY <1>7, <1>9, <2>1 DEF Buffers
<1>11. s.offset = w.offset BY <1>1, <1>5, <1>8, <1>10
<1>12. s = w BY <1>1, <1>5, <1>6, <1>8, <1>10, <1>11, SameFields
<1> QED BY <1>12 DEF s

LEMMA ArrayIs ==
  ASSUME NEW w, Regular(w), ~w.error, NEW n \in Nat
  PROVE  /\ Array(w, n, 1) = Moved(w, n, 1)
         /\ ArrayPlaces(w, n, 1) = PlacesMoved(w, n, Position(w))
<1>1. ArrayStart(w, 1) = w BY BytesNeedNoPadding
<1>2. n * 1 = n OBVIOUS
<1>3. Array(w, n, 1) = Moved(w, n, 1) BY <1>1, <1>2 DEF Array
<1>4. ArrayPlaces(w, n, 1) = PlacesMoved(w, n, Position(w)) BY <1>1, <1>2 DEF ArrayPlaces
<1> QED BY <1>3, <1>4

LEMMA ArrayAlong ==
  ASSUME NEW w, Writer(w), NEW n \in Nat \ {0}, ~Array(w, n, 1).error, Known(Array(w, n, 1))
  PROVE  Along(w, Array(w, n, 1)) /\ Mark(ArrayPlaces(w, n, 1), w, Array(w, n, 1))
<1> DEFINE b == Array(w, n, 1)
           first == Position(w) + 1
           slot == SlotAt(w, first)
           p == ArrayPlaces(w, n, 1)[1]
           last == Position(w) + n
<1>1. Regular(w) /\ Sound(w) /\ ~w.error /\ w.full # "in" /\ End(w) <= Wrapped BY DEF Writer
<1>2. n \in Nat /\ n # 0 OBVIOUS
<1>3. b = Moved(w, n, 1) /\ ArrayPlaces(w, n, 1) = PlacesMoved(w, n, Position(w))
  BY <1>1, <1>2, ArrayIs
<1>4. ~b.error /\ Known(b) OBVIOUS
<1>5. Sound(b) BY <1>1, <1>2, ArrayAligned, ArithmeticSizes
<1> HIDE DEF b
<1>6. /\ Regular(b) /\ b.ends = w.ends /\ b.full = w.full
      /\ Known(w) /\ NotAfter(w, b) /\ Available(w, n) = n
      /\ LiesAt(b, w, last)
  <2> DEFINE m == Moved(w, n, 1)
  <2>1. ~m.error /\ Known(m) BY <1>3, <1>4
  <2>2. /\ Regular(m) /\ m.ends = w.ends /\ m.full = w.full
        /\ Known(w) /\ NotAfter(w, m) /\ Available(w, n) = n
    BY <1>2, <2>1, MovedAlong, ArithmeticSizes
  <2>4. LiesAt(m, w, last)
    <3>1. w \in Buffers BY <1>1 DEF Regular
    <3> QED BY <1>2, <2>2, <3>1, MovedFields
  <2> HIDE DEF m
  <2>3. b = m BY <1>3 DEF m
  <2> HIDE DEF last
  <2> QED BY <2>2, <2>3, <2>4
<1>7. Along(w, b) BY <1>4, <1>5, <1>6, AlongEnds
<1>8. p = <<slot, first - Begins(w, slot) - 1>>
  <2>1. 1 \in 1..n BY <1>2
  <2> QED BY <1>3, <1>6, <2>1 DEF PlacesMoved, PlaceAt
<1>9. /\ w.slot \in Nat \ {0} /\ w.at \in Nat /\ Position(w) \in Nat /\ SlotSize(w) \in Int
      /\ b.slot \in Nat \ {0} /\ b.at \in Nat
  BY <1>1, <1>6, SlotType
<1>10. first \in Nat /\ last \in Nat /\ first <= last BY <1>2, <1>9
<1>11. /\ slot \in Nat \ {0} /\ Begins(w, slot) \in Nat BY <1>1, <1>10, SlotBounds
<1>12. slot <= b.slot
  <2> HIDE DEF first, last
  <2> QED BY <1>1, <1>6, <1>10, SlotBounds DEF LiesAt
<1>13. /\ w.at < SlotSize(w) => /\ slot >= w.slot
                                /\ slot = w.slot => first - Begins(w, slot) = w.at + 1
       /\ ~(w.at < SlotSize(w)) => slot > w.slot
  BY <1>1, <1>6, MovesOn
<1> HIDE DEF p, slot, first, last
<1>14. p[1] = slot /\ p[2] = first - Begins(w, slot) - 1 BY <1>8
<1>15. IsPlace(p) BY <1>10, <1>11, <1>14 DEF IsPlace
<1>16. Passed(p, b)
  <2>1. CASE slot < b.slot BY <1>14, <2>1 DEF Passed
  <2>2. CASE slot = b.slot
    <3>1. b.at = last - Begins(w, slot) BY <1>6, <2>2 DEF LiesAt
    <3>2. p[2] < b.at BY <1>10, <1>11, <1>14, <3>1
    <3> QED BY <1>14, <2>2, <3>2 DEF Passed
  <2> QED BY <1>9, <1>11, <1>12, <2>1, <2>2
<1>17. ~Passed(p, w)
  <2>1. CASE w.at < SlotSize(w)
    <3>1. CASE slot = w.slot
      <4>1. p[2] = w.at BY <1>9, <1>10, <1>11, <1>13, <1>14, <2>1, <3>1
      <4> QED BY <1>9, <1>11, <1>14, <3>1, <4>1 DEF Passed
    <3>2. CASE slot # w.slot
      BY <1>9, <1>11, <1>13, <1>14, <2>1, <3>2 DEF Passed
    <3> QED BY <3>1, <3>2
  <2>2. CASE ~(w.at < SlotSize(w)) BY <1>9, <1>11, <1>13, <1>14, <2>2 DEF Passed
  <2> QED BY <2>1, <2>2
<1> QED BY <1>7, <1>15, <1>16, <1>17 DEF Mark, b, p

LEMMA ArrayAlike ==
  ASSUME NEW w, Writer(w), NEW n \in Nat \ {0}, ~Array(w, n, 1).error,
         NEW f, Final(f, Array(w, n, 1))
  PROVE  /\ Array(Arrived(w, f), n, 1) = Arrived(Array(w, n, 1), f)
         /\ ArrayPlaces(Arrived(w, f), n, 1) = ArrayPlaces(w, n, 1)
         /\ ~Array(Arrived(w, f), n, 1).error
<1> DEFINE r == Arrived(w, f)
           b == Array(w, n, 1)
<1>1. Regular(w) /\ ~w.error /\ Sound(w) BY DEF Writer
<1>2. b = Moved(w, n, 1) /\ ArrayPlaces(w, n, 1) = PlacesMoved(w, n, Position(w))
  BY <1>1, ArrayIs
<1>3. ~b.error /\ Final(f, b) OBVIOUS
<1> HIDE DEF b
<1>4. /\ Final(f, w) /\ Moved(r, n, 1) = Arrived(b, f)
      /\ PlacesMoved(r, n, Position(r)) = PlacesMoved(w, n, Position(w))
  BY <1>2, <1>3, MovedAlike, ArithmeticSizes
<1>5. Regular(r) /\ ~r.error
  <2>1. Regular(r) /\ r.error = w.error BY <1>1, <1>4, ArrivedFacts
  <2> HIDE DEF r
  <2> QED BY <1>1, <2>1
<1>6. /\ Array(r, n, 1) = Moved(r, n, 1)
      /\ ArrayPlaces(r, n, 1) = PlacesMoved(r, n, Position(r))
  <2> HIDE DEF r
  <2> QED BY <1>5, ArrayIs
<1>7. ~Arrived(b, f).error
  <2>1. b \in Buffers BY <1>1, <1>2, MovedRegular, ArithmeticSizes DEF Regular
  <2>2. Arrived(b, f).error = b.error BY <2>1, ArrivedFields
  <2> QED BY <1>3, <2>2
<1> HIDE DEF r
<1>8. /\ Array(r, n, 1) = Arrived(b, f) /\ ~Array(r, n, 1).error
      /\ ArrayPlaces(r, n, 1) = ArrayPlaces(w, n, 1)
  BY <1>2, <1>4, <1>6, <1>7
<1> QED BY <1>8 DEF r, b

\* Padding ends with the slot.
LEMMA AlignToFields ==
  ASSUME NEW w, Regular(w), Sound(w), NEW n \in DataSizes
  PROVE  LET b == AlignTo(w, n)
             padding == BufferAlignment(w, n)
             room == BufferRemaining(w)
         IN  /\ Regular(b) /\ b.ends = w.ends /\ b.slot = w.slot /\ b.error = w.error
             /\ b.full = w.full /\ b.last = n /\ b.offset = w.offset + padding
             /\ padding \in Int
             /\ b.at = w.at + IF padding <= room THEN padding ELSE room
<1> DEFINE b == AlignTo(w, n)
           padding == BufferAlignment(w, n)
           room == BufferRemaining(w)
           moved == IF padding <= room THEN padding ELSE room
<1>1. w \in Buffers BY DEF Regular
<1>2. b = [w EXCEPT !.offset = @ + padding, !.last = n, !.at = @ + moved] BY DEF AlignTo
<1>3. Regular(b) BY KeptRegular
<1>4. padding \in Int
  <2>1. n \in Nat \ {0} BY Sizes
  <2>2. w.offset \in Nat BY SlotType
  <2> QED BY <2>1, <2>2 DEF BufferAlignment, Padding
<1> HIDE DEF b, padding, moved
<1>5. /\ b.ends = w.ends /\ b.slot = w.slot /\ b.error = w.error
      /\ b.full = w.full /\ b.last = n /\ b.offset = w.offset + padding
      /\ b.at = w.at + moved
  BY <1>1, <1>2 DEF Buffers
<1> QED BY <1>3, <1>4, <1>5 DEF b, padding, moved

LEMMA AlignToAlong ==
  ASSUME NEW w, Writer(w), NEW n \in DataSizes, Known(AlignTo(w, n))
  PROVE  Along(w, AlignTo(w, n))
<1> DEFINE b == AlignTo(w, n)
           padding == BufferAlignment(w, n)
           room == BufferRemaining(w)
<1>1. Regular(w) /\ Sound(w) /\ ~w.error /\ w \in Buffers BY DEF Writer, Regular
<1>2. /\ Regular(b) /\ b.ends = w.ends /\ b.slot = w.slot /\ b.error = w.error
      /\ b.full = w.full
      /\ b.at = w.at + IF padding <= room THEN padding ELSE room
  BY <1>1, AlignToFields
<1>3. Sound(b) BY <1>1, AlignmentKept
<1>4. Known(b) OBVIOUS
<1>5. padding \in Nat BY <1>1, AlignmentFills
<1> HIDE DEF b, padding, room
<1>6. Known(w) BY <1>2, <1>4 DEF Known
<1>7. w.slot \in Nat /\ w.at \in Nat /\ room \in Nat /\ SlotSize(w) \in Int
  BY <1>1, SlotType DEF room
<1>8. w.at >= SlotSize(w) => room = 0 BY <1>7 DEF room, BufferRemaining
<1>9. NotAfter(w, b) BY <1>2, <1>5, <1>7, <1>8 DEF NotAfter
<1>10. ~b.error BY <1>1, <1>2
<1>11. Along(w, b) BY <1>2, <1>3, <1>6, <1>9, <1>10, AlongEnds
<1> QED BY <1>11 DEF b

LEMMA AlignToAlike ==
  ASSUME NEW w, Writer(w), NEW n \in DataSizes, NEW f, Final(f, AlignTo(w, n))
  PROVE  AlignTo(Arrived(w, f), n) = Arrived(AlignTo(w, n), f)
<1> DEFINE b == AlignTo(w, n)
           r == Arrived(w, f)
           c == AlignTo(r, n)
           d == Arrived(b, f)
           padding == BufferAlignment(w, n)
           room == BufferRemaining(w)
           rroom == BufferRemaining(r)
<1>1. Regular(w) /\ Sound(w) /\ ~w.error /\ w \in Buffers BY DEF Writer, Regular
<1>2. /\ Regular(b) /\ b.ends = w.ends /\ b.slot = w.slot /\ b.error = w.error
      /\ b.full = w.full /\ b.last = n /\ b.offset = w.offset + padding
      /\ b.at = w.at + IF padding <= room THEN padding ELSE room
  BY <1>1, AlignToFields
<1>3. b \in Buffers /\ Known(b) BY <1>2, ArrivedFacts DEF Regular
<1>4. NotAfter(w, b) BY <1>3, AlignToAlong DEF Along
<1>5. Final(f, w) BY <1>1, <1>2, <1>4, FinalBefore
<1>6. /\ Regular(r) /\ r.slot = w.slot /\ r.at = w.at /\ r.offset = w.offset /\ r.last = w.last
      /\ r.error = w.error
  BY <1>1, <1>5, ArrivedFacts
<1>7. r.ends = ArrivedEnds(f) /\ r.full = IF f.full = "none" THEN "none" ELSE "in"
  BY <1>1, ArrivedFields
<1>8. /\ d \in Buffers /\ d.ends = ArrivedEnds(f)
      /\ d.full = IF f.full = "none" THEN "none" ELSE "in"
      /\ d.slot = b.slot /\ d.at = b.at /\ d.offset = b.offset /\ d.last = b.last
      /\ d.error = b.error
  <2>1. d \in Buffers BY <1>2, ArrivedFacts DEF Regular
  <2> QED BY <1>3, <2>1, ArrivedFields
<1>9. /\ w.slot < f.slot => rroom = room
      /\ w.slot = f.slot => w.at <= f.at /\ rroom = f.at - w.at
  BY <1>1, <1>5, ArrivedRoom
<1>10. /\ NotAfter(b, f) /\ f.slot \in Nat /\ f.at \in Nat
       /\ b.slot \in Nat /\ b.at \in Nat /\ SlotSize(b) \in Int
  BY <1>2, SlotType DEF Final
<1>11. padding \in Nat BY <1>1, AlignmentFills
<1>12. SlotSize(b) = SlotSize(w) BY <1>2, SameSize
<1>13. w.slot \in Nat /\ w.at \in Nat /\ SlotSize(w) \in Int BY <1>1, SlotType
<1>14. room = IF w.at < SlotSize(w) THEN SlotSize(w) - w.at ELSE 0 BY DEF BufferRemaining
<1> HIDE DEF b, r, d, padding, room, rroom
<1>15. (IF padding <= rroom THEN padding ELSE rroom) = (IF padding <= room THEN padding ELSE room)
  <2>1. w.slot <= f.slot BY <1>2, <1>10 DEF NotAfter
  <2>2. CASE w.slot < f.slot BY <1>9, <2>2
  <2>3. CASE w.slot = f.slot
    <3>1. b.at <= f.at /\ (b.at >= SlotSize(w) => f.at = b.at)
      BY <1>2, <1>10, <1>12, <1>13, <2>3 DEF NotAfter
    <3>2. rroom = f.at - w.at BY <1>9, <2>3
    <3>3. CASE padding <= room
      <4>1. padding <= rroom BY <1>2, <1>10, <1>11, <1>13, <3>1, <3>2, <3>3
      <4> QED BY <3>3, <4>1
    <3>4. CASE ~(padding <= room)
      <4>1. b.at = w.at + room BY <1>2, <3>4
      <4>2. b.at >= SlotSize(w) BY <1>13, <1>14, <4>1
      <4>3. rroom = room BY <1>10, <1>13, <1>14, <3>1, <3>2, <4>1, <4>2
      <4> QED BY <4>3
    <3> QED BY <3>3, <3>4
  <2> QED BY <1>10, <1>13, <2>1, <2>2, <2>3
<1>16. Sound(r) BY <1>1, <1>6 DEF Sound
<1>17. BufferAlignment(r, n) = padding BY <1>6 DEF BufferAlignment, padding
<1>18. /\ Regular(c) /\ c.ends = r.ends /\ c.slot = r.slot /\ c.error = r.error
       /\ c.full = r.full /\ c.last = n /\ c.offset = r.offset + padding
       /\ c.at = r.at + IF padding <= rroom THEN padding ELSE rroom
  <2>1. /\ Regular(c) /\ c.ends = r.ends /\ c.slot = r.slot /\ c.error = r.error
        /\ c.full = r.full /\ c.last = n /\ c.offset = r.offset + BufferAlignment(r, n)
        /\ c.at = r.at + IF BufferAlignment(r, n) <= BufferRemaining(r)
                         THEN BufferAlignment(r, n) ELSE BufferRemaining(r)
    BY <1>6, <1>16, AlignToFields
  <2> HIDE DEF c
  <2> QED BY <1>17, <2>1 DEF rroom
<1> HIDE DEF c
<1>19. c \in Buffers BY <1>18 DEF Regular
<1>20. c.at = d.at BY <1>2, <1>6, <1>8, <1>15, <1>18
<1>21. c.offset = d.offset BY <1>2, <1>6, <1>8, <1>18
<1>22. c.error = d.error BY <1>2, <1>6, <1>8, <1>18
<1>23. c.ends = d.ends /\ c.slot = d.slot /\ c.last = d.last /\ c.full = d.full
  BY <1>2, <1>6, <1>7, <1>8, <1>18
<1>24. c = d BY <1>8, <1>19, <1>20, <1>21, <1>22, <1>23, SameFields
<1> QED BY <1>24 DEF b, c, d, r

\* A buffer that begins anew is where it was.
LEMMA RebasedFields ==
  ASSUME NEW w \in Buffers
  PROVE  LET b == RebasedBuffer(w) IN
         /\ b \in Buffers /\ b.ends = w.ends /\ b.slot = w.slot /\ b.at = w.at /\ b.offset = 0
         /\ b.last = 0 /\ b.error = FALSE /\ b.full = w.full
BY DEF RebasedBuffer, Buffers

LEMMA RebaseAlong ==
  ASSUME NEW w, Writer(w), Known(RebasedBuffer(w))
  PROVE  Along(w, RebasedBuffer(w))
<1> DEFINE b == RebasedBuffer(w)
<1>1. Regular(w) /\ Sound(w) /\ ~w.error /\ w \in Buffers BY DEF Writer, Regular
<1>2. /\ b \in Buffers /\ b.ends = w.ends /\ b.slot = w.slot /\ b.at = w.at
      /\ b.error = FALSE /\ b.full = w.full
  BY <1>1, RebasedFields
<1>3. Regular(b) /\ Sound(b) BY <1>1, KeptRegular, AlignmentKept, ArithmeticSizes
<1>4. Known(b) OBVIOUS
<1> HIDE DEF b
<1>5. Known(w) BY <1>2, <1>4 DEF Known
<1>6. w.slot \in Nat /\ w.at \in Nat BY <1>1, SlotType
<1>7. NotAfter(w, b) BY <1>2, <1>6 DEF NotAfter
<1>8. Along(w, b) BY <1>2, <1>3, <1>5, <1>7, AlongEnds
<1> QED BY <1>8 DEF b

LEMMA RebaseAlike ==
  ASSUME NEW w, Writer(w), NEW f, Final(f, RebasedBuffer(w))
  PROVE  RebasedBuffer(Arrived(w, f)) = Arrived(RebasedBuffer(w), f)
<1> DEFINE b == RebasedBuffer(w)
           r == Arrived(w, f)
           c == RebasedBuffer(r)
           d == Arrived(b, f)
<1>1. Regular(w) /\ Sound(w) /\ ~w.error /\ w \in Buffers BY DEF Writer, Regular
<1>2. /\ b \in Buffers /\ b.ends = w.ends /\ b.slot = w.slot /\ b.at = w.at /\ b.offset = 0
      /\ b.last = 0 /\ b.error = FALSE /\ b.full = w.full
  BY <1>1, RebasedFields
<1>3. Regular(b) BY <1>1, KeptRegular, ArithmeticSizes
<1>4. Known(b) BY <1>3, ArrivedFacts
<1>5. NotAfter(w, b) BY <1>4, RebaseAlong DEF Along
<1>6. Final(f, w) BY <1>1, <1>2, <1>3, <1>5, FinalBefore
<1>7. r \in Buffers BY <1>1, <1>6, ArrivedFacts DEF Regular
<1>8. /\ r.ends = ArrivedEnds(f) /\ r.full = IF f.full = "none" THEN "none" ELSE "in"
      /\ r.slot = w.slot /\ r.at = w.at
  BY <1>1, ArrivedFields
<1>9. /\ d \in Buffers /\ d.ends = ArrivedEnds(f)
      /\ d.full = IF f.full = "none" THEN "none" ELSE "in"
      /\ d.slot = b.slot /\ d.at = b.at /\ d.offset = b.offset /\ d.last = b.last
      /\ d.error = b.error
  <2>1. d \in Buffers BY <1>3, ArrivedFacts DEF Regular
  <2> QED BY <1>2, <2>1, ArrivedFields
<1> HIDE DEF b, r, d
<1>10. /\ c \in Buffers /\ c.ends = r.ends /\ c.slot = r.slot /\ c.at = r.at /\ c.offset = 0
       /\ c.last = 0 /\ c.error = FALSE /\ c.full = r.full
  BY <1>7, RebasedFields
<1> HIDE DEF c
<1>11. c.full = d.full /\ c.ends = d.ends /\ c.slot = d.slot /\ c.at = d.at
  BY <1>2, <1>8, <1>9, <1>10
<1>12. c.offset = d.offset /\ c.last = d.last BY <1>2, <1>9, <1>10
<1>13. c.error = d.error BY <1>2, <1>9, <1>10
<1>14. c = d BY <1>9, <1>10, <1>11, <1>12, <1>13, SameFields
<1> QED BY <1>14 DEF b, c, d, r

-----------------------------------------------------------------------------
(* The first slot.  A reader that is in it has always been in it, and a    *)
(* value that ends in it is in one piece.                                  *)

LEMMA MovedFromFirst ==
  ASSUME NEW buf, Regular(buf), buf.full # "out", NEW n \in Nat, NEW size,
         Moved(buf, n, size).slot = 1
  PROVE  buf.slot = 1
<1> DEFINE k == Available(buf, n)
           pos == Position(buf) + k
<1>1. buf \in Buffers /\ buf.ends # <<>> /\ buf.slot \in DOMAIN buf.ends
      /\ \A i, j \in DOMAIN buf.ends : i <= j => buf.ends[i] <= buf.ends[j]
  BY DEF Regular
<1>2. k \in Nat BY AvailableBounds
<1>3. /\ Position(buf) \in Nat /\ Len(buf.ends) \in Nat \ {0}
      /\ DOMAIN buf.ends = 1..Len(buf.ends) /\ buf.slot \in Nat \ {0}
      /\ \A i \in DOMAIN buf.ends : buf.ends[i] \in Nat
  BY SlotType
<1>4. Moved(buf, n, size) = MovedBy(buf, n, size, k, pos) BY DEF Moved
<1>5. pos \in Nat BY <1>2, <1>3
<1>6. Position(buf) >= Begins(buf, buf.slot)
  <2>1. /\ Begins(buf, buf.slot + 1) = buf.ends[buf.slot]
        /\ buf.ends[buf.slot] \in Nat /\ Begins(buf, buf.slot) \in Nat
        /\ Begins(buf, buf.slot) <= buf.ends[buf.slot]
    BY <1>1, NextBegins DEF Known
  <2>2. buf.at \in Nat BY SlotType
  <2> QED BY <2>1, <2>2 DEF Position
<1> HIDE DEF k, pos
<1>7. CASE k = 0
  <2>1. Moved(buf, n, size).slot = buf.slot BY <1>1, <1>4, <1>7 DEF MovedBy, Buffers
  <2> QED BY <2>1
<1>8. CASE k # 0
  <2>1. Moved(buf, n, size).slot = SlotAt(buf, pos) BY <1>1, <1>4, <1>8 DEF MovedBy, Buffers
  <2>2. SlotAt(buf, pos) = 1 BY <2>1
  <2>3. 1 \in DOMAIN buf.ends BY <1>3
  <2>4. pos <= buf.ends[1] BY <1>5, <2>2, <2>3, SlotBounds
  <2> SUFFICES ASSUME buf.slot # 1 PROVE FALSE OBVIOUS
  <2>5. buf.slot - 1 \in DOMAIN buf.ends /\ Begins(buf, buf.slot) = buf.ends[buf.slot - 1]
    BY <1>1, NextBegins DEF Known
  <2>6. 1 <= buf.slot - 1 BY <1>3
  <2>7. buf.ends[1] <= buf.ends[buf.slot - 1] BY <1>1, <2>3, <2>5, <2>6
  <2>8. pos > Position(buf) BY <1>2, <1>3, <1>8 DEF pos
  <2>9. buf.ends[1] \in Nat /\ buf.ends[buf.slot - 1] \in Nat BY <1>3, <2>3, <2>5
  <2> QED BY <1>3, <1>5, <1>6, <2>4, <2>5, <2>7, <2>8, <2>9
<1> QED BY <1>7, <1>8

LEMMA AlignedFromFirst ==
  ASSUME NEW buf, Regular(buf), buf.full # "out", NEW n \in DataSizes,
         Aligned(buf, n).slot = 1
  PROVE  buf.slot = 1
<1>1. BufferAlignment(buf, n) \in Nat
  <2>1. buf.offset \in Nat BY SlotType
  <2> QED BY <2>1, PaddingFills DEF BufferAlignment
<1> QED BY <1>1, MovedFromFirst DEF Aligned, AdvanceBuffer

LEMMA ValueFromFirst ==
  ASSUME NEW buf, Regular(buf), Sound(buf), buf.full # "out", NEW n \in DataSizes,
         Value(buf, n).slot = 1
  PROVE  /\ buf.slot = 1
         /\ ~Value(buf, n).error => SwappedPlaces(buf, n) = ValuePlaces(buf, n)
<1> DEFINE a == Aligned(buf, n)
           room == BufferRemaining(a)
           c == Continued(a)
           v == Value(buf, n)
<1>1. Regular(a) BY AlignedFacts
<1>2. a \in Buffers /\ a.slot \in Nat \ {0} /\ a.error \in BOOLEAN BY <1>1, SlotType DEF Regular
<1>3. v = ValueFrom(buf, n, a, room, c) BY DEF Value
<1>4. a.slot = 1 => buf.slot = 1 BY AlignedFromFirst
<1>5. Regular(c) /\ c.error \in BOOLEAN
  <2>1. Regular(c) BY <1>1, ContinuedFacts
  <2> QED BY <2>1, SlotType
<1>6. room \in Nat /\ n \in Nat
  <2>1. room \in Nat BY <1>1, SlotType
  <2> QED BY <2>1, Sizes
<1>7. CASE a.error
  <2> HIDE DEF a, c, v, room
  <2>1. v = a BY <1>3, <1>7 DEF ValueFrom
  <2> QED BY <1>4, <1>7, <2>1 DEF v
<1>8. CASE ~a.error /\ n <= room
  <2>1. v.slot = a.slot BY <1>8, ValueInside DEF Behold
  <2>2. SwappedPlaces(buf, n) = ValuePlaces(buf, n) BY <1>8 DEF SwappedPlaces
  <2> QED BY <1>4, <2>1, <2>2
<1>9. CASE ~a.error /\ ~(n <= room) /\ c.error
  <2> DEFINE last == IF room > 0 THEN buf.last ELSE a.last
  <2>1. n > room BY <1>6, <1>9
  <2> HIDE DEF a, c, v, room
  <2>2. v = [a EXCEPT !.error = TRUE, !.last = IF room > 0 THEN buf.last ELSE @]
    BY <1>3, <1>9, <2>1, <1>6 DEF ValueFrom
  <2>3. v.slot = a.slot /\ v.error = TRUE BY <1>2, <2>2 DEF Buffers
  <2> QED BY <1>4, <2>3 DEF v
<1>10. CASE ~a.error /\ ~(n <= room) /\ ~c.error
  <2>1. v.slot = a.slot + 1 BY <1>10, ValueSplit DEF Behold
  <2> HIDE DEF a, v
  <2> QED BY <1>2, <2>1 DEF v
<1> QED BY <1>2, <1>5, <1>7, <1>8, <1>9, <1>10

LEMMA ArrayFromFirst ==
  ASSUME NEW buf, Regular(buf), Sound(buf), buf.full # "out", NEW n \in Nat,
         Array(buf, n, 1).slot = 1
  PROVE  buf.slot = 1
<1> DEFINE a == Aligned(buf, 1)
           start == ArrayStart(buf, 1)
<1>1. Regular(a) /\ a.full = buf.full BY AlignedFacts, ArithmeticSizes
<1>2. a \in Buffers /\ buf.last \in {0} \cup DataSizes BY <1>1, SlotType DEF Regular
<1>3. start = [a EXCEPT !.last = buf.last] BY DEF ArrayStart
<1>4. Array(buf, n, 1) = Moved(start, n * 1, 1) BY DEF Array
<1>5. a.slot = 1 => buf.slot = 1 BY AlignedFromFirst, ArithmeticSizes
<1> HIDE DEF a, start
<1>6. Regular(start) /\ start.full = a.full /\ start.slot = a.slot
  BY <1>1, <1>2, <1>3 DEF Regular, Buffers
<1>7. n * 1 \in Nat OBVIOUS
<1>8. start.slot = 1 BY <1>1, <1>4, <1>6, <1>7, MovedFromFirst
<1> QED BY <1>5, <1>6, <1>8

-----------------------------------------------------------------------------
(* What the writer has passed through.  A snapshot is its buffer (b), the  *)
(* nodes it had left (f), how many values it had written (n) and whether   *)
(* it was told an order that is not the machine's (o).                     *)

Width(x) == IF x.k = "opt" THEN 1 ELSE IF x.k \in {"bytes", "list"} THEN 4 ELSE x.n

\* The nodes g follow the value e that was written for the node x.
Told(x, e, g) ==
  \/ x.k = "int" /\ g = <<>>
  \/ /\ x.k = "bytes" /\ e.v \in Nat /\ x.cap \in Nat /\ (e.v <= x.cap \/ ~e.fits)
     /\ g = Elements(e.v, x.cap)
  \/ x.k = "opt" /\ g = IF e.v = 1 THEN x.s ELSE <<>>
  \/ x.k = "tag" /\ e.v \in DOMAIN x.alt /\ g = x.alt[e.v]
  \/ /\ x.k = "list" /\ e.v \in Nat /\ x.cap \in Nat /\ (e.v <= x.cap \/ ~e.fits)
     /\ g = Repeated(x.s, e.v)

\* From a snapshot to the next one: a value, an array of bytes, or no value at all.
ValueWrote(x, n, s, t, e) ==
  /\ n = Width(x) /\ n \in DataSizes /\ t.b = Value(s.b, n) /\ ~t.b.error
  /\ t.n = s.n + 1 /\ e.k = x.k /\ e.places = ValuePlaces(s.b, n)
  /\ t.o = s.o /\ e.foreign = (n > 1 /\ s.o)
  /\ \E g : Told(x, e, g) /\ t.f = g \o Tail(s.f)
RawWrote(x, n, s, t, e) ==
  /\ x.k \in {"raw", "data"} /\ n = x.n /\ n \in Nat \ {0}
  /\ t.b = Array(s.b, n, 1) /\ ~t.b.error
  /\ t.n = s.n + 1 /\ e.places = ArrayPlaces(s.b, n, 1) /\ t.f = Tail(s.f)
  /\ t.o = s.o /\ e.foreign = FALSE
OtherWrote(x, s, t) ==
  /\ t.n = s.n
  /\ \/ /\ x.k = "only" /\ t.b = s.b /\ t.f = (IF x.dir = "in" THEN x.s ELSE <<>>) \o Tail(s.f)
        /\ t.o = s.o
     \/ /\ x.k = "align" /\ x.n \in DataSizes /\ t.b = AlignTo(s.b, x.n) /\ t.f = Tail(s.f)
        /\ t.o = s.o
     \/ x.k = "rebase" /\ t.b = RebasedBuffer(s.b) /\ t.f = Tail(s.f) /\ t.o = FALSE
     \/ x.k = "endian" /\ t.b = s.b /\ t.f = Tail(s.f) /\ x.other \in BOOLEAN /\ t.o = x.other
Wrote(s, t, w) ==
  /\ s.f # <<>>
  /\ \/ \E n : ValueWrote(Head(s.f), n, s, t, w[t.n]) \/ RawWrote(Head(s.f), n, s, t, w[t.n])
     \/ OtherWrote(Head(s.f), s, t)

\* The snapshots R of a message of that name, with the values w, up to the last one.
Snapshot(s, last, w) ==
  /\ Writer(s.b) /\ s.n \in 0..Len(w) /\ s.o \in BOOLEAN
  /\ NotAfter(s.b, last.b) /\ s.b.ends = last.b.ends /\ s.b.full = last.b.full
Leads(R, s, last, w) == s = last \/ \E t \in R : Wrote(s, t, w)
Begun(R, name) ==
  \E b \in AgentBuffers : [b |-> b, f |-> ReceivedForms[name], n |-> 0, o |-> FALSE] \in R
Tracked(R, last, w, name) ==
  /\ last \in R /\ Begun(R, name)
  /\ \A s \in R : Snapshot(s, last, w) /\ Leads(R, s, last, w)

\* No two values begin at the same place, and the buffer has gone past all of them.
Firsts(w) == \A i, j \in DOMAIN w : w[i].places[1] = w[j].places[1] => i = j
Behindhand(w, b) == \A i \in DOMAIN w : IsPlace(w[i].places[1]) /\ Passed(w[i].places[1], b)

\* The values are those there were, and at most one more.
Grown(w, v) == Len(w) \in Nat /\ Len(v) \in Nat /\ Len(w) <= Len(v) /\ \A i \in 1..Len(w) : v[i] = w[i]

LEMMA LeadsTo ==
  ASSUME NEW Q, NEW s, NEW u \in Q, NEW t, NEW v, Wrote(s, u, v)
  PROVE  Leads(Q, s, t, v)
BY DEF Leads

LEMMA WroteStays ==
  ASSUME NEW s, NEW t, NEW w, NEW v, Wrote(s, t, w), Grown(w, v),
         s.n \in 0..Len(w), t.n \in 0..Len(w)
  PROVE  Wrote(s, t, v)
<1>1. CASE OtherWrote(Head(s.f), s, t) BY <1>1 DEF Wrote
<1>2. CASE \E n : ValueWrote(Head(s.f), n, s, t, w[t.n]) \/ RawWrote(Head(s.f), n, s, t, w[t.n])
  <2>1. PICK n : ValueWrote(Head(s.f), n, s, t, w[t.n]) \/ RawWrote(Head(s.f), n, s, t, w[t.n])
    BY <1>2
  <2>2. t.n = s.n + 1 BY <2>1 DEF ValueWrote, RawWrote
  <2>3. t.n \in 1..Len(w) BY <2>2 DEF Grown
  <2>4. v[t.n] = w[t.n] BY <2>3 DEF Grown
  <2>5. s.f # <<>> BY DEF Wrote
  <2>6. ValueWrote(Head(s.f), n, s, t, v[t.n]) \/ RawWrote(Head(s.f), n, s, t, v[t.n])
    BY <2>1, <2>4
  <2> QED BY <2>5, <2>6 DEF Wrote
<1> QED BY <1>1, <1>2 DEF Wrote

\* The snapshots go on with a new one.
LEMMA TrackNext ==
  ASSUME NEW R, NEW last, NEW w, NEW name, Tracked(R, last, w, name),
         NEW t, NEW v, Grown(w, v), Along(last.b, t.b), Wrote(last, t, v), t.n \in 0..Len(v),
         t.o \in BOOLEAN
  PROVE  \E Q : Tracked(Q, t, v, name)
<1> DEFINE Q == R \cup {t}
<1>1. last \in R /\ Begun(R, name) BY DEF Tracked
<1>2. R \subseteq Q /\ t \in Q OBVIOUS
<1> HIDE DEF Q
<1>3. Begun(Q, name) BY <1>1, <1>2 DEF Begun
<1>4. Writer(t.b) /\ t.b.ends = last.b.ends /\ t.b.full = last.b.full /\ NotAfter(last.b, t.b)
  BY DEF Along
<1>5. Regular(t.b) BY <1>4 DEF Writer
<1>6. ASSUME NEW s \in R PROVE Snapshot(s, t, v) /\ Leads(Q, s, t, v)
  <2>1. Snapshot(s, last, w) /\ Leads(R, s, last, w) BY DEF Tracked
  <2>2. /\ Writer(s.b) /\ s.n \in 0..Len(w) /\ s.o \in BOOLEAN
        /\ NotAfter(s.b, last.b) /\ s.b.ends = last.b.ends /\ s.b.full = last.b.full
    BY <2>1 DEF Snapshot
  <2>3. Regular(s.b) /\ Regular(last.b)
    <3>1. Snapshot(last, last, w) BY <1>1 DEF Tracked
    <3> QED BY <2>2, <3>1 DEF Snapshot, Writer
  <2>4. NotAfter(s.b, t.b) BY <1>4, <1>5, <2>2, <2>3, NotAfterTransitive
  <2>5. s.n \in 0..Len(v) BY <2>2 DEF Grown
  <2>6. Snapshot(s, t, v) BY <1>4, <2>2, <2>4, <2>5 DEF Snapshot
  <2>7. CASE s = last
    <3>1. Wrote(s, t, v) BY <2>7
    <3> QED BY <1>2, <2>6, <3>1, LeadsTo
  <2>8. CASE s # last
    <3>1. PICK u \in R : Wrote(s, u, w) BY <2>1, <2>8 DEF Leads
    <3>2. Snapshot(u, last, w) BY DEF Tracked
    <3>3. u.n \in 0..Len(w) BY <3>2 DEF Snapshot
    <3>4. Wrote(s, u, v) BY <2>2, <3>1, <3>3, WroteStays
    <3>5. u \in Q BY <1>2
    <3> QED BY <2>6, <3>4, <3>5, LeadsTo
  <2> QED BY <2>7, <2>8
<1>7. Snapshot(t, t, v) /\ Leads(Q, t, t, v)
  <2>1. NotAfter(t.b, t.b) BY <1>5, NotAfterItself
  <2> QED BY <1>4, <2>1 DEF Snapshot, Leads
<1>8. \A s \in Q : Snapshot(s, t, v) /\ Leads(Q, s, t, v) BY <1>6, <1>7 DEF Q
<1>9. Tracked(Q, t, v, name) BY <1>2, <1>3, <1>8 DEF Tracked
<1> QED BY <1>9

\* Values that were passed stay passed.
LEMMA BehindStays ==
  ASSUME NEW w, NEW a, NEW b, Writer(a), Along(a, b), Behindhand(w, a)
  PROVE  Behindhand(w, b)
<1>1. Regular(a) /\ Regular(b) /\ NotAfter(a, b) BY DEF Writer, Along
<1> SUFFICES ASSUME NEW i \in DOMAIN w
             PROVE  IsPlace(w[i].places[1]) /\ Passed(w[i].places[1], b)
  BY DEF Behindhand
<1>2. IsPlace(w[i].places[1]) /\ Passed(w[i].places[1], a) BY DEF Behindhand
<1> QED BY <1>1, <1>2, PassedStays

\* A value that is new begins where no other one does.
LEMMA FirstsGrow ==
  ASSUME NEW w, NEW S, w \in Seq(S), NEW e, NEW a, NEW b, Writer(a), Along(a, b),
         Firsts(w), Behindhand(w, a), Mark(e.places, a, b)
  PROVE  /\ Firsts(Append(w, e)) /\ Behindhand(Append(w, e), b)
         /\ Grown(w, Append(w, e)) /\ Len(Append(w, e)) = Len(w) + 1
         /\ Append(w, e)[Len(w) + 1] = e
<1> DEFINE v == Append(w, e)
           L == Len(w)
<1>1. /\ L \in Nat /\ Len(v) = L + 1 /\ DOMAIN w = 1..L /\ DOMAIN v = 1..(L + 1)
      /\ \A i \in 1..L : v[i] = w[i]
      /\ v[L + 1] = e
  OBVIOUS
<1>2. Grown(w, v) BY <1>1 DEF Grown
<1> HIDE DEF v
<1>3. Behindhand(w, b) BY BehindStays
<1>4. IsPlace(e.places[1]) /\ ~Passed(e.places[1], a) /\ Passed(e.places[1], b) BY DEF Mark
<1>5. Behindhand(v, b)
  <2> SUFFICES ASSUME NEW i \in DOMAIN v
               PROVE  IsPlace(v[i].places[1]) /\ Passed(v[i].places[1], b)
    BY DEF Behindhand
  <2>1. CASE i = L + 1 BY <1>1, <1>4, <2>1
  <2>2. CASE i # L + 1
    <3>1. i \in 1..L BY <1>1, <2>2
    <3> QED BY <1>1, <1>3, <3>1 DEF Behindhand
  <2> QED BY <2>1, <2>2
<1>6. \A i \in 1..L : v[i].places[1] # e.places[1]
  <2> TAKE i \in 1..L
  <2>1. Passed(w[i].places[1], a) BY <1>1 DEF Behindhand
  <2>2. v[i] = w[i] BY <1>1
  <2> QED BY <1>4, <2>1, <2>2
<1>7. Firsts(v)
  <2> SUFFICES ASSUME NEW i \in DOMAIN v, NEW j \in DOMAIN v,
                      v[i].places[1] = v[j].places[1]
               PROVE  i = j
    BY DEF Firsts
  <2>1. CASE i \in 1..L /\ j \in 1..L
    <3>1. w[i].places[1] = w[j].places[1] BY <1>1, <2>1
    <3> QED BY <1>1, <2>1, <3>1 DEF Firsts
  <2>2. CASE i = L + 1 /\ j \in 1..L BY <1>1, <1>6, <2>2
  <2>3. CASE j = L + 1 /\ i \in 1..L BY <1>1, <1>6, <2>3
  <2>4. CASE i = L + 1 /\ j = L + 1 BY <2>4
  <2> QED BY <1>1, <2>1, <2>2, <2>3, <2>4
<1> QED BY <1>1, <1>2, <1>5, <1>7 DEF v, L

-----------------------------------------------------------------------------
(* What the writing and the reading keep.                                  *)

Here == [b |-> ub, f |-> todo, n |-> Len(written), o |-> foreign]

\* Nothing is read before there is something to read.
Quiet == (call.dir = "in" /\ phase \in {"read", "done"}) \/ got = <<>>

InWrite ==
  call.dir = "in" /\ phase = "write" =>
    /\ ub.full # "in" /\ End(ub) <= Wrapped /\ ok = TRUE
    /\ ~ub.error /\ Known(ub) =>
         /\ Firsts(written) /\ Behindhand(written, ub)
         /\ \E R : Tracked(R, Here, written, call.name)

\* The reader takes what follows for the order p it was written in, but that it forgets
\* about it when it leaves the first slot.
Follows(o, p, slot) == (o => p) /\ (slot = 1 /\ p => o)

\* The reader is where the writer was at one of the snapshots.
ReadTo(s, last, b, f, g, o) ==
  /\ b = Arrived(s.b, last.b) /\ f = s.f /\ Len(g) = s.n
  /\ \A i \in DOMAIN g : g[i].item = i
  /\ Follows(o, s.o, b.slot)
Sent(R, last) ==
  /\ Tracked(R, last, written, call.name)
  /\ last.f = <<>> /\ last.n = Len(written) /\ Known(last.b)
Unfit == \E i \in DOMAIN written : ~written[i].fits
Matching ==
  /\ ~ok => Unfit
  /\ phase = "done" /\ ok => todo = <<>>
  /\ ok => \E R, last : Sent(R, last) /\ \E s \in R : ReadTo(s, last, ub, todo, got, foreign)
InRead ==
  call.dir = "in" /\ phase \in {"read", "done"} =>
    Firsts(written) /\ ub.full # "out" /\ (Trusting => Matching)

LInv == Quiet /\ InWrite /\ InRead

LEMMA HereIs == Here.b = ub /\ Here.f = todo /\ Here.n = Len(written) /\ Here.o = foreign
BY DEF Here

LEMMA AtWriter ==
  ASSUME IInv, LInv, call.dir = "in", phase = "write", ~ub.error
  PROVE  Writer(ub)
BY DEF IInv, BufferWell, LInv, InWrite, Writer

\* The agent writes on: as long as there is room, a step leads to a new snapshot.
LEMMA WrittenOn ==
  ASSUME IInv, IInv', LInv, call.dir = "in", phase = "write",
         phase' = phase, call' = call, got' = got, ok' = ok,
         ub'.full = ub.full, ub'.ends = ub.ends,
         ~ub'.error => ~ub.error,
         ~ub.error /\ ~ub'.error /\ Known(ub') =>
           /\ Along(ub, ub') /\ Wrote(Here, Here', written')
           /\ \/ written' = written
              \/ \E e : written' = Append(written, e) /\ Mark(e.places, ub, ub')
  PROVE  LInv'
<1>1. Quiet' BY DEF LInv, Quiet
<1>2. InRead' BY DEF InRead
<1>3. ub.full # "in" /\ End(ub) <= Wrapped /\ ok = TRUE BY DEF LInv, InWrite
<1>4. ub'.full # "in" /\ End(ub') <= Wrapped /\ ok' = TRUE BY <1>3 DEF End
<1>5. ASSUME ~ub'.error, Known(ub')
      PROVE  /\ Firsts(written') /\ Behindhand(written', ub')
             /\ \E R : Tracked(R, Here', written', call'.name)
  <2>1. ~ub.error BY <1>5
  <2>2. Writer(ub) BY <2>1, AtWriter
  <2>3. Along(ub, ub') /\ Wrote(Here, Here', written') BY <1>5, <2>1
  <2>4. Known(ub) BY <2>3 DEF Along
  <2>5. Firsts(written) /\ Behindhand(written, ub) BY <2>1, <2>4 DEF LInv, InWrite
  <2>6. PICK R : Tracked(R, Here, written, call.name) BY <2>1, <2>4 DEF LInv, InWrite
  <2>7. PICK S : written \in Seq(S) BY DEF IInv, WrittenWell
  <2>8. Grown(written, written') /\ Firsts(written') /\ Behindhand(written', ub')
    <3>1. CASE written' = written
      <4>1. Grown(written, written') BY <2>7, <3>1 DEF Grown
      <4>2. Behindhand(written, ub') BY <2>2, <2>3, <2>5, BehindStays
      <4> QED BY <2>5, <3>1, <4>1, <4>2
    <3>2. CASE \E e : written' = Append(written, e) /\ Mark(e.places, ub, ub')
      <4>1. PICK e : written' = Append(written, e) /\ Mark(e.places, ub, ub') BY <3>2
      <4> QED BY <2>2, <2>3, <2>5, <2>7, <4>1, FirstsGrow
    <3> QED BY <1>5, <2>1, <3>1, <3>2
  <2>9. Here.b = ub /\ Here'.b = ub' /\ Here'.n = Len(written') BY DEF Here
  <2>10. Len(written') \in 0..Len(written') BY <2>8 DEF Grown
  <2>13. Here'.o \in BOOLEAN
    <3>1. foreign' \in BOOLEAN BY DEF IInv, Phased
    <3> QED BY <3>1 DEF Here
  <2> DEFINE h == Here
             g == Here'
             v == written'
             name == call.name
  <2>11. /\ Tracked(R, h, written, name) /\ Grown(written, v) /\ Along(h.b, g.b)
         /\ Wrote(h, g, v) /\ g.n \in 0..Len(v) /\ g.o \in BOOLEAN
    BY <2>3, <2>6, <2>8, <2>9, <2>10, <2>13
  <2> HIDE DEF h, g, v, name
  <2>12. \E Q : Tracked(Q, g, v, name) BY <2>11, TrackNext
  <2> QED BY <2>8, <2>12 DEF g, v, name
<1>6. InWrite' BY <1>4, <1>5 DEF InWrite
<1> QED BY <1>1, <1>2, <1>6 DEF LInv

-----------------------------------------------------------------------------
(* Writing.                                                                *)

\* A value the agent writes.
LEMMA ValueTracks ==
  ASSUME IInv, IInv', LInv, call.dir = "in", Writing, NEW n \in DataSizes, n = Width(Node),
         NEW value, NEW fits, NEW then, Put(n, value, fits, then),
         \A e : e.v = value /\ e.fits = fits => Told(Node, e, then)
  PROVE  LInv'
<1> DEFINE b == Value(ub, n)
           e == Item(ub, n, value, fits)
<1>1. /\ written' = IF b.error THEN written ELSE Append(written, e)
      /\ ub' = b /\ todo' = then \o Tail(todo)
      /\ phase' = phase /\ call' = call /\ got' = got /\ ok' = ok
      /\ foreign' = foreign
  BY DEF Put
<1>2. phase = "write" /\ todo # <<>> BY DEF Writing, IInv, Phased
<1>3. Regular(ub) /\ Sound(ub) BY DEF IInv, BufferWell
<1>4. b.ends = ub.ends /\ b.full = ub.full BY <1>3, ValueAligned
<1>5. ~b.error => ~ub.error BY <1>3, ErrorSticks DEF Regular
<1>6. ASSUME ~ub.error, ~b.error, Known(b)
      PROVE  /\ Along(ub, b) /\ Wrote(Here, Here', written')
             /\ written' = Append(written, e) /\ Mark(e.places, ub, b)
  <2>1. Writer(ub) BY <1>2, <1>6, AtWriter
  <2>2. Along(ub, b) /\ Mark(ValuePlaces(ub, n), ub, b) BY <1>6, <2>1, ValueAlong
  <2>3. e.places = ValuePlaces(ub, n) /\ e.k = Node.k /\ e.v = value /\ e.fits = fits
    BY DEF Item
  <2>f. e.foreign = (n > 1 /\ foreign) BY DEF Item
  <2>4. written' = Append(written, e) BY <1>1, <1>6
  <2>5. PICK S : written \in Seq(S) BY DEF IInv, WrittenWell
  <2> HIDE DEF e
  <2>6. Len(written') = Len(written) + 1 /\ written'[Len(written) + 1] = e BY <2>4, <2>5
  <2>7. Here'.b = b /\ Here'.n = Len(written) + 1 /\ Here'.f = then \o Tail(todo)
    BY <1>1, <2>6 DEF Here
  <2> DEFINE h == Here
             g == Here'
             v == written'
  <2>8. h.b = ub /\ h.f = todo /\ h.n = Len(written) BY HereIs
  <2>9. /\ g.b = b /\ g.n = h.n + 1 /\ g.f = then \o Tail(h.f) /\ v[g.n] = e
        /\ Head(h.f) = Node /\ h.f # <<>>
    BY <1>2, <2>6, <2>7, <2>8 DEF Node
  <2>10. Told(Node, e, then) BY <2>3
  <2>o. h.o = foreign /\ g.o = foreign BY <1>1 DEF Here
  <2>p. g.o = h.o /\ e.foreign = (n > 1 /\ h.o) BY <2>f, <2>o
  <2> HIDE DEF h, g, v
  <2>11. ValueWrote(Node, n, h, g, e) BY <1>6, <2>3, <2>8, <2>9, <2>10, <2>p DEF ValueWrote
  <2>12. Wrote(h, g, v) BY <2>9, <2>11 DEF Wrote
  <2> QED BY <2>2, <2>3, <2>4, <2>12 DEF h, g, v
<1> HIDE DEF b, e
<1>7. ~ub.error /\ ~ub'.error /\ Known(ub') =>
        /\ Along(ub, ub') /\ Wrote(Here, Here', written')
        /\ \/ written' = written
           \/ \E x : written' = Append(written, x) /\ Mark(x.places, ub, ub')
  BY <1>1, <1>6
<1>8. ub'.full = ub.full /\ ub'.ends = ub.ends /\ (~ub'.error => ~ub.error) BY <1>1, <1>4, <1>5
<1> QED BY <1>1, <1>2, <1>7, <1>8, WrittenOn

\* The actions for the nodes of the agent's message, one by one.
LEMMA PutIntTracks ==
  ASSUME IInv, IInv', LInv, call.dir = "in", PutInt PROVE LInv'
<1>1. Writing /\ Node.k = "int" /\ Put(Node.n, 0, TRUE, <<>>) BY DEF PutInt
<1>2. Node.n \in DataSizes /\ Node.n = Width(Node) BY <1>1, NodeSizes DEF Width
<1>3. \A e : e.v = 0 /\ e.fits = TRUE => Told(Node, e, <<>>) BY <1>1 DEF Told
<1> QED BY <1>1, <1>2, <1>3, ValueTracks

LEMMA PutBytesTracks ==
  ASSUME IInv, IInv', LInv, call.dir = "in", PutBytes PROVE LInv'
<1>1. Writing /\ Node.k = "bytes" BY DEF PutBytes
<1>2. PICK len \in Options({l \in Lengths : l >= Node.least}) :
        Put(4, len, len <= Node.cap, Elements(len, Node.cap))
  BY DEF PutBytes
<1>3. len \in Nat BY <1>2, LengthsAssumption DEF Options
<1>4. Form(todo) /\ todo # <<>> BY <1>1, InForm
<1>5. Node.cap \in Nat BY <1>1, <1>4, FormStep DEF Node
<1>6. 4 \in DataSizes /\ 4 = Width(Node) BY <1>1, ArithmeticSizes DEF Width
<1> DEFINE then == Elements(len, Node.cap)
           fits == len <= Node.cap
<1>7. \A e : e.v = len /\ e.fits = fits => Told(Node, e, then) BY <1>1, <1>3, <1>5 DEF Told
<1>8. Put(4, len, fits, then) BY <1>2
<1> HIDE DEF then, fits
<1> QED BY <1>1, <1>6, <1>7, <1>8, ValueTracks

LEMMA PutOptTracks ==
  ASSUME IInv, IInv', LInv, call.dir = "in", PutOpt PROVE LInv'
<1>1. Writing /\ Node.k = "opt" BY DEF PutOpt
<1>2. PICK flag : Put(1, flag, TRUE, IF flag = 1 THEN Node.s ELSE <<>>) BY DEF PutOpt
<1>3. 1 \in DataSizes /\ 1 = Width(Node) BY <1>1, ArithmeticSizes DEF Width
<1> DEFINE then == IF flag = 1 THEN Node.s ELSE <<>>
<1>4. \A e : e.v = flag /\ e.fits = TRUE => Told(Node, e, then) BY <1>1 DEF Told
<1>5. Put(1, flag, TRUE, then) BY <1>2
<1> HIDE DEF then
<1> QED BY <1>1, <1>3, <1>4, <1>5, ValueTracks

LEMMA PutTagTracks ==
  ASSUME IInv, IInv', LInv, call.dir = "in", PutTag PROVE LInv'
<1>1. Writing /\ Node.k = "tag" BY DEF PutTag
<1>2. PICK tag \in Options(DOMAIN Node.alt) : Put(Node.n, tag, TRUE, Node.alt[tag])
  BY DEF PutTag
<1>3. tag \in DOMAIN Node.alt BY <1>2 DEF Options
<1>4. Node.n \in DataSizes /\ Node.n = Width(Node) BY <1>1, NodeSizes DEF Width
<1> DEFINE then == Node.alt[tag]
<1>5. \A e : e.v = tag /\ e.fits = TRUE => Told(Node, e, then) BY <1>1, <1>3 DEF Told
<1>6. Put(Node.n, tag, TRUE, then) BY <1>2
<1> HIDE DEF then
<1> QED BY <1>1, <1>4, <1>5, <1>6, ValueTracks

LEMMA PutListTracks ==
  ASSUME IInv, IInv', LInv, call.dir = "in", PutList PROVE LInv'
<1>1. Writing /\ Node.k = "list" BY DEF PutList
<1>2. PICK count \in Options(0..(Node.cap + 1)) :
        Put(4, count, count <= Node.cap, Repeated(Node.s, count))
  BY DEF PutList
<1>3. Form(todo) /\ todo # <<>> BY <1>1, InForm
<1>4. Node.cap \in Nat BY <1>1, <1>3, FormStep DEF Node
<1>5. count \in Nat
  <2>1. count \in 0..(Node.cap + 1) BY <1>2 DEF Options
  <2> QED BY <1>4, <2>1
<1>6. 4 \in DataSizes /\ 4 = Width(Node) BY <1>1, ArithmeticSizes DEF Width
<1> DEFINE then == Repeated(Node.s, count)
           fits == count <= Node.cap
<1>7. \A e : e.v = count /\ e.fits = fits => Told(Node, e, then) BY <1>1, <1>4, <1>5 DEF Told
<1>8. Put(4, count, fits, then) BY <1>2
<1> HIDE DEF then, fits
<1> QED BY <1>1, <1>6, <1>7, <1>8, ValueTracks

LEMMA PutRawTracks ==
  ASSUME IInv, IInv', LInv, call.dir = "in", PutRaw PROVE LInv'
<1> DEFINE n == Node.n
           b == Array(ub, n, 1)
           e == RawItem(ub, n)
<1>1. /\ Writing /\ Node.k \in {"raw", "data"}
      /\ written' = IF b.error THEN written ELSE Append(written, e)
      /\ ub' = b /\ todo' = Tail(todo)
      /\ phase' = phase /\ call' = call /\ got' = got /\ ok' = ok
      /\ foreign' = foreign
  BY DEF PutRaw
<1>2. phase = "write" /\ todo # <<>> BY <1>1 DEF Writing, IInv, Phased
<1>3. n \in Nat \ {0}
  <2>1. Form(todo) \/ TooLong(todo) BY <1>1, WhoWrites
  <2>2. CASE Form(todo) BY <1>1, <1>2, <2>2, FormStep DEF Node
  <2>3. CASE TooLong(todo) BY <2>3 DEF TooLong, LongRaw, Node
  <2> QED BY <2>1, <2>2, <2>3
<1>4. Regular(ub) /\ Sound(ub) BY DEF IInv, BufferWell
<1> HIDE DEF n
<1>5. b.ends = ub.ends /\ b.full = ub.full BY <1>3, <1>4, ArrayAligned, ArithmeticSizes
<1>6. ~b.error => ~ub.error BY <1>3, <1>4, ErrorSticks, ArithmeticSizes
<1>7. ASSUME ~ub.error, ~b.error, Known(b)
      PROVE  /\ Along(ub, b) /\ Wrote(Here, Here', written')
             /\ written' = Append(written, e) /\ Mark(e.places, ub, b)
  <2>1. Writer(ub) BY <1>2, <1>7, AtWriter
  <2>2. Along(ub, b) /\ Mark(ArrayPlaces(ub, n, 1), ub, b) BY <1>3, <1>7, <2>1, ArrayAlong
  <2>3. e.places = ArrayPlaces(ub, n, 1) /\ e.foreign = FALSE BY DEF RawItem
  <2>4. written' = Append(written, e) BY <1>1, <1>7
  <2>5. PICK S : written \in Seq(S) BY DEF IInv, WrittenWell
  <2> HIDE DEF e
  <2>6. Len(written') = Len(written) + 1 /\ written'[Len(written) + 1] = e BY <2>4, <2>5
  <2>7. /\ Here'.b = b /\ Here'.n = Len(written) + 1 /\ Here'.f = Tail(todo)
        /\ Here'.o = foreign
    BY <1>1, <2>6 DEF Here
  <2> DEFINE h == Here
             g == Here'
             v == written'
  <2>8. h.b = ub /\ h.f = todo /\ h.n = Len(written) /\ h.o = foreign BY HereIs
  <2>9. /\ g.b = b /\ g.n = h.n + 1 /\ g.f = Tail(h.f) /\ v[g.n] = e
        /\ Head(h.f) = Node /\ h.f # <<>> /\ g.o = h.o
    BY <1>2, <2>6, <2>7, <2>8 DEF Node
  <2> HIDE DEF h, g, v
  <2>10. RawWrote(Node, n, h, g, e) BY <1>1, <1>3, <1>7, <2>3, <2>8, <2>9 DEF RawWrote, n
  <2>11. Wrote(h, g, v) BY <2>9, <2>10 DEF Wrote
  <2> QED BY <2>2, <2>3, <2>4, <2>11 DEF h, g, v
<1> HIDE DEF b, e
<1>8. ~ub.error /\ ~ub'.error /\ Known(ub') =>
        /\ Along(ub, ub') /\ Wrote(Here, Here', written')
        /\ \/ written' = written
           \/ \E x : written' = Append(written, x) /\ Mark(x.places, ub, ub')
  BY <1>1, <1>7
<1>9. ub'.full = ub.full /\ ub'.ends = ub.ends /\ (~ub'.error => ~ub.error) BY <1>1, <1>5, <1>6
<1> QED BY <1>1, <1>2, <1>8, <1>9, WrittenOn

\* Nodes without a value, of the agent.
LEMMA OtherTracks ==
  ASSUME IInv, IInv', LInv, call.dir = "in", phase = "write", todo # <<>>,
         phase' = phase, call' = call, got' = got, ok' = ok, written' = written,
         ub'.full = ub.full, ub'.ends = ub.ends, ~ub'.error => ~ub.error,
         ~ub.error /\ Known(ub') => Along(ub, ub') /\ OtherWrote(Node, Here, Here')
  PROVE  LInv'
<1>1. ASSUME ~ub.error, ~ub'.error, Known(ub')
      PROVE  Along(ub, ub') /\ Wrote(Here, Here', written')
  <2>1. Along(ub, ub') /\ OtherWrote(Node, Here, Here') BY <1>1
  <2>2. Head(Here.f) = Node /\ Here.f # <<>> BY HereIs DEF Node
  <2> QED BY <2>1, <2>2 DEF Wrote
<1> QED BY <1>1, WrittenOn

LEMMA OnlyTracks ==
  ASSUME IInv, IInv', LInv, call.dir = "in", phase = "write", SkipOther PROVE LInv'
<1>1. /\ todo # <<>> /\ Node.k = "only"
      /\ todo' = (IF Node.dir = call.dir THEN Node.s ELSE <<>>) \o Tail(todo)
      /\ phase' = phase /\ call' = call /\ ub' = ub /\ written' = written
      /\ got' = got /\ ok' = ok /\ foreign' = foreign
  BY DEF SkipOther
<1>2. ASSUME ~ub.error, Known(ub') PROVE Along(ub, ub') /\ OtherWrote(Node, Here, Here')
  <2>1. Writer(ub) BY <1>2, AtWriter
  <2>2. NotAfter(ub, ub) BY <2>1, NotAfterItself DEF Writer
  <2>3. Along(ub, ub') BY <1>1, <1>2, <2>1, <2>2 DEF Along
  <2>4. /\ Here'.b = Here.b /\ Here'.n = Here.n /\ Here'.o = Here.o
        /\ Here'.f = (IF Node.dir = "in" THEN Node.s ELSE <<>>) \o Tail(Here.f)
    BY <1>1 DEF Here
  <2>5. OtherWrote(Node, Here, Here') BY <1>1, <2>4 DEF OtherWrote
  <2> QED BY <2>3, <2>5
<1> QED BY <1>1, <1>2, OtherTracks

LEMMA AlignTracks ==
  ASSUME IInv, IInv', LInv, call.dir = "in", phase = "write", AlignOrRebase PROVE LInv'
<1>1. /\ todo # <<>> /\ Node.k \in {"align", "rebase"}
      /\ Node.k = "rebase" => ~ub.error
      /\ ub' = IF Node.k = "align" THEN AlignTo(ub, Node.n) ELSE RebasedBuffer(ub)
      /\ todo' = Tail(todo)
      /\ phase' = phase /\ call' = call /\ written' = written /\ got' = got /\ ok' = ok
      /\ foreign' = (foreign /\ Node.k = "align")
  BY DEF AlignOrRebase
<1>2. Form(todo) BY <1>1, AtNode
<1>3. Regular(ub) /\ Sound(ub) BY DEF IInv, BufferWell
<1>4. Here'.b = ub' /\ Here'.n = Here.n /\ Here'.f = Tail(Here.f) /\ Here.b = ub
  BY <1>1 DEF Here
<1>o. Here.o = foreign /\ Here'.o = foreign' BY DEF Here
<1>b. foreign \in BOOLEAN BY DEF IInv, Phased
<1>5. CASE Node.k = "align"
  <2>o. foreign' = foreign BY <1>1, <1>5, <1>b
  <2>p. Here'.o = Here.o BY <1>o, <2>o
  <2>1. ub' = AlignTo(ub, Node.n) /\ Node.n \in DataSizes BY <1>1, <1>2, <1>5, FormStep DEF Node
  <2>2. ub'.ends = ub.ends /\ ub'.full = ub.full /\ ub'.error = ub.error
    BY <1>3, <2>1, AlignToFields
  <2>3. ASSUME ~ub.error, Known(ub') PROVE Along(ub, ub') /\ OtherWrote(Node, Here, Here')
    <3>1. Writer(ub) BY <2>3, AtWriter
    <3>2. Along(ub, ub') BY <2>1, <2>3, <3>1, AlignToAlong
    <3>3. OtherWrote(Node, Here, Here') BY <1>4, <1>5, <2>1, <2>p DEF OtherWrote
    <3> QED BY <3>2, <3>3
  <2> QED BY <1>1, <2>2, <2>3, OtherTracks
<1>6. CASE Node.k = "rebase"
  <2>o. foreign' = FALSE BY <1>1, <1>6
  <2>p. Here'.o = FALSE BY <1>o, <2>o
  <2>1. ub' = RebasedBuffer(ub) /\ ~ub.error BY <1>1, <1>6
  <2>2. ub'.ends = ub.ends /\ ub'.full = ub.full BY <1>3, <2>1, RebasedFields DEF Regular
  <2>3. ASSUME Known(ub') PROVE Along(ub, ub') /\ OtherWrote(Node, Here, Here')
    <3>1. Writer(ub) BY <2>1, AtWriter
    <3>2. Along(ub, ub') BY <2>1, <2>3, <3>1, RebaseAlong
    <3>3. OtherWrote(Node, Here, Here') BY <1>4, <1>6, <2>1, <2>p DEF OtherWrote
    <3> QED BY <3>2, <3>3
  <2> QED BY <1>1, <2>1, <2>2, <2>3, OtherTracks
<1> QED BY <1>1, <1>5, <1>6

LEMMA OrderTracks ==
  ASSUME IInv, IInv', LInv, call.dir = "in", phase = "write", SetOrder PROVE LInv'
<1>1. /\ todo # <<>> /\ Node.k = "endian" /\ foreign' = Node.other /\ todo' = Tail(todo)
      /\ phase' = phase /\ call' = call /\ ub' = ub /\ written' = written
      /\ got' = got /\ ok' = ok
  BY DEF SetOrder
<1>2. Form(todo) BY <1>1, AtNode
<1>3. Node.other \in BOOLEAN BY <1>1, <1>2, FormStep DEF Node
<1>4. ASSUME ~ub.error, Known(ub') PROVE Along(ub, ub') /\ OtherWrote(Node, Here, Here')
  <2>1. Writer(ub) BY <1>4, AtWriter
  <2>2. NotAfter(ub, ub) BY <2>1, NotAfterItself DEF Writer
  <2>3. Along(ub, ub') BY <1>1, <1>4, <2>1, <2>2 DEF Along
  <2>4. Here'.b = Here.b /\ Here'.n = Here.n /\ Here'.f = Tail(Here.f) BY <1>1 DEF Here
  <2>5. Here'.o = Node.other BY <1>1 DEF Here
  <2>6. OtherWrote(Node, Here, Here') BY <1>1, <1>3, <2>4, <2>5 DEF OtherWrote
  <2> QED BY <2>3, <2>6
<1> QED BY <1>1, <1>4, OtherTracks

-----------------------------------------------------------------------------
(* Reading.                                                                *)

\* A value is found by the place it begins at.
LEMMA FoundIt ==
  ASSUME Firsts(written), NEW i \in DOMAIN written
  PROVE  Found(written[i].places, written[i].foreign) = i
<1> DEFINE p == written[i].places
           o == written[i].foreign
           those == {j \in DOMAIN written : written[j].places = p /\ written[j].foreign = o}
<1>1. i \in those OBVIOUS
<1>2. \A j \in those : j = i BY DEF Firsts
<1>3. Found(p, o) = IF those = {} THEN 0 ELSE CHOOSE j \in those : TRUE BY DEF Found
<1> HIDE DEF those, p, o
<1>4. (CHOOSE j \in those : TRUE) \in those BY <1>1
<1> QED BY <1>1, <1>2, <1>3, <1>4 DEF p, o

\* The reader is where the writer was at s, and the writer went on to t.
AtStep(R, last, s, t) ==
  /\ Sent(R, last) /\ t \in R /\ ReadTo(s, last, ub, todo, got, foreign) /\ Wrote(s, t, written)
  /\ Writer(s.b) /\ Final(last.b, t.b)
  /\ s.n \in Nat /\ t.n \in 0..Len(written) /\ s.o \in BOOLEAN

LEMMA AtSnapshot ==
  ASSUME IInv, LInv, call.dir = "in", phase = "read", todo # <<>>, ok, Trusting
  PROVE  \E R, last, s, t : AtStep(R, last, s, t)
<1>1. PICK R, last : Sent(R, last) /\ \E s \in R : ReadTo(s, last, ub, todo, got, foreign)
  BY DEF LInv, InRead, Matching
<1>2. PICK s \in R : ReadTo(s, last, ub, todo, got, foreign) BY <1>1
<1>3. /\ last \in R /\ \A x \in R : Snapshot(x, last, written) /\ Leads(R, x, last, written)
      /\ last.f = <<>> /\ Known(last.b)
  BY <1>1 DEF Sent, Tracked
<1>4. s # last BY <1>2, <1>3 DEF ReadTo
<1>5. PICK t \in R : Wrote(s, t, written) BY <1>3, <1>4 DEF Leads
<1>6. Writer(s.b) /\ s.n \in 0..Len(written) /\ s.o \in BOOLEAN BY <1>3 DEF Snapshot
<1>7. /\ NotAfter(t.b, last.b) /\ t.b.ends = last.b.ends /\ t.b.full = last.b.full
      /\ t.n \in 0..Len(written)
  BY <1>3 DEF Snapshot
<1>8. Writer(last.b) BY <1>3 DEF Snapshot
<1>9. Final(last.b, t.b) BY <1>3, <1>7, <1>8 DEF Final, Writer
<1>10. AtStep(R, last, s, t) BY <1>1, <1>2, <1>5, <1>6, <1>7, <1>9 DEF AtStep
<1> QED BY <1>10

\* What the client could not count on, it cannot count on later.
LEMMA TrustBack ==
  ASSUME written' = written, call' = call, ub'.slot = 1 => ub.slot = 1, Trusting'
  PROVE  Trusting
BY DEF Trusting

\* The reader reads on, or a sequence was too long.
LEMMA ReadOn ==
  ASSUME LInv, call.dir = "in", phase = "read",
         phase' = phase, call' = call, written' = written, ub'.full # "out",
         Trusting' /\ ~ok' => Unfit,
         Trusting' /\ ok' =>
           \E R, last : Sent(R, last) /\ \E t \in R : ReadTo(t, last, ub', todo', got', foreign')
  PROVE  LInv'
<1>1. Quiet' BY DEF Quiet
<1>2. InWrite' BY DEF InWrite
<1>3. Firsts(written') BY DEF LInv, InRead
<1>4. Unfit' = Unfit BY DEF Unfit
<1>5. \A R, last : Sent(R, last) => Sent(R, last)' BY DEF Sent
<1>6. ASSUME Trusting' PROVE Matching'
  <2>1. ~ok' => Unfit' BY <1>4, <1>6
  <2>2. phase' # "done" OBVIOUS
  <2>3. ok' => \E R, last : Sent(R, last)' /\ \E t \in R : ReadTo(t, last, ub', todo', got', foreign')
    BY <1>5, <1>6
  <2> QED BY <2>1, <2>2, <2>3 DEF Matching
<1>7. InRead' BY <1>3, <1>6 DEF InRead
<1> QED BY <1>1, <1>2, <1>7 DEF LInv

\* After a failure nothing more is promised.
LEMMA FailedOn ==
  ASSUME LInv, call.dir = "in", phase = "read", ~ok,
         phase' = phase, call' = call, written' = written, ~ok', ub'.full # "out",
         Trusting' => Trusting
  PROVE  LInv'
<1>1. Trusting' => Unfit BY DEF LInv, InRead, Matching
<1> QED BY <1>1, ReadOn

\* One more value, of the number it has among those written.
LEMMA GotOneMore ==
  ASSUME NEW g, NEW S, g \in Seq(S), NEW x, NEW n, Len(g) = n, x.item = n + 1,
         \A i \in DOMAIN g : g[i].item = i
  PROVE  Len(Append(g, x)) = n + 1 /\ \A i \in DOMAIN Append(g, x) : Append(g, x)[i].item = i
<1> DEFINE h == Append(g, x)
<1>1. /\ n \in Nat /\ Len(h) = n + 1 /\ DOMAIN g = 1..n /\ DOMAIN h = 1..(n + 1)
      /\ \A i \in 1..n : h[i] = g[i]
      /\ h[n + 1] = x
  OBVIOUS
<1> HIDE DEF h
<1>2. \A i \in DOMAIN h : h[i].item = i
  <2> TAKE i \in DOMAIN h
  <2>1. CASE i = n + 1 BY <1>1, <2>1
  <2>2. CASE i # n + 1
    <3>1. i \in 1..n BY <1>1, <2>2
    <3>2. g[i].item = i BY <1>1, <3>1
    <3> QED BY <1>1, <3>1, <3>2
  <2> QED BY <2>1, <2>2
<1> QED BY <1>1, <1>2 DEF h

\* The order is forgotten with the first slot and not before.
LEMMA FollowsOn ==
  ASSUME NEW p, Follows(foreign, p, ub.slot), NEW b, b.slot = 1 => ub.slot = 1
  PROVE  Follows(StillForeign(b), p, b.slot)
BY DEF Follows, StillForeign

\* A value is looked for where it is and in the order it has, when that is the machine's or
\* the value ends in the first slot.
LEMMA LooksThere ==
  ASSUME IInv, Reading, ub.full # "out", NEW p \in BOOLEAN, Follows(foreign, p, ub.slot),
         NEW n \in DataSizes, n = Width(Node), ~Value(ub, n).error,
         Value(ub, n).slot = 1 \/ ~(n > 1 /\ p)
  PROVE  LooksAt(n) = ValuePlaces(ub, n) /\ AsForeign(n) = (n > 1 /\ p)
<1>1. Regular(ub) /\ Sound(ub) BY AtRead
<1>2. CASE ~(n > 1 /\ p)
  <2>1. n > 1 => ~foreign BY <1>2 DEF Follows
  <2>2. Node.k = "bytes" => ~foreign
    <3>1. Node.k = "bytes" => n = 4 BY DEF Width
    <3>2. n = 4 => n > 1 OBVIOUS
    <3> QED BY <2>1, <3>1, <3>2
  <2>3. LooksAt(n) = ValuePlaces(ub, n) BY <2>2 DEF LooksAt
  <2>4. ~AsForeign(n) BY <2>1 DEF AsForeign, StillForeign
  <2>5. AsForeign(n) = FALSE BY <2>4 DEF AsForeign
  <2>6. (n > 1 /\ p) = FALSE BY <1>2
  <2> QED BY <2>3, <2>5, <2>6
<1>3. CASE n > 1 /\ p
  <2>1. Value(ub, n).slot = 1 BY <1>3
  <2>2. ub.slot = 1 /\ SwappedPlaces(ub, n) = ValuePlaces(ub, n) BY <1>1, <2>1, ValueFromFirst
  <2>3. foreign BY <1>3, <2>2 DEF Follows
  <2>4. LooksAt(n) = ValuePlaces(ub, n) BY <2>2 DEF LooksAt
  <2>5. foreign = TRUE BY <2>3 DEF IInv, Phased
  <2>6. AsForeign(n) BY <1>3, <2>1, <2>2, <2>3, <2>5 DEF AsForeign, StillForeign
  <2>7. AsForeign(n) = TRUE BY <2>6 DEF AsForeign
  <2>8. (n > 1 /\ p) = TRUE BY <1>3
  <2> QED BY <2>4, <2>7, <2>8
<1> QED BY <1>2, <1>3

\* The value at hand, the i-th, is where the reader looks for it, and g follows it.
Comes(n, i, g) ==
  /\ n \in DataSizes /\ ~Value(ub, n).error
  /\ i \in Nat \ {0} /\ i = Found(LooksAt(n), AsForeign(n)) /\ i \in DOMAIN written
  /\ written[i].k = Node.k /\ Told(Node, written[i], g)
  /\ \E R, last : Sent(R, last) /\ \E t \in R :
       ReadTo(t, last, Value(ub, n), g \o Tail(todo),
              Append(got, Taken(LooksAt(n), n, AsForeign(n))), StillForeign(Value(ub, n)))

ValueKinds == {"int", "bytes", "opt", "tag", "list"}

LEMMA Coming ==
  ASSUME IInv, LInv, Reading, ok, Trusting, Node.k \in ValueKinds,
         Value(ub, Width(Node)).slot = 1 \/ \A i \in DOMAIN written : ~written[i].foreign
  PROVE  \E i, g : Comes(Width(Node), i, g)
<1>1. call.dir = "in" /\ phase = "read" /\ todo # <<>> BY DEF Reading, IInv, Phased
<1>2. PICK R, last, s, t : AtStep(R, last, s, t) BY <1>1, AtSnapshot
<1>a. /\ Sent(R, last) /\ t \in R /\ ReadTo(s, last, ub, todo, got, foreign)
      /\ Wrote(s, t, written) /\ Writer(s.b) /\ Final(last.b, t.b)
      /\ s.n \in Nat /\ t.n \in 0..Len(written) /\ s.o \in BOOLEAN
  BY <1>2 DEF AtStep
<1>3. /\ ub = Arrived(s.b, last.b) /\ todo = s.f /\ Len(got) = s.n
      /\ \A i \in DOMAIN got : got[i].item = i
      /\ Follows(foreign, s.o, ub.slot)
  BY <1>a DEF ReadTo
<1> DEFINE n == Width(Node)
           i == t.n
           e == written[i]
<1>4. ValueWrote(Node, n, s, t, e)
  <2>1. Node = Head(s.f) BY <1>3 DEF Node
  <2>2. ~OtherWrote(Node, s, t) BY DEF OtherWrote, ValueKinds
  <2>3. \A m : ~RawWrote(Node, m, s, t, e) BY DEF RawWrote, ValueKinds
  <2> HIDE DEF e
  <2>4. \E m : ValueWrote(Node, m, s, t, e)
    BY <1>a, <2>1, <2>2, <2>3 DEF Wrote, e
  <2>5. \A m : ValueWrote(Node, m, s, t, e) => m = n BY DEF ValueWrote
  <2> QED BY <2>4, <2>5
<1>b. Value(ub, n).slot = 1 \/ \A j \in DOMAIN written : ~written[j].foreign OBVIOUS
<1>w. n = Width(Node) OBVIOUS
<1> HIDE DEF n, e
<1>5. /\ n \in DataSizes /\ t.b = Value(s.b, n) /\ ~t.b.error /\ i = s.n + 1
      /\ e.k = Node.k /\ e.places = ValuePlaces(s.b, n) /\ t.o = s.o
  BY <1>4 DEF ValueWrote
<1>c. e.foreign = (n > 1 /\ s.o) BY <1>4 DEF ValueWrote
<1>6. PICK g : Told(Node, e, g) /\ t.f = g \o Tail(s.f) BY <1>4 DEF ValueWrote
<1>7. /\ Value(ub, n) = Arrived(t.b, last.b) /\ ValuePlaces(ub, n) = e.places
      /\ ~Value(ub, n).error
  BY <1>a, <1>3, <1>5, ValueAlike
<1>8. i \in Nat \ {0} /\ i \in DOMAIN written
  <2>1. PICK S : written \in Seq(S) BY DEF IInv, WrittenWell
  <2>2. DOMAIN written = 1..Len(written) /\ Len(written) \in Nat BY <2>1
  <2> QED BY <1>a, <1>5, <2>2
<1>d. ub.full # "out" BY <1>1 DEF LInv, InRead
<1>e. LooksAt(n) = e.places /\ AsForeign(n) = e.foreign
  <2>1. Value(ub, n).slot = 1 \/ ~e.foreign BY <1>b, <1>8 DEF e
  <2>2. ~e.foreign => ~(n > 1 /\ s.o) BY <1>c
  <2>3. Value(ub, n).slot = 1 \/ ~(n > 1 /\ s.o) BY <2>1, <2>2
  <2>4. LooksAt(n) = ValuePlaces(ub, n) /\ AsForeign(n) = (n > 1 /\ s.o)
    BY <1>a, <1>d, <1>3, <1>5, <1>7, <1>w, <2>3, LooksThere
  <2>5. AsForeign(n) = e.foreign BY <1>c, <2>4
  <2> QED BY <1>7, <2>4, <2>5
<1>9. i = Found(LooksAt(n), AsForeign(n))
  <2>1. Firsts(written) BY <1>1 DEF LInv, InRead
  <2>2. Found(written[i].places, written[i].foreign) = i BY <1>8, <2>1, FoundIt
  <2>3. Found(e.places, e.foreign) = i BY <2>2 DEF e
  <2> QED BY <1>e, <2>3
<1> DEFINE x == Taken(LooksAt(n), n, AsForeign(n))
           o == StillForeign(Value(ub, n))
<1>10. x.item = s.n + 1 BY <1>5, <1>9 DEF Taken
<1>f. Follows(o, t.o, Value(ub, n).slot)
  <2>1. Regular(ub) /\ Sound(ub) BY AtRead
  <2>2. Value(ub, n).slot = 1 => ub.slot = 1 BY <1>d, <1>5, <2>1, ValueFromFirst
  <2> QED BY <1>3, <1>5, <2>2, FollowsOn
<1> HIDE DEF x, o
<1>11. Len(Append(got, x)) = s.n + 1 /\ \A j \in DOMAIN Append(got, x) : Append(got, x)[j].item = j
  <2>1. PICK S : got \in Seq(S) BY DEF IInv, GotWell
  <2> QED BY <1>3, <1>10, <2>1, GotOneMore
<1>12. ReadTo(t, last, Value(ub, n), g \o Tail(todo), Append(got, x), o)
  BY <1>3, <1>5, <1>6, <1>7, <1>11, <1>f DEF ReadTo
<1>13. /\ Told(Node, written[i], g) /\ written[i].k = Node.k BY <1>5, <1>6 DEF e
<1>14. Comes(n, i, g) BY <1>a, <1>5, <1>7, <1>8, <1>9, <1>12, <1>13 DEF Comes, x, o
<1> QED BY <1>14 DEF n

\* The client takes what was written for what it reads.
LEMMA ComesAs ==
  ASSUME NEW n, NEW i, NEW g, Comes(n, i, g), NEW all
  PROVE  ReadValues(n, all) = {written[i].v}
<1>1. i # 0 /\ i = Found(LooksAt(n), AsForeign(n)) /\ ~Value(ub, n).error /\ written[i].k = Node.k
  BY DEF Comes
<1> QED BY <1>1 DEF ReadValues

\* A value is read: what was written, unless it is more than there is room for.
LEMMA GetTracks ==
  ASSUME IInv, LInv, Reading, Node.k \in ValueKinds, NEW n \in DataSizes, n = Width(Node),
         NEW b, NEW then, Get(n, b, then), b.slot = Value(ub, n).slot, b.full = Value(ub, n).full,
         \A i, g : Comes(n, i, g) =>
           (b = Value(ub, n) /\ then = g) \/ (b.error /\ ~written[i].fits)
  PROVE  LInv'
<1> DEFINE v == Value(ub, n)
           x == Taken(LooksAt(n), n, AsForeign(n))
<1>1. /\ got' = IF v.error THEN got ELSE Append(got, x)
      /\ ub' = b /\ foreign' = StillForeign(b)
      /\ ok' = (ok /\ ~b.error)
      /\ todo' = then \o Tail(todo)
      /\ phase' = phase /\ call' = call /\ written' = written
  BY DEF Get
<1>2. call.dir = "in" /\ phase = "read" /\ Regular(ub) /\ Sound(ub) BY AtRead
<1>3. ub.full # "out" BY <1>2 DEF LInv, InRead
<1>4. ub'.full # "out" BY <1>1, <1>2, <1>3, ValueAligned
<1>5. ub'.slot = 1 => ub.slot = 1 BY <1>1, <1>2, <1>3, ValueFromFirst
<1>6. Trusting' => Trusting BY <1>1, <1>5, TrustBack
<1> HIDE DEF x
<1>7. CASE ~Trusting' BY <1>1, <1>2, <1>4, <1>7, ReadOn
<1>8. CASE ~ok
  <2>1. ~ok' BY <1>1, <1>8
  <2> QED BY <1>1, <1>2, <1>4, <1>6, <1>8, <2>1, FailedOn
<1>9. CASE ok /\ Trusting'
  <2>1. v.slot = 1 \/ \A i \in DOMAIN written : ~written[i].foreign
    BY <1>1, <1>9 DEF Trusting
  <2>2. PICK i, g : Comes(n, i, g) BY <1>6, <1>9, <2>1, Coming
  <2>3. ~v.error /\ i \in DOMAIN written BY <2>2 DEF Comes
  <2>4. CASE b.error /\ ~written[i].fits
    <3>1. Unfit BY <2>3, <2>4 DEF Unfit
    <3>2. ~ok' BY <1>1, <2>4
    <3> QED BY <1>1, <1>2, <1>4, <3>1, <3>2, ReadOn
  <2>5. CASE b = v /\ then = g
    <3>1. got' = Append(got, x) BY <1>1, <2>3
    <3>2. \E R, last : Sent(R, last) /\ \E t \in R :
            ReadTo(t, last, v, g \o Tail(todo), Append(got, x), StillForeign(v))
      BY <2>2 DEF Comes, x
    <3>3. foreign' = StillForeign(v) /\ ub' = v /\ todo' = g \o Tail(todo) BY <1>1, <2>5
    <3> HIDE DEF v
    <3>4. \E R, last : Sent(R, last) /\ \E t \in R : ReadTo(t, last, ub', todo', got', foreign')
      BY <3>1, <3>2, <3>3
    <3>5. ok' BY <1>1, <1>9, <2>3, <2>5
    <3> QED BY <1>1, <1>2, <1>4, <3>4, <3>5, ReadOn
  <2> QED BY <2>2, <2>4, <2>5
<1> QED BY <1>7, <1>8, <1>9

\* The actions for the nodes the client reads, one by one.
LEMMA GetIntTracks == ASSUME IInv, LInv, GetInt PROVE LInv'
<1>1. Reading /\ Node.k = "int" /\ Get(Node.n, Value(ub, Node.n), <<>>) BY DEF GetInt
<1>2. Node.k \in ValueKinds /\ Node.n = Width(Node) BY <1>1 DEF ValueKinds, Width
<1>3. Node.n \in DataSizes
  <2>1. Form(todo) /\ todo # <<>> BY <1>1, AtRead
  <2> QED BY <1>1, <2>1, FormStep DEF Node
<1>4. \A i, g : Comes(Node.n, i, g) => <<>> = g BY <1>1 DEF Comes, Told
<1> QED BY <1>1, <1>2, <1>3, <1>4, GetTracks

LEMMA GetOptTracks == ASSUME IInv, LInv, GetOpt PROVE LInv'
<1>1. Reading /\ Node.k = "opt" BY DEF GetOpt
<1>2. PICK flag \in ReadValues(1, Flags) :
        Get(1, Value(ub, 1), IF flag = 1 THEN Node.s ELSE <<>>)
  BY DEF GetOpt
<1>3. Node.k \in ValueKinds /\ 1 = Width(Node) BY <1>1 DEF ValueKinds, Width
<1> DEFINE then == IF flag = 1 THEN Node.s ELSE <<>>
<1>4. ASSUME NEW i, NEW g, Comes(1, i, g) PROVE then = g
  <2>1. flag = written[i].v BY <1>2, <1>4, ComesAs
  <2>2. Told(Node, written[i], g) BY <1>4 DEF Comes
  <2> QED BY <1>1, <2>1, <2>2 DEF Told
<1>5. Get(1, Value(ub, 1), then) BY <1>2
<1> HIDE DEF then
<1> QED BY <1>1, <1>3, <1>4, <1>5, GetTracks, ArithmeticSizes

LEMMA GetTagTracks == ASSUME IInv, LInv, GetTag PROVE LInv'
<1>1. Reading /\ Node.k = "tag" BY DEF GetTag
<1> DEFINE n == Node.n
<1>2. PICK tag \in ReadValues(n, DOMAIN Node.alt) :
        Get(n, Value(ub, n), IF Value(ub, n).error THEN <<>> ELSE Chosen(Node.alt, tag))
  BY DEF GetTag
<1>3. Node.k \in ValueKinds /\ n = Width(Node) BY <1>1 DEF ValueKinds, Width
<1>5. n \in DataSizes
  <2>1. Form(todo) /\ todo # <<>> BY <1>1, AtRead
  <2> QED BY <1>1, <2>1, FormStep DEF Node
<1> HIDE DEF n
<1> DEFINE then == IF Value(ub, n).error THEN <<>> ELSE Chosen(Node.alt, tag)
<1>4. ASSUME NEW i, NEW g, Comes(n, i, g) PROVE then = g
  <2>1. tag = written[i].v BY <1>2, <1>4, ComesAs
  <2>2. Told(Node, written[i], g) /\ ~Value(ub, n).error BY <1>4 DEF Comes
  <2>3. tag \in DOMAIN Node.alt /\ g = Node.alt[tag] BY <1>1, <2>1, <2>2 DEF Told
  <2> QED BY <2>2, <2>3 DEF Chosen
<1>6. Get(n, Value(ub, n), then) BY <1>2
<1> HIDE DEF then
<1> QED BY <1>1, <1>3, <1>4, <1>5, <1>6, GetTracks

\* The header of a sequence that fits is its length.
LEMMA HeaderIs ==
  ASSUME NEW b, Regular(b), Sound(b), NEW length \in Nat, NEW capacity \in Nat
  PROVE  LET h == SequenceHeader(b, length, capacity)
             v == Value(b, 4)
         IN  /\ length <= capacity => h = v
             /\ ~(length <= capacity) => h.error
             /\ h.slot = v.slot /\ h.full = v.full
<1> DEFINE v == Value(b, 4)
           h == SequenceHeader(b, length, capacity)
<1>1. Regular(v) BY ValueAligned, ArithmeticSizes
<1>2. h = [v EXCEPT !.error = @ \/ length > capacity] BY DEF SequenceHeader
<1>3. ~(length <= capacity) => h.error
  <2> SUFFICES ASSUME ~(length <= capacity) PROVE h.error OBVIOUS
  <2>1. length > capacity OBVIOUS
  <2> QED BY <2>1, KeptRegular, ArithmeticSizes
<1>4. v \in Buffers BY <1>1 DEF Regular
<1>5. ASSUME length <= capacity PROVE h = v
  <2>1. ~(length > capacity) BY <1>5
  <2> HIDE DEF v, h
  <2>2. h = [v EXCEPT !.error = v.error \/ FALSE] BY <1>2, <2>1
  <2>3. v.error \in BOOLEAN BY <1>4 DEF Buffers
  <2>4. (v.error \/ FALSE) = v.error BY <2>3
  <2>5. h = [v EXCEPT !.error = v.error] BY <2>2, <2>4
  <2> QED BY <1>4, <2>5 DEF Buffers
<1> HIDE DEF v, h
<1>6. h.slot = v.slot /\ h.full = v.full BY <1>2, <1>4 DEF Buffers
<1> QED BY <1>3, <1>5, <1>6 DEF h, v

LEMMA GetListTracks == ASSUME IInv, LInv, GetList PROVE LInv'
<1>1. Reading /\ Node.k = "list" BY DEF GetList
<1>2. PICK count \in ReadValues(4, {0, Node.cap + 1}) :
        Get(4, SequenceHeader(ub, count, Node.cap),
            IF ListFits(count, Node.cap) THEN Repeated(Node.s, count) ELSE <<>>)
  BY DEF GetList
<1>3. Node.k \in ValueKinds /\ 4 = Width(Node) BY <1>1 DEF ValueKinds, Width
<1>4. Form(todo) /\ todo # <<>> /\ Regular(ub) /\ Sound(ub) BY <1>1, AtRead
<1>5. Node.cap \in Nat BY <1>1, <1>4, FormStep DEF Node
<1>6. count \in Nat
  <2>1. {0, Node.cap + 1} \subseteq Nat BY <1>5
  <2> QED BY <1>1, <1>2, <2>1, ValueRead
<1> DEFINE then == IF ListFits(count, Node.cap) THEN Repeated(Node.s, count) ELSE <<>>
           b == SequenceHeader(ub, count, Node.cap)
<1>7. /\ count <= Node.cap => b = Value(ub, 4)
      /\ ~(count <= Node.cap) => b.error
      /\ b.slot = Value(ub, 4).slot /\ b.full = Value(ub, 4).full
  BY <1>4, <1>5, <1>6, HeaderIs
<1> HIDE DEF b
<1>8. ASSUME NEW i, NEW g, Comes(4, i, g)
      PROVE  (b = Value(ub, 4) /\ then = g) \/ (b.error /\ ~written[i].fits)
  <2>1. count = written[i].v BY <1>2, <1>8, ComesAs
  <2>2. Told(Node, written[i], g) BY <1>8 DEF Comes
  <2>3. (count <= Node.cap \/ ~written[i].fits) /\ g = Repeated(Node.s, count)
    BY <1>1, <2>1, <2>2 DEF Told
  <2> QED BY <1>7, <2>3 DEF ListFits
<1>9. Get(4, b, then) BY <1>2 DEF b
<1> HIDE DEF then
<1> QED BY <1>1, <1>3, <1>7, <1>8, <1>9, GetTracks, ArithmeticSizes

LEMMA GetBytesTracks == ASSUME IInv, LInv, GetBytes PROVE LInv'
<1>1. Reading /\ Node.k = "bytes" BY DEF GetBytes
<1>2. PICK len \in ReadValues(4, {0, Node.cap + 1}) :
        Get(4, SequenceHeader(ub, len, Node.cap), Elements(len, Node.cap))
  BY DEF GetBytes
<1>3. Node.k \in ValueKinds /\ 4 = Width(Node) BY <1>1 DEF ValueKinds, Width
<1>4. Form(todo) /\ todo # <<>> /\ Regular(ub) /\ Sound(ub) BY <1>1, AtRead
<1>5. Node.cap \in Nat BY <1>1, <1>4, FormStep DEF Node
<1>6. len \in Nat
  <2>1. {0, Node.cap + 1} \subseteq Nat BY <1>5
  <2> QED BY <1>1, <1>2, <2>1, ValueRead
<1> DEFINE then == Elements(len, Node.cap)
           b == SequenceHeader(ub, len, Node.cap)
<1>7. /\ len <= Node.cap => b = Value(ub, 4)
      /\ ~(len <= Node.cap) => b.error
      /\ b.slot = Value(ub, 4).slot /\ b.full = Value(ub, 4).full
  BY <1>4, <1>5, <1>6, HeaderIs
<1> HIDE DEF b
<1>8. ASSUME NEW i, NEW g, Comes(4, i, g)
      PROVE  (b = Value(ub, 4) /\ then = g) \/ (b.error /\ ~written[i].fits)
  <2>1. len = written[i].v BY <1>2, <1>8, ComesAs
  <2>2. Told(Node, written[i], g) BY <1>8 DEF Comes
  <2>3. (len <= Node.cap \/ ~written[i].fits) /\ g = Elements(len, Node.cap)
    BY <1>1, <2>1, <2>2 DEF Told
  <2> QED BY <1>7, <2>3
<1>9. Get(4, b, then) BY <1>2 DEF b
<1> HIDE DEF then
<1> QED BY <1>1, <1>3, <1>7, <1>8, <1>9, GetTracks, ArithmeticSizes

\* The bytes at hand are counted.
LEMMA CountRead ==
  ASSUME IInv, Reading, Node.k \in {"raw", "data"}
  PROVE  Regular(ub) /\ Sound(ub) /\ Node.n \in Nat
<1>1. /\ todo # <<>> /\ Regular(ub) /\ Sound(ub)
      /\ Form(todo) \/ (TooLong(todo) /\ ub.error)
  BY AtRead
<1>2. CASE Form(todo) BY <1>1, <1>2, FormStep DEF Node
<1>3. CASE TooLong(todo) /\ ub.error BY <1>1, <1>3 DEF TooLong, LongRaw, Node
<1> QED BY <1>1, <1>2, <1>3

\* The bytes of a sequence, of an array or of data are read as they were written, unless
\* they are those of a requester.
LEMMA ArrayTracks ==
  ASSUME IInv, LInv, Reading, Node.k \in {"raw", "data"}, NEW b, GetArray(b), b.full = ub.full,
         call.name # "ReplyHeartbeat" => b = Array(ub, Node.n, 1)
  PROVE  LInv'
<1> DEFINE n == Node.n
           x == Taken(ArrayPlaces(ub, n, 1), Node.cap, FALSE)
<1>1. /\ got' = Append(got, x) /\ ub' = b /\ foreign' = StillForeign(b)
      /\ ok' = (ok /\ ~b.error)
      /\ todo' = Tail(todo)
      /\ phase' = phase /\ call' = call /\ written' = written
  BY DEF GetArray
<1>2. call.dir = "in" /\ phase = "read" /\ todo # <<>> /\ Regular(ub) /\ Sound(ub) BY AtRead
<1>3. n \in Nat BY CountRead
<1>4. ub.full # "out" BY <1>2 DEF LInv, InRead
<1>5. ub'.full # "out" BY <1>1, <1>4
<1> HIDE DEF x
<1>6. CASE ~Trusting' BY <1>1, <1>2, <1>5, <1>6, ReadOn
<1>7. CASE Trusting'
  <2>1. call.name # "ReplyHeartbeat" BY <1>1, <1>7 DEF Trusting
  <2>2. b = Array(ub, n, 1) BY <2>1
  <2> HIDE DEF n
  <2>3. ub'.slot = 1 => ub.slot = 1 BY <1>1, <1>2, <1>3, <1>4, <2>2, ArrayFromFirst
  <2>4. Trusting BY <1>1, <1>7, <2>3, TrustBack
  <2>5. CASE ~ok
    <3>1. ~ok' BY <1>1, <2>5
    <3> QED BY <1>1, <1>2, <1>5, <2>4, <2>5, <3>1, FailedOn
  <2>6. CASE ok
    <3>1. PICK R, last, s, t : AtStep(R, last, s, t) BY <1>2, <2>4, <2>6, AtSnapshot
    <3>2. /\ Sent(R, last) /\ t \in R /\ ReadTo(s, last, ub, todo, got, foreign)
          /\ Wrote(s, t, written) /\ Writer(s.b) /\ Final(last.b, t.b)
          /\ s.n \in Nat /\ t.n \in 0..Len(written)
      BY <3>1 DEF AtStep
    <3>3. /\ ub = Arrived(s.b, last.b) /\ todo = s.f /\ Len(got) = s.n
          /\ \A i \in DOMAIN got : got[i].item = i
          /\ Follows(foreign, s.o, ub.slot)
      BY <3>2 DEF ReadTo
    <3> DEFINE i == t.n
               e == written[i]
    <3>4. RawWrote(Node, n, s, t, e)
      <4>1. Node = Head(s.f) BY <3>3 DEF Node
      <4>2. ~OtherWrote(Node, s, t) BY DEF OtherWrote
      <4>3. \A m : ~ValueWrote(Node, m, s, t, e) BY DEF ValueWrote, Told
      <4> HIDE DEF e
      <4>4. \E m : RawWrote(Node, m, s, t, e) BY <3>2, <4>1, <4>2, <4>3 DEF Wrote, e
      <4>5. \A m : RawWrote(Node, m, s, t, e) => m = n BY DEF RawWrote, n
      <4> QED BY <4>4, <4>5
    <3> HIDE DEF e
    <3>5. /\ n \in Nat \ {0} /\ t.b = Array(s.b, n, 1) /\ ~t.b.error /\ i = s.n + 1
          /\ e.places = ArrayPlaces(s.b, n, 1) /\ t.f = Tail(s.f)
          /\ t.o = s.o /\ e.foreign = FALSE
      BY <3>4 DEF RawWrote
    <3>6. /\ Array(ub, n, 1) = Arrived(t.b, last.b) /\ ArrayPlaces(ub, n, 1) = e.places
          /\ ~Array(ub, n, 1).error
      BY <3>2, <3>3, <3>5, ArrayAlike
    <3>7. i \in DOMAIN written
      <4>1. PICK S : written \in Seq(S) BY DEF IInv, WrittenWell
      <4>2. DOMAIN written = 1..Len(written) /\ Len(written) \in Nat BY <4>1
      <4> QED BY <3>2, <3>5, <4>2
    <3>8. Found(ArrayPlaces(ub, n, 1), FALSE) = i
      <4>1. Firsts(written) BY <1>2 DEF LInv, InRead
      <4>2. Found(written[i].places, written[i].foreign) = i BY <3>7, <4>1, FoundIt
      <4>3. Found(e.places, e.foreign) = i BY <4>2 DEF e
      <4> QED BY <3>5, <3>6, <4>3
    <3>9. x.item = s.n + 1 BY <3>5, <3>8 DEF Taken, x
    <3>10. Len(got') = s.n + 1 /\ \A j \in DOMAIN got' : got'[j].item = j
      <4>1. PICK S : got \in Seq(S) BY DEF IInv, GotWell
      <4> QED BY <1>1, <3>3, <3>9, <4>1, GotOneMore
    <3>11. todo' = t.f BY <1>1, <3>3, <3>5
    <3>12. Follows(foreign', t.o, ub'.slot) BY <1>1, <2>3, <3>3, <3>5, FollowsOn
    <3>13. ub' = Arrived(t.b, last.b) BY <1>1, <2>2, <3>6
    <3>14. ReadTo(t, last, ub', todo', got', foreign')
      BY <3>5, <3>10, <3>11, <3>12, <3>13 DEF ReadTo
    <3>15. ok' BY <1>1, <2>2, <2>6, <3>6
    <3> QED BY <1>1, <1>2, <1>5, <3>2, <3>14, <3>15, ReadOn
  <2> QED BY <2>5, <2>6
<1> QED BY <1>6, <1>7

LEMMA GetRawTracks == ASSUME IInv, LInv, GetRaw PROVE LInv'
<1> DEFINE b == Array(ub, Node.n, 1)
<1>1. Reading /\ Node.k = "raw" /\ GetArray(b) BY DEF GetRaw
<1>2. Regular(ub) /\ Sound(ub) /\ Node.n \in Nat BY <1>1, CountRead
<1>3. b.full = ub.full BY <1>2, ArrayAligned, ArithmeticSizes
<1> QED BY <1>1, <1>3, ArrayTracks

LEMMA GetDataTracks == ASSUME IInv, LInv, GetData PROVE LInv'
<1> DEFINE c == Jumped(ub)
           b == Array(c, Node.n, 1)
<1>1. Reading /\ Node.k = "data" /\ GetArray(b) BY DEF GetData
<1>2. Regular(ub) /\ Sound(ub) /\ Node.n \in Nat BY <1>1, CountRead
<1>3. Regular(c) /\ Sound(c) /\ c.full = ub.full BY <1>2, JumpedKept
<1>4. call.name # "ReplyHeartbeat" => c = ub BY DEF Jumped
<1> HIDE DEF c
<1>5. b.full = ub.full BY <1>2, <1>3, ArrayAligned, ArithmeticSizes
<1>6. call.name # "ReplyHeartbeat" => b = Array(ub, Node.n, 1) BY <1>4
<1> HIDE DEF b
<1> QED BY <1>1, <1>5, <1>6, ArrayTracks

\* Nodes without a value, read.
LEMMA OtherRead ==
  ASSUME IInv, LInv, call.dir = "in", phase = "read", todo # <<>>,
         phase' = phase, call' = call, got' = got, ok' = ok, written' = written,
         Node.k \in {"only", "align", "rebase", "endian"},
         ub'.slot = ub.slot, ub'.full = ub.full,
         \A s, t, last : ub = Arrived(s.b, last.b) /\ todo = s.f /\ OtherWrote(Node, s, t)
                         /\ Writer(s.b) /\ Final(last.b, t.b) /\ Follows(foreign, s.o, ub.slot)
                         => /\ ub' = Arrived(t.b, last.b) /\ todo' = t.f
                            /\ Follows(foreign', t.o, ub'.slot)
  PROVE  LInv'
<1>1. ub'.full # "out" BY DEF LInv, InRead
<1>2. Trusting' => Trusting BY TrustBack
<1>3. CASE ~Trusting' BY <1>1, <1>3, ReadOn
<1>4. CASE ~ok BY <1>1, <1>2, <1>4, FailedOn
<1>5. CASE ok /\ Trusting'
  <2>1. PICK R, last, s, t : AtStep(R, last, s, t) BY <1>2, <1>5, AtSnapshot
  <2>2. /\ Sent(R, last) /\ t \in R /\ ReadTo(s, last, ub, todo, got, foreign)
        /\ Wrote(s, t, written) /\ Writer(s.b) /\ Final(last.b, t.b)
    BY <2>1 DEF AtStep
  <2>3. /\ ub = Arrived(s.b, last.b) /\ todo = s.f /\ Len(got) = s.n
        /\ \A i \in DOMAIN got : got[i].item = i
        /\ Follows(foreign, s.o, ub.slot)
    BY <2>2 DEF ReadTo
  <2>4. OtherWrote(Node, s, t)
    <3>1. Node = Head(s.f) BY <2>3 DEF Node
    <3> DEFINE e == written[t.n]
    <3>2. \A m : ~ValueWrote(Node, m, s, t, e) BY DEF ValueWrote, Told
    <3>3. \A m : ~RawWrote(Node, m, s, t, e) BY DEF RawWrote
    <3> QED BY <2>2, <3>1, <3>2, <3>3 DEF Wrote
  <2>5. t.n = s.n BY <2>4 DEF OtherWrote
  <2>6. ub' = Arrived(t.b, last.b) /\ todo' = t.f /\ Follows(foreign', t.o, ub'.slot)
    BY <2>2, <2>3, <2>4
  <2>7. ReadTo(t, last, ub', todo', got', foreign') BY <2>3, <2>5, <2>6 DEF ReadTo
  <2> QED BY <1>1, <1>5, <2>2, <2>7, ReadOn
<1> QED BY <1>3, <1>4, <1>5

LEMMA OnlyRead ==
  ASSUME IInv, LInv, call.dir = "in", phase = "read", SkipOther PROVE LInv'
<1>1. /\ todo # <<>> /\ Node.k = "only"
      /\ todo' = (IF Node.dir = call.dir THEN Node.s ELSE <<>>) \o Tail(todo)
      /\ phase' = phase /\ call' = call /\ ub' = ub /\ written' = written
      /\ got' = got /\ ok' = ok /\ foreign' = foreign
  BY DEF SkipOther
<1>2. ASSUME NEW s, NEW t, NEW last, ub = Arrived(s.b, last.b), todo = s.f, OtherWrote(Node, s, t),
             Follows(foreign, s.o, ub.slot)
      PROVE  ub' = Arrived(t.b, last.b) /\ todo' = t.f /\ Follows(foreign', t.o, ub'.slot)
  <2>1. /\ t.b = s.b /\ t.f = (IF Node.dir = "in" THEN Node.s ELSE <<>>) \o Tail(s.f)
        /\ t.o = s.o
    BY <1>1, <1>2 DEF OtherWrote
  <2>2. ub' = Arrived(t.b, last.b) /\ todo' = t.f BY <1>1, <1>2, <2>1
  <2>3. Follows(foreign', t.o, ub'.slot) BY <1>1, <1>2, <2>1
  <2> QED BY <2>2, <2>3
<1> QED BY <1>1, <1>2, OtherRead

LEMMA AlignRead ==
  ASSUME IInv, LInv, call.dir = "in", phase = "read", AlignOrRebase PROVE LInv'
<1>1. /\ todo # <<>> /\ Node.k \in {"align", "rebase"}
      /\ ub' = IF Node.k = "align" THEN AlignTo(ub, Node.n) ELSE RebasedBuffer(ub)
      /\ foreign' = (foreign /\ Node.k = "align")
      /\ todo' = Tail(todo)
      /\ phase' = phase /\ call' = call /\ written' = written /\ got' = got /\ ok' = ok
  BY DEF AlignOrRebase
<1>2. ub'.slot = ub.slot /\ ub'.full = ub.full
  <2>1. ub \in Buffers BY DEF IInv, BufferWell, Regular
  <2>2. CASE Node.k = "align" BY <1>1, <2>1, <2>2 DEF AlignTo, Buffers
  <2>3. CASE Node.k = "rebase" BY <1>1, <2>1, <2>3 DEF RebasedBuffer, Buffers
  <2> QED BY <1>1, <2>2, <2>3
<1>3. ASSUME NEW s, NEW t, NEW last, ub = Arrived(s.b, last.b), todo = s.f, OtherWrote(Node, s, t),
             Writer(s.b), Final(last.b, t.b), Follows(foreign, s.o, ub.slot)
      PROVE  ub' = Arrived(t.b, last.b) /\ todo' = t.f /\ Follows(foreign', t.o, ub'.slot)
  <2>1. CASE Node.k = "align"
    <3>1. Node.n \in DataSizes /\ t.b = AlignTo(s.b, Node.n) /\ t.f = Tail(s.f) /\ t.o = s.o
      BY <1>3, <2>1 DEF OtherWrote
    <3>2. AlignTo(ub, Node.n) = Arrived(t.b, last.b) BY <1>3, <3>1, AlignToAlike
    <3>3. foreign' <=> foreign BY <1>1, <2>1
    <3>4. Follows(foreign', t.o, ub'.slot) BY <1>2, <1>3, <3>1, <3>3 DEF Follows
    <3> QED BY <1>1, <1>3, <2>1, <3>1, <3>2, <3>4
  <2>2. CASE Node.k = "rebase"
    <3>1. t.b = RebasedBuffer(s.b) /\ t.f = Tail(s.f) /\ t.o = FALSE
      BY <1>3, <2>2 DEF OtherWrote
    <3>2. RebasedBuffer(ub) = Arrived(t.b, last.b) BY <1>3, <3>1, RebaseAlike
    <3>3. ~foreign' BY <1>1, <2>2
    <3>4. Follows(foreign', t.o, ub'.slot) BY <3>1, <3>3 DEF Follows
    <3> QED BY <1>1, <1>3, <2>2, <3>1, <3>2, <3>4
  <2> QED BY <1>1, <2>1, <2>2
<1> QED BY <1>1, <1>2, <1>3, OtherRead

LEMMA OrderRead ==
  ASSUME IInv, LInv, call.dir = "in", phase = "read", SetOrder PROVE LInv'
<1>1. /\ todo # <<>> /\ Node.k = "endian" /\ foreign' = Node.other /\ todo' = Tail(todo)
      /\ phase' = phase /\ call' = call /\ ub' = ub /\ written' = written
      /\ got' = got /\ ok' = ok
  BY DEF SetOrder
<1>2. ASSUME NEW s, NEW t, NEW last, ub = Arrived(s.b, last.b), todo = s.f, OtherWrote(Node, s, t)
      PROVE  ub' = Arrived(t.b, last.b) /\ todo' = t.f /\ Follows(foreign', t.o, ub'.slot)
  <2>1. t.b = s.b /\ t.f = Tail(s.f) BY <1>1, <1>2 DEF OtherWrote
  <2>2. t.o = Node.other BY <1>1, <1>2 DEF OtherWrote
  <2>3. Follows(foreign', t.o, ub'.slot) BY <1>1, <2>2 DEF Follows
  <2> QED BY <1>1, <1>2, <2>1, <2>3
<1> QED BY <1>1, <1>2, OtherRead

-----------------------------------------------------------------------------
(* Beginning and ending.                                                   *)

\* How the agent begins.
Fresh(b) ==
  /\ b.slot = 1 /\ b.last = 0 /\ b.error = FALSE
  /\ \/ b.full = "none" /\ b.ends = <<400>> /\ b.at = 4 /\ b.offset = 4
     \/ b.full = "out" /\ b.at = 0 /\ b.offset = 0

LEMMA AgentBegins ==
  ASSUME NEW b \in AgentBuffers
  PROVE  Fresh(b) /\ Writer(b)
<1>1. Regular(b) /\ Sound(b) BY AgentRegular
<1>2. CASE b = InitBuffer(<<400>>, 4, "none")
  <2>1. Fresh(b) /\ b.full # "in" BY <1>2 DEF Fresh, InitBuffer
  <2>2. b.ends = <<400>> BY <1>2 DEF InitBuffer
  <2>3. Len(<<400>>) = 1 /\ <<400>>[1] = 400 OBVIOUS
  <2>4. End(b) = 400 BY <2>2, <2>3 DEF End
  <2>5. End(b) <= Wrapped BY <2>4 DEF Wrapped
  <2> QED BY <1>1, <2>1, <2>5 DEF Writer, Fresh
<1>3. ASSUME NEW c \in Blocks, b = InitBuffer([i \in 1..41 |-> c[1] + (i - 1) * c[2]], 0, "out")
      PROVE  Fresh(b) /\ Writer(b)
  <2> DEFINE ends == [i \in 1..41 |-> c[1] + (i - 1) * c[2]]
  <2>1. c[1] \in Nat /\ c[2] \in Nat /\ c[1] + 40 * c[2] <= Wrapped BY BlocksAssumption
  <2>2. b.ends = ends /\ Fresh(b) /\ b.full # "in" BY <1>3 DEF Fresh, InitBuffer
  <2>3. Len(b.ends) \in Nat /\ DOMAIN b.ends = 1..Len(b.ends) BY <1>1, SlotType
  <2>4. DOMAIN ends = 1..41 /\ ends[41] = c[1] + (41 - 1) * c[2] OBVIOUS
  <2>5. Len(b.ends) = 41
    <3> DEFINE L == Len(b.ends)
               D == 1..41
    <3>1. L \in Nat /\ DOMAIN b.ends = 1..L BY <2>3
    <3>2. DOMAIN b.ends = D BY <2>2, <2>4
    <3> HIDE DEF L, D
    <3>3. 1..L = D BY <3>1, <3>2
    <3>4. L = 41
      <4>1. 41 \in 1..L BY <3>3 DEF D
      <4>2. L \in D BY <3>1, <3>3, <4>1
      <4> QED BY <3>1, <4>1, <4>2 DEF D
    <3> QED BY <3>4 DEF L
  <2> HIDE DEF ends
  <2>6. 41 - 1 = 40 OBVIOUS
  <2>7. End(b) = c[1] + 40 * c[2] BY <2>2, <2>4, <2>5, <2>6 DEF End
  <2>8. End(b) <= Wrapped BY <2>1, <2>7
  <2> QED BY <1>1, <2>2, <2>8 DEF Writer, Fresh
<1> QED BY <1>2, <1>3 DEF AgentBuffers

\* What has arrived in one piece.
LEMMA OnePiece ==
  ASSUME NEW b, Regular(b), Known(b), NEW size, b.ends = <<size>>
  PROVE  ArrivedEnds(b) = <<b.at>>
<1>1. b.at \in Nat /\ b.slot \in Nat BY SlotType
<1>2. b.slot = 1
  <2>1. DOMAIN <<size>> = {1} OBVIOUS
  <2> QED BY <2>1 DEF Known
<1>3. ArrivedEnds(b) = [s \in 1..1 |-> IF s < 1 THEN b.ends[s] ELSE Begins(b, s) + b.at]
  BY <1>2 DEF ArrivedEnds
<1>4. \A s \in 1..1 : (IF s < 1 THEN b.ends[s] ELSE Begins(b, s) + b.at) = b.at
  <2> TAKE s \in 1..1
  <2>1. s = 1 /\ ~(s < 1) OBVIOUS
  <2>2. Begins(b, s) = 0 BY <2>1 DEF Begins
  <2> QED BY <1>1, <2>1, <2>2
<1>5. ArrivedEnds(b) = [s \in 1..1 |-> b.at] BY <1>3, <1>4
<1> QED BY <1>1, <1>5

\* The reader begins where the agent began, in what has arrived.
LEMMA BeginsAlike ==
  ASSUME NEW b, Fresh(b), Regular(b), NEW f, Final(f, b)
  PROVE  Arrived(b, f) = IF f.full = "none" THEN InitBuffer(<<f.at>>, 4, "none")
                         ELSE InitBuffer(ArrivedEnds(f), 0, "in")
<1> DEFINE r == Arrived(b, f)
           c == IF f.full = "none" THEN InitBuffer(<<f.at>>, 4, "none")
                ELSE InitBuffer(ArrivedEnds(f), 0, "in")
<1>1. Regular(f) /\ Known(f) /\ f.full # "in" /\ f.ends = b.ends /\ f.full = b.full
  BY DEF Final
<1>2. /\ Regular(r) /\ r.slot = b.slot /\ r.at = b.at /\ r.offset = b.offset /\ r.last = b.last
      /\ r.error = b.error /\ r.ends = ArrivedEnds(f)
      /\ r.full = IF f.full = "none" THEN "none" ELSE "in"
  <2>1. b \in Buffers BY DEF Regular
  <2>2. Regular(r) BY ArrivedFacts
  <2> HIDE DEF r
  <2>3. /\ r.ends = ArrivedEnds(f) /\ r.full = IF f.full = "none" THEN "none" ELSE "in"
        /\ r.slot = b.slot /\ r.at = b.at /\ r.offset = b.offset /\ r.last = b.last
        /\ r.error = b.error
    BY <2>1, ArrivedFields DEF r
  <2> QED BY <2>2, <2>3
<1>3. f.at \in Nat BY <1>1, SlotType
<1>4. CASE f.full = "none"
  <2>1. /\ b.ends = <<400>> /\ b.slot = 1 /\ b.at = 4 /\ b.offset = 4 /\ b.last = 0
        /\ b.error = FALSE
    BY <1>1, <1>4 DEF Fresh
  <2>2. ArrivedEnds(f) = <<f.at>> BY <1>1, <2>1, OnePiece
  <2>3. c = InitBuffer(<<f.at>>, 4, "none") BY <1>4
  <2> HIDE DEF c, r
  <2>4. Regular(c) BY <1>3, <2>3, OneSlotRegular
  <2>5. /\ c.ends = <<f.at>> /\ c.slot = 1 /\ c.at = 4 /\ c.offset = 4 /\ c.last = 0
        /\ c.error = FALSE /\ c.full = "none"
    BY <2>3 DEF InitBuffer
  <2>6. r \in Buffers /\ c \in Buffers BY <1>2, <2>4 DEF Regular
  <2>7. r.ends = c.ends /\ r.full = c.full BY <1>2, <1>4, <2>2, <2>5
  <2>8. r.slot = c.slot /\ r.at = c.at /\ r.offset = c.offset /\ r.last = c.last
    BY <1>2, <2>1, <2>5
  <2>9. r.error = c.error BY <1>2, <2>1, <2>5
  <2>10. r = c BY <2>6, <2>7, <2>8, <2>9, SameFields
  <2> QED BY <2>10 DEF r, c
<1>5. CASE f.full # "none"
  <2>1. b.at = 0 /\ b.offset = 0 BY <1>1, <1>5 DEF Fresh
  <2> DEFINE ends == ArrivedEnds(f)
  <2>2. /\ ends \in Seq(Nat) /\ ends # <<>>
        /\ \A i, j \in DOMAIN ends : i <= j => ends[i] <= ends[j]
    BY <1>1, ArrivedRegular DEF Known
  <2>3. c = InitBuffer(ends, 0, "in") BY <1>5
  <2> HIDE DEF c, r, ends
  <2>4. Regular(c) BY <2>2, <2>3, InitRegular
  <2>5. /\ c.ends = ends /\ c.slot = 1 /\ c.at = 0 /\ c.offset = 0 /\ c.last = 0
        /\ c.error = FALSE /\ c.full = "in"
    BY <2>3 DEF InitBuffer
  <2>6. r \in Buffers /\ c \in Buffers BY <1>2, <2>4 DEF Regular
  <2>7. r.ends = ends BY <1>2 DEF ends
  <2>8. r = c BY <1>2, <1>5, <2>1, <2>5, <2>6, <2>7, SameFields DEF Fresh
  <2> QED BY <2>8 DEF r, c
<1> QED BY <1>4, <1>5

\* The client's own messages are not read here.
LEMMA Unread ==
  ASSUME call'.dir # "in", got' = <<>>
  PROVE  LInv'
BY DEF LInv, Quiet, InWrite, InRead

LEMMA StillUnread ==
  ASSUME LInv, call.dir # "in", call' = call, got' = got
  PROVE  LInv'
<1>1. got = <<>> BY DEF LInv, Quiet
<1> QED BY <1>1, Unread

LEMMA InitTracks == Init => LInv
<1> SUFFICES ASSUME Init PROVE LInv OBVIOUS
<1>1. call.dir # "in" /\ got = <<>> BY DEF Init
<1> QED BY <1>1 DEF LInv, Quiet, InWrite, InRead

LEMMA BeginTracks ==
  ASSUME BeginBuffered \/ BeginOwnBuffer \/ BeginBlob \/ EndBlob
  PROVE  LInv'
<1>1. \E name : call' = Written(name)
  BY DEF BeginBuffered, BeginOwnBuffer, BeginBlob, EndBlob
<1>2. got' = <<>> BY DEF BeginBuffered, BeginOwnBuffer, BeginBlob, EndBlob, Started
<1>3. call'.dir # "in" BY <1>1 DEF Written
<1> QED BY <1>2, <1>3, Unread

LEMMA BeginReceivedTracks == ASSUME BeginReceived PROVE LInv'
<1>1. PICK name \in DOMAIN ReceivedForms, b \in AgentBuffers :
        /\ call' = [dir |-> "in", name |-> name]
        /\ todo' = ReceivedForms[name] /\ ub' = b
  BY DEF BeginReceived
<1>2. phase' = "write" /\ ok' = TRUE /\ written' = <<>> /\ got' = <<>> /\ foreign' = FALSE
  BY DEF BeginReceived, Started
<1>3. call'.name = name BY <1>1
<1>4. Fresh(b) /\ Writer(b) BY AgentBegins
<1>5. Len(<<>>) = 0 /\ DOMAIN <<>> = {} OBVIOUS
<1>6. Firsts(written') /\ Behindhand(written', ub') BY <1>2, <1>5 DEF Firsts, Behindhand
<1> DEFINE h == Here'
           R == {h}
           w == written'
<1>7. h = [b |-> b, f |-> ReceivedForms[name], n |-> 0, o |-> FALSE] BY <1>1, <1>2, <1>5 DEF Here
<1>8. h.b = b /\ h.n = 0 /\ h.o = FALSE BY <1>7
<1>9. h \in R /\ \A s \in R : s = h OBVIOUS
<1>10. Len(w) = 0 BY <1>2, <1>5
<1> HIDE DEF h, R, w
<1>11. Begun(R, name) BY <1>7, <1>9 DEF Begun
<1>12. Snapshot(h, h, w)
  <2>1. NotAfter(b, b) BY <1>4, NotAfterItself DEF Writer
  <2>2. 0 \in 0..0 OBVIOUS
  <2> QED BY <1>4, <1>8, <1>10, <2>1, <2>2 DEF Snapshot
<1>13. Leads(R, h, h, w) BY DEF Leads
<1>14. Tracked(R, h, w, name) BY <1>9, <1>11, <1>12, <1>13 DEF Tracked
<1>15. \E Q : Tracked(Q, Here', written', call'.name) BY <1>3, <1>14 DEF h, w
<1>16. ub'.full # "in" /\ End(ub') <= Wrapped BY <1>1, <1>4 DEF Writer
<1>17. InWrite' BY <1>2, <1>6, <1>15, <1>16 DEF InWrite
<1>18. Quiet' BY <1>2 DEF Quiet
<1>19. InRead' BY <1>2 DEF InRead
<1> QED BY <1>17, <1>18, <1>19 DEF LInv

LEMMA EndWritingTracks == ASSUME IInv, LInv, EndWriting PROVE LInv'
<1>1. /\ phase = "write" /\ todo = <<>> /\ call' = call
      /\ written' = written /\ got' = got /\ ok' = ok
  BY DEF EndWriting
<1>2. CASE call.dir = "out" BY <1>1, <1>2, StillUnread
<1>3. CASE /\ call.dir = "in" /\ ~ub.error /\ ub.slot \in DOMAIN ub.ends
           /\ phase' = "read" /\ foreign' = FALSE /\ todo' = ReceivedForms[call.name]
           /\ ub' = IF ub.full = "none"
                    THEN InitBuffer(<<ub.at>>, 4, "none")
                    ELSE InitBuffer(ArrivedEnds(ub), 0, "in")
  <2>1. Known(ub) /\ ~ub.error BY <1>3 DEF Known
  <2>2. /\ ub.full # "in" /\ ok = TRUE /\ Firsts(written)
        /\ \E R : Tracked(R, Here, written, call.name)
    BY <1>1, <1>3, <2>1 DEF LInv, InWrite
  <2>3. got = <<>> BY <1>1 DEF LInv, Quiet
  <2>4. PICK R : Tracked(R, Here, written, call.name) BY <2>2
  <2> DEFINE last == Here
  <2>5. last.b = ub /\ last.f = <<>> /\ last.n = Len(written) BY <1>1, HereIs
  <2> HIDE DEF last
  <2>6. Tracked(R, last, written, call.name) BY <2>4 DEF last
  <2>7. Sent(R, last) BY <2>1, <2>5, <2>6 DEF Sent
  <2>8. PICK b \in AgentBuffers : [b |-> b, f |-> ReceivedForms[call.name], n |-> 0, o |-> FALSE] \in R
    BY <2>6 DEF Tracked, Begun
  <2> DEFINE s == [b |-> b, f |-> ReceivedForms[call.name], n |-> 0, o |-> FALSE]
  <2>9. s.b = b /\ s.f = ReceivedForms[call.name] /\ s.n = 0 /\ s.o = FALSE /\ s \in R BY <2>8
  <2> HIDE DEF s
  <2>10. Snapshot(s, last, written) BY <2>6, <2>9 DEF Tracked
  <2>11. NotAfter(b, ub) /\ b.ends = ub.ends /\ b.full = ub.full
    BY <2>5, <2>9, <2>10 DEF Snapshot
  <2>12. Fresh(b) /\ Writer(b) BY AgentBegins
  <2>13. Regular(b) /\ Regular(ub) BY <2>12 DEF Writer, IInv, BufferWell
  <2>14. Final(ub, b) BY <2>1, <2>2, <2>11, <2>13 DEF Final
  <2>15. ub' = Arrived(b, ub) BY <1>3, <2>12, <2>13, <2>14, BeginsAlike
  <2>16. Len(<<>>) = 0 /\ DOMAIN <<>> = {} OBVIOUS
  <2>23. Follows(foreign', s.o, ub'.slot)
    <3>1. ~foreign' BY <1>3
    <3> QED BY <2>9, <3>1 DEF Follows
  <2>17. ReadTo(s, last, ub', todo', got', foreign')
    BY <1>1, <1>3, <2>3, <2>5, <2>9, <2>15, <2>16, <2>23 DEF ReadTo
  <2>18. \E Q, x : Sent(Q, x) /\ \E t \in Q : ReadTo(t, x, ub', todo', got', foreign')
    BY <2>7, <2>9, <2>17
  <2>19. \A Q, x : Sent(Q, x) => Sent(Q, x)' BY <1>1 DEF Sent
  <2>24. Matching' BY <1>1, <1>3, <2>2, <2>18, <2>19 DEF Matching
  <2>25. ub'.full # "out"
    <3>1. CASE ub.full = "none"
      <4>1. ub' = InitBuffer(<<ub.at>>, 4, "none") BY <1>3, <3>1
      <4> QED BY <4>1 DEF InitBuffer
    <3>2. CASE ub.full # "none"
      <4>1. ub' = InitBuffer(ArrivedEnds(ub), 0, "in") BY <1>3, <3>2
      <4> QED BY <4>1 DEF InitBuffer
    <3> QED BY <3>1, <3>2
  <2>20. InRead' BY <1>1, <2>2, <2>24, <2>25 DEF InRead
  <2>21. Quiet' BY <1>1, <1>3 DEF Quiet
  <2>22. InWrite' BY <1>3 DEF InWrite
  <2> QED BY <2>20, <2>21, <2>22 DEF LInv
<1> QED BY <1>2, <1>3 DEF EndWriting

LEMMA EndReadingTracks == ASSUME IInv, LInv, EndReading PROVE LInv'
<1>1. /\ phase = "read" /\ todo = <<>> /\ phase' = "done" /\ call' = call /\ ub' = ub /\ ok' = ok
      /\ written' = written /\ got' = got /\ todo' = todo /\ foreign' = foreign
  BY DEF EndReading
<1>2. call.dir = "in" BY <1>1 DEF IInv, Phased
<1>3. Quiet' BY <1>1, <1>2 DEF Quiet
<1>4. InWrite' BY <1>1 DEF InWrite
<1>5. Unfit' = Unfit BY <1>1 DEF Unfit
<1>6. \A R, last : Sent(R, last) => Sent(R, last)' BY <1>1 DEF Sent
<1>7. Firsts(written) /\ ub.full # "out" /\ (Trusting => Matching)
  BY <1>1, <1>2 DEF LInv, InRead
<1>9. Trusting' => Trusting BY <1>1 DEF Trusting
<1>10. ASSUME Matching PROVE Matching'
  <2>1. /\ ~ok => Unfit
        /\ ok => \E R, last : Sent(R, last) /\ \E s \in R : ReadTo(s, last, ub, todo, got, foreign)
    BY <1>10 DEF Matching
  <2> QED BY <1>1, <1>5, <1>6, <2>1 DEF Matching
<1>8. InRead' BY <1>1, <1>7, <1>9, <1>10 DEF InRead
<1> QED BY <1>3, <1>4, <1>8 DEF LInv

LEMMA PutTracks ==
  ASSUME IInv, IInv', LInv, PutInt \/ PutRaw \/ PutBytes \/ PutOpt \/ PutTag \/ PutList
  PROVE  LInv'
<1>1. call' = call /\ got' = got
  BY DEF PutInt, PutRaw, PutBytes, PutOpt, PutTag, PutList, Put
<1>2. CASE call.dir # "in" BY <1>1, <1>2, StillUnread
<1>3. CASE call.dir = "in"
  BY <1>3, PutIntTracks, PutRawTracks, PutBytesTracks, PutOptTracks, PutTagTracks, PutListTracks
<1> QED BY <1>2, <1>3

LEMMA BothTrack == ASSUME IInv, IInv', LInv, SkipOther \/ AlignOrRebase \/ SetOrder PROVE LInv'
<1>1. phase \in {"blob", "write", "read"} /\ call' = call /\ got' = got
  BY DEF SkipOther, AlignOrRebase, SetOrder
<1>2. CASE call.dir # "in" BY <1>1, <1>2, StillUnread
<1>3. CASE call.dir = "in"
  <2>1. phase = "write" \/ phase = "read" BY <1>1, <1>3 DEF IInv, Phased
  <2>2. CASE phase = "write" BY <1>3, <2>2, OnlyTracks, AlignTracks, OrderTracks
  <2>3. CASE phase = "read" BY <1>3, <2>3, OnlyRead, AlignRead, OrderRead
  <2> QED BY <2>1, <2>2, <2>3
<1> QED BY <1>2, <1>3

LEMMA StepTracks == IInv /\ IInv' /\ LInv /\ [Next]_vars => LInv'
<1> SUFFICES ASSUME IInv, IInv', LInv, [Next]_vars PROVE LInv' OBVIOUS
<1>1. CASE BeginBuffered \/ BeginOwnBuffer \/ BeginBlob \/ EndBlob BY <1>1, BeginTracks
<1>2. CASE BeginReceived BY <1>2, BeginReceivedTracks
<1>3. CASE PutInt \/ PutRaw \/ PutBytes \/ PutOpt \/ PutTag \/ PutList BY <1>3, PutTracks
<1>4. CASE SkipOther \/ AlignOrRebase \/ SetOrder BY <1>4, BothTrack
<1>5. CASE EndWriting BY <1>5, EndWritingTracks
<1>6. CASE GetInt BY <1>6, GetIntTracks
<1>7. CASE GetRaw BY <1>7, GetRawTracks
<1>8. CASE GetBytes BY <1>8, GetBytesTracks
<1>9. CASE GetOpt BY <1>9, GetOptTracks
<1>10. CASE GetTag BY <1>10, GetTagTracks
<1>11. CASE GetList BY <1>11, GetListTracks
<1>12. CASE EndReading BY <1>12, EndReadingTracks
<1>14. CASE GetData BY <1>14, GetDataTracks
<1>13. CASE UNCHANGED vars
  <2>1. /\ phase' = phase /\ call' = call /\ ub' = ub /\ todo' = todo
        /\ written' = written /\ got' = got /\ ok' = ok /\ foreign' = foreign
    BY <1>13 DEF vars
  <2>2. Quiet' BY <2>1 DEF LInv, Quiet
  <2>3. Here' = Here BY <2>1 DEF Here
  <2>4. InWrite' BY <2>1, <2>3 DEF LInv, InWrite
  <2>5. Unfit' = Unfit BY <2>1 DEF Unfit
  <2>6. \A R, last : Sent(R, last)' <=> Sent(R, last) BY <2>1 DEF Sent
  <2>8. Matching => Matching' BY <2>1, <2>5, <2>6 DEF Matching
  <2>9. Trusting' => Trusting BY <2>1 DEF Trusting
  <2>7. InRead' BY <2>1, <2>8, <2>9 DEF LInv, InRead
  <2> QED BY <2>2, <2>4, <2>7 DEF LInv
<1> QED
  BY <1>1, <1>2, <1>3, <1>4, <1>5, <1>6, <1>7, <1>8, <1>9, <1>10, <1>11, <1>12, <1>13,
     <1>14 DEF Next

LEMMA LockstepHolds == Spec => [](IInv /\ LInv)
<1>1. Init => IInv /\ LInv BY InitHolds, InitTracks
<1>2. IInv /\ LInv /\ [Next]_vars => IInv' /\ LInv'
  <2> SUFFICES ASSUME IInv, LInv, [Next]_vars PROVE IInv' /\ LInv' OBVIOUS
  <2>1. IInv' BY StepHolds
  <2> QED BY <2>1, StepTracks
<1>3. (IInv /\ LInv)' <=> IInv' /\ LInv' OBVIOUS
<1> QED BY <1>1, <1>2, PTL DEF Spec

\* What the client reads of a message of the agent is what the agent wrote, value by value
\* and in order, however the message is cut into slots and whatever its lengths, options
\* and formats are (on_full_input_buffer, read_format_data and the functions of
\* xrce_types.c in pairs): for every user's type and every size of the slots, if what is in
\* the order that is not the machine's is in the first slot, and before the data of a
\* requester.
THEOREM ReadsWhatWasWritten == Spec => []ReadsBack
<1>1. IInv /\ LInv => ReadsBack
  <2> SUFFICES ASSUME IInv, LInv, ok, Trusting, NEW i \in DOMAIN got PROVE got[i].item = i
    BY DEF ReadsBack
  <2>1. CASE got = <<>> BY <2>1
  <2>2. CASE got # <<>>
    <3>1. call.dir = "in" /\ phase \in {"read", "done"} BY <2>2 DEF LInv, Quiet
    <3>2. Matching BY <3>1 DEF LInv, InRead
    <3>3. \E R, last : Sent(R, last) /\ \E s \in R : ReadTo(s, last, ub, todo, got, foreign)
      BY <3>2 DEF Matching
    <3> QED BY <3>3 DEF ReadTo
  <2> QED BY <2>1, <2>2
<1> QED BY <1>1, LockstepHolds, PTL

\* A message of the agent whose sequences fit the client's structures is read to its end,
\* and nothing of it is left out or reported as a failure, if what is in the order that is
\* not the machine's is in the first slot and no requester's data come before.
THEOREM ReadsToTheEnd == Spec => []ReadsAll
<1>1. IInv /\ LInv => ReadsAll
  <2> SUFFICES ASSUME IInv, LInv, phase = "done", call.dir = "in", Trusting,
                      \A i \in DOMAIN written : written[i].fits
               PROVE  ok /\ Len(got) = Len(written)
    BY DEF ReadsAll
  <2>1. Matching BY DEF LInv, InRead
  <2>2. ok BY <2>1 DEF Matching, Unfit
  <2>3. todo = <<>> BY <2>1, <2>2 DEF Matching
  <2>4. PICK R, last : Sent(R, last) /\ \E s \in R : ReadTo(s, last, ub, todo, got, foreign)
    BY <2>1, <2>2 DEF Matching
  <2>5. PICK s \in R : ReadTo(s, last, ub, todo, got, foreign) BY <2>4
  <2>6. Leads(R, s, last, written) /\ last.n = Len(written) BY <2>4 DEF Sent, Tracked
  <2>7. s.f = <<>> /\ Len(got) = s.n BY <2>3, <2>5 DEF ReadTo
  <2>8. s = last BY <2>6, <2>7 DEF Leads, Wrote
  <2> QED BY <2>2, <2>6, <2>7, <2>8
<1> QED BY <1>1, LockstepHolds, PTL
=============================================================================
