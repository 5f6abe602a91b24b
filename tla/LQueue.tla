------------------------------- MODULE LQueue -------------------------------
(***************************************************************************)
(* lqueue.c: a ring of bytes that stores messages of variable length, each *)
(* behind a length header of one to three bytes (VLQUEUE_16_BIT_LEN = 1).  *)
(* Every call is one step here: the callers of this module run alone.  The *)
(* interleavings of two callers are the subject of LQueueRace.             *)
(***************************************************************************)
EXTENDS Integers, Sequences

CONSTANTS
  BufferLength,   \* bytes in the caller's buffer (64 in every transport)
  Short,          \* first length that needs two header bytes (0x40)
  Messages,       \* the byte strings callers push
  BufSizes        \* the sizes of the buffers callers pop into

ASSUME BufferLengthAssumption == BufferLength \in Nat \ {0}
ASSUME ShortAssumption == Short \in Nat \ {0}

(* A byte holds a two-bit command and a value below Short.                 *)
Radix == 4 * Short
Byte == 0 .. Radix - 1
Index == 0 .. BufferLength - 1

ASSUME MessagesAssumption == Messages \subseteq Seq(Byte)
ASSUME BufSizesAssumption == BufSizes \subseteq Nat \ {0}

VARIABLES
  buffer,       \* ccb->buffer
  writeIndex,   \* ccb->writeIndex
  readIndex,    \* ccb->readIndex
  msgCnt,       \* ccb->msgCnt
  result,       \* return value and output buffer of the last call
  queued        \* history: the messages stored, with their distance from readIndex

ring == <<buffer, writeIndex, readIndex, msgCnt>>
vars == <<buffer, writeIndex, readIndex, msgCnt, result, queued>>

Answer(code, msg) == [code |-> code, msg |-> msg]
Code(code) == Answer(code, <<>>)

-----------------------------------------------------------------------------
(* The ring and the frames in it.                                          *)

(* Operators and actions introduced as "Mutant" are not the code's: they   *)
(* are mistakes the properties must notice.                                *)

(* An index moved n <= BufferLength bytes on, as the copy loops wrap it.   *)
Advance(i, n) ==
  IF i + n >= BufferLength THEN i + n - BufferLength ELSE i + n

(* Bytes from index i forward to index j.                                  *)
Distance(i, j) == IF j >= i THEN j - i ELSE j - i + BufferLength

(* Mutant: no byte is kept free to tell a full ring from an empty one.     *)
calcFreeSpaceWhole(wi, ri) ==
  IF ri > wi THEN ri - wi ELSE BufferLength - wi + ri

(* One byte stays free.                                                    *)
calcFreeSpace(wi, ri) ==
  IF ri > wi THEN ri - wi - 1 ELSE BufferLength - wi + ri - 1

FreeSpace == calcFreeSpace(writeIndex, readIndex)

HeaderSize(len) ==
  IF len < Short THEN 1 ELSE IF len < Short * Radix THEN 2 ELSE 3

EncodeLength(len) ==
  CASE HeaderSize(len) = 1 -> <<len>>
    [] HeaderSize(len) = 2 -> <<Short + len \div Radix, len % Radix>>
    [] HeaderSize(len) = 3 -> <<2 * Short, len \div Radix, len % Radix>>

FrameSize(m) == HeaderSize(Len(m)) + Len(m)

(* The header and the message, byte by byte.                               *)
Frame(m) ==
  [k \in 1 .. FrameSize(m) |->
     IF k <= HeaderSize(Len(m)) THEN EncodeLength(Len(m))[k]
                                ELSE m[k - HeaderSize(Len(m))]]

(* The header at index i: the length it holds, and where the message       *)
(* behind it starts.                                                       *)
DecodeLength(i) ==
  LET cmd  == buffer[i] \div Short
      bits == buffer[i] % Short
      second == buffer[Advance(i, 1)]
      third  == buffer[Advance(i, 2)]
  IN [start |-> Advance(i, cmd + 1),
      len   |-> CASE cmd = 0 -> bits
                  [] cmd = 1 -> bits * Radix + second
                  [] OTHER   -> (bits * Radix + second) * Radix + third]

Payload(i, n) == [k \in 1 .. n |-> buffer[Advance(i, k - 1)]]

-----------------------------------------------------------------------------
(* The calls that change the queue.                                        *)

Init ==
  /\ buffer = [i \in Index |-> 0]
  /\ writeIndex = 0
  /\ readIndex = 0
  /\ msgCnt = 0
  /\ result = Code("ok")
  /\ queued = <<>>

(* Mutant: a frame that just fits is refused.                              *)
PushRefusedEarly(m) ==
  /\ 0 < Len(m) /\ Len(m) < Radix * Radix
  /\ FreeSpace <= FrameSize(m)
  /\ result' = Code("full")
  /\ UNCHANGED <<ring, queued>>

(* lqueue_push refuses an empty message, one whose length has no encoding, *)
(* and one that does not fit in the free space together with its header.   *)
PushRefused(m) ==
  /\ \/ /\ Len(m) = 0
        /\ result' = Code("param")
     \/ /\ Len(m) >= Radix * Radix
        /\ result' = Code("range")
     \/ /\ 0 < Len(m) /\ Len(m) < Radix * Radix
        /\ FreeSpace < FrameSize(m)
        /\ result' = Code("full")
  /\ UNCHANGED <<ring, queued>>

PushStored(m) ==
  /\ 0 < Len(m) /\ Len(m) < Radix * Radix
  /\ FreeSpace >= FrameSize(m)
  /\ buffer' = [i \in Index |->
       IF Distance(writeIndex, i) < FrameSize(m)
         THEN Frame(m)[Distance(writeIndex, i) + 1]
         ELSE buffer[i]]
  /\ writeIndex' = Advance(writeIndex, FrameSize(m))
  /\ msgCnt' = msgCnt + 1
  /\ result' = Code("ok")
  /\ queued' = Append(queued, [off |-> Distance(readIndex, writeIndex), msg |-> m])
  /\ UNCHANGED readIndex

(* The history after the oldest message is gone and readIndex moved n on.  *)
Removed(n) ==
  [i \in 1 .. Len(queued) - 1 |->
     [off |-> queued[i + 1].off - n, msg |-> queued[i + 1].msg]]

(* lqueue_pop: readInternal with ReadType_PopFront.                        *)
PopEmpty ==
  /\ msgCnt = 0
  /\ result' = Code("empty")
  /\ UNCHANGED <<ring, queued>>

PopTooSmall(bufSize) ==
  /\ msgCnt # 0
  /\ DecodeLength(readIndex).len > bufSize
  /\ result' = Code("read_buffer_sz")
  /\ UNCHANGED <<ring, queued>>

(* The index behind the oldest message.                                    *)
FrontEnd == Advance(DecodeLength(readIndex).start, DecodeLength(readIndex).len)

PopTaken(bufSize) ==
  /\ msgCnt # 0
  /\ DecodeLength(readIndex).len <= bufSize
  /\ result' = Answer("ok", Payload(DecodeLength(readIndex).start, DecodeLength(readIndex).len))
  /\ readIndex' = FrontEnd
  /\ msgCnt' = msgCnt - 1
  /\ queued' = Removed(Distance(readIndex, FrontEnd))
  /\ UNCHANGED <<buffer, writeIndex>>

(* Mutant: the message count is not looked at.                             *)
PopNoreadUnchecked ==
  /\ result' = Code("ok")
  /\ readIndex' = FrontEnd
  /\ msgCnt' = msgCnt - 1
  /\ queued' = Removed(Distance(readIndex, FrontEnd))
  /\ UNCHANGED <<buffer, writeIndex>>

(* lqueue_pop_noread on a queue that holds a message.                      *)
PopNoread ==
  /\ msgCnt # 0
  /\ result' = Code("ok")
  /\ readIndex' = FrontEnd
  /\ msgCnt' = msgCnt - 1
  /\ queued' = Removed(Distance(readIndex, FrontEnd))
  /\ UNCHANGED <<buffer, writeIndex>>

(* lqueue_empty forgets the messages; lqueue_init also zeroes the bytes.   *)
Reset ==
  /\ writeIndex' = 0
  /\ readIndex' = 0
  /\ msgCnt' = 0
  /\ result' = Code("ok")
  /\ queued' = <<>>

Empty == Reset /\ UNCHANGED buffer

ReInit == Reset /\ buffer' = [i \in Index |-> 0]

Next ==
  \/ \E m \in Messages : PushRefused(m) \/ PushStored(m)
  \/ \E n \in BufSizes : PopTooSmall(n) \/ PopTaken(n)
  \/ PopEmpty
  \/ PopNoread
  \/ Empty
  \/ ReInit

Spec == Init /\ [][Next]_vars

-----------------------------------------------------------------------------
(* The calls that only read.                                               *)

(* lqueue_front and lqueue_fsize look at the oldest message.               *)
Front(bufSize) ==
  LET d == DecodeLength(readIndex) IN
  CASE msgCnt = 0      -> Code("empty")
    [] msgCnt # 0 /\ d.len > bufSize  -> Code("read_buffer_sz")
    [] msgCnt # 0 /\ d.len <= bufSize -> Answer("ok", Payload(d.start, d.len))

(* lqueue_back skips every message but the last.  Its wrap compares with > *)
(* where the copy loops compare with >=, so the walk can stop one byte     *)
(* behind the ring.                                                        *)
SkipMessage(i) ==
  LET next == DecodeLength(i).start + DecodeLength(i).len
  IN IF next > BufferLength THEN next - BufferLength ELSE next

BackWalk[k \in Nat] ==
  IF k = 0 THEN readIndex ELSE SkipMessage(BackWalk[k - 1])

(* A header read behind the ring is not the queue's: no answer is right.   *)
Back(bufSize) ==
  LET i == BackWalk[msgCnt - 1]
      d == DecodeLength(i)
  IN CASE msgCnt = 0 -> Code("empty")
       [] msgCnt # 0 /\ i \notin Index -> Code("outside the ring")
       [] msgCnt # 0 /\ i \in Index /\ d.len > bufSize -> Code("read_buffer_sz")
       [] msgCnt # 0 /\ i \in Index /\ d.len <= bufSize -> Answer("ok", Payload(d.start, d.len))

(* lqueue_check_element_exists walks the frames with its own wrap.         *)
NextFrame(i) ==
  (DecodeLength(i).start + DecodeLength(i).len) % BufferLength

FrameWalk[k \in Nat] == IF k = 0 THEN readIndex ELSE NextFrame(FrameWalk[k - 1])

(* Mutant: the last message is not looked at.                              *)
ElementExistsShort(m) ==
  \E k \in 0 .. msgCnt - 2 :
    LET d == DecodeLength(FrameWalk[k])
    IN d.len = Len(m) /\ Payload(d.start, d.len) = m

ElementExists(m) ==
  \E k \in 0 .. msgCnt - 1 :
    LET d == DecodeLength(FrameWalk[k])
    IN d.len = Len(m) /\ Payload(d.start, d.len) = m

-----------------------------------------------------------------------------
(* Properties.                                                             *)

Entry == [off : Index, msg : Messages]

ReturnCode == {"ok", "param", "full", "empty", "read_buffer_sz", "range"}
Results == [code : ReturnCode, msg : Seq(Byte)]

(* Type invariant: the indices stay inside the ring.                       *)
TypeOK ==
  /\ buffer \in [Index -> Byte]
  /\ writeIndex \in Index
  /\ readIndex \in Index
  /\ msgCnt \in Nat
  /\ result \in Results
  /\ queued \in Seq(Entry)

Used == Distance(readIndex, writeIndex)
EntryEnd(i) == queued[i].off + FrameSize(queued[i].msg)

(* The frames of the stored messages follow each other without a gap or an *)
(* overlap from readIndex up to writeIndex, as many as msgCnt says.        *)
FramesInOrder ==
  /\ msgCnt = Len(queued)
  /\ queued = <<>> => Used = 0
  /\ queued # <<>> => queued[1].off = 0 /\ EntryEnd(Len(queued)) = Used
  /\ \A i \in 1 .. Len(queued) - 1 : queued[i + 1].off = EntryEnd(i)
  /\ \A i \in 1 .. Len(queued) : EntryEnd(i) <= Used
  /\ \A i, j \in 1 .. Len(queued) : i < j => EntryEnd(i) <= queued[j].off

(* The bytes of every stored message are in the ring as they were pushed:  *)
(* no later push wrote over a frame that is still to be read.              *)
FramesIntact ==
  \A i \in 1 .. Len(queued) : \A k \in 1 .. FrameSize(queued[i].msg) :
    buffer[Advance(readIndex, queued[i].off + k - 1)] = Frame(queued[i].msg)[k]

(* Only messages that have an encoding are stored.                         *)
StoredSizes ==
  \A i \in 1 .. Len(queued) :
    0 < Len(queued[i].msg) /\ Len(queued[i].msg) < Radix * Radix

RingInv == TypeOK /\ FramesInOrder /\ FramesIntact /\ StoredSizes

(* lqueue_front and lqueue_check_element_exists, which each decode the     *)
(* ring with their own index arithmetic, agree with what is stored.        *)
ReadersAgree ==
  /\ \A n \in BufSizes :
       queued # <<>> /\ Len(queued[1].msg) <= n => Front(n) = Answer("ok", queued[1].msg)
  /\ \A m \in Messages :
       ElementExists(m) <=> \E i \in 1 .. Len(queued) : queued[i].msg = m

(* lqueue.c:530-537 says of lqueue_back that it reads the message at the   *)
(* back of the queue, the last one pushed.                                 *)
BackReadsLast ==
  \A n \in BufSizes :
    queued # <<>> /\ Len(queued[Len(queued)].msg) <= n
      => Back(n) = Answer("ok", queued[Len(queued)].msg)

(* The ring implements the abstract queue of messages: what pop decodes    *)
(* from the bytes is the oldest message pushed, and a push is refused only *)
(* when its frame does not fit in the BufferLength - 1 bytes there are.    *)
Fifo == INSTANCE MsgFifo WITH
  Cost     <- [m \in {x \in Messages : 0 < Len(x) /\ Len(x) < Radix * Radix} |-> FrameSize(m)],
  Capacity <- BufferLength - 1,
  queue    <- [i \in 1 .. Len(queued) |-> queued[i].msg],
  used     <- Used

FifoSpec == Fifo!Spec
=============================================================================
