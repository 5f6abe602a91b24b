----------------------------- MODULE LQueueRace -----------------------------
(***************************************************************************)
(* lqueue_push and lqueue_pop of several tasks, as the loads and stores    *)
(* they are made of.  Both cache the context block, copy the frame and     *)
(* store their index and the message count back.  The macros               *)
(* VLQueue_EnterCritical and VLQueue_ExitCritical are empty; a transport   *)
(* may wrap its calls in portENTER_CRITICAL, which stops every other task. *)
(* All frames have the same size here; LQueue has the lengths.             *)
(***************************************************************************)
EXTENDS Naturals, Sequences, SequencesExt

CONSTANTS
  Pushers, Poppers,   \* the tasks that push and the tasks that pop
  Guarded,            \* which of "push" and "pop" their callers put in a critical section
  BufferLength,       \* bytes of the ring
  FrameCells,         \* bytes of a frame
  MaxMessages         \* bound on the messages pushed

Tasks == Pushers \cup Poppers

ASSUME TasksAssumption == Pushers \cap Poppers = {} /\ "none" \notin Tasks
ASSUME GuardedAssumption == Guarded \subseteq {"push", "pop"}
ASSUME SizesAssumption ==
  /\ FrameCells \in Nat \ {0} /\ BufferLength \in Nat /\ BufferLength > FrameCells
  /\ MaxMessages \in Nat

VARIABLES
  buffer, writeIndex, readIndex, msgCnt,   \* the context block
  inside,     \* the task in a critical section, or "none"
  pc,         \* where each task is in its call
  cached,     \* the local variables of its call
  pushed,     \* history: the frames pushed, in the order of the stores to writeIndex
  popped      \* history: the frames pops handed out

block == <<buffer, writeIndex, readIndex, msgCnt>>
vars == <<block, inside, pc, cached, pushed, popped>>

Index == 0 .. BufferLength - 1
NoByte == <<0, 0>>

Init ==
  /\ buffer = [i \in Index |-> NoByte]
  /\ writeIndex = 0 /\ readIndex = 0 /\ msgCnt = 0
  /\ inside = "none"
  /\ pc = [t \in Tasks |-> "idle"]
  /\ cached = [t \in Tasks |-> [wi |-> 0, ri |-> 0, cnt |-> 0, done |-> 0, frame |-> <<>>]]
  /\ pushed = <<>>
  /\ popped = <<>>

Advance(i) == IF i + 1 >= BufferLength THEN 0 ELSE i + 1

calcFreeSpace(wi, ri) ==
  IF ri > wi THEN ri - wi - 1 ELSE BufferLength - wi + ri - 1

(* Nothing else runs while a task is in a critical section.                *)
MayRun(t, at) == pc[t] = at /\ inside \in {"none", t}

(* Mutant (not the code's, a mistake the properties must notice): no call  *)
(* enters the critical section.                                            *)
EnterNever(t, call) == inside' = inside

Goto(t, to) == pc' = [pc EXCEPT ![t] = to]
Enter(t, call) == inside' = IF call \in Guarded THEN t ELSE inside
Leave(t) == inside' = "none"

(* The number of messages whose push has begun.                            *)
Begun == Len(pushed) + Cardinality({t \in Pushers : pc[t] \in {"check", "write"}})

-----------------------------------------------------------------------------
(* lqueue_push.                                                            *)

PushCache(t) ==
  /\ MayRun(t, "idle")
  /\ Begun < MaxMessages
  /\ Enter(t, "push")
  /\ cached' = [cached EXCEPT ![t] = [wi |-> writeIndex, ri |-> readIndex, cnt |-> 0, done |-> 0,
       frame |-> [k \in 1 .. FrameCells |-> <<Begun + 1, k>>]]]
  /\ Goto(t, "check")
  /\ UNCHANGED <<block, pushed, popped>>

PushFull(t) ==
  /\ MayRun(t, "check")
  /\ calcFreeSpace(cached[t].wi, cached[t].ri) < FrameCells
  /\ Leave(t)
  /\ Goto(t, "idle")
  /\ UNCHANGED <<block, cached, pushed, popped>>

PushFits(t) ==
  /\ MayRun(t, "check")
  /\ calcFreeSpace(cached[t].wi, cached[t].ri) >= FrameCells
  /\ Goto(t, "write")
  /\ UNCHANGED <<block, inside, cached, pushed, popped>>

(* One byte of the header or the message goes into the ring.               *)
PushByte(t) ==
  /\ MayRun(t, "write")
  /\ cached[t].done < FrameCells
  /\ buffer' = [buffer EXCEPT ![cached[t].wi] = cached[t].frame[cached[t].done + 1]]
  /\ cached' = [cached EXCEPT ![t].wi = Advance(@), ![t].done = @ + 1]
  /\ UNCHANGED <<writeIndex, readIndex, msgCnt, inside, pc, pushed, popped>>

PushIndex(t) ==
  /\ MayRun(t, "write")
  /\ cached[t].done = FrameCells
  /\ writeIndex' = cached[t].wi
  /\ pushed' = Append(pushed, cached[t].frame)
  /\ Goto(t, "load")
  /\ UNCHANGED <<buffer, readIndex, msgCnt, inside, cached, popped>>

(* msgCnt++ is a load and a store.                                         *)
PushLoad(t) ==
  /\ MayRun(t, "load")
  /\ cached' = [cached EXCEPT ![t].cnt = msgCnt]
  /\ Goto(t, "store")
  /\ UNCHANGED <<block, inside, pushed, popped>>

PushStore(t) ==
  /\ MayRun(t, "store")
  /\ msgCnt' = cached[t].cnt + 1
  /\ Leave(t)
  /\ Goto(t, "idle")
  /\ UNCHANGED <<buffer, writeIndex, readIndex, cached, pushed, popped>>

-----------------------------------------------------------------------------
(* lqueue_pop.  The frame's length is not modelled: every frame has it.    *)

PopCache(t) ==
  /\ MayRun(t, "idle")
  /\ Enter(t, "pop")
  /\ cached' = [cached EXCEPT ![t] =
       [wi |-> 0, ri |-> readIndex, cnt |-> msgCnt, done |-> 0, frame |-> <<>>]]
  /\ Goto(t, "check")
  /\ UNCHANGED <<block, pushed, popped>>

PopEmpty(t) ==
  /\ MayRun(t, "check")
  /\ cached[t].cnt = 0
  /\ Leave(t)
  /\ Goto(t, "idle")
  /\ UNCHANGED <<block, cached, pushed, popped>>

(* Mutant: an empty queue is popped.                                       *)
PopByteUnchecked(t) ==
  /\ MayRun(t, "check")
  /\ cached[t].done < FrameCells
  /\ cached' = [cached EXCEPT ![t].frame = Append(@, buffer[cached[t].ri]),
                              ![t].ri = Advance(@), ![t].done = @ + 1]
  /\ UNCHANGED <<block, inside, pc, pushed, popped>>

PopByte(t) ==
  /\ MayRun(t, "check")
  /\ cached[t].cnt # 0
  /\ cached[t].done < FrameCells
  /\ cached' = [cached EXCEPT ![t].frame = Append(@, buffer[cached[t].ri]),
                              ![t].ri = Advance(@), ![t].done = @ + 1]
  /\ UNCHANGED <<block, inside, pc, pushed, popped>>

PopIndex(t) ==
  /\ MayRun(t, "check")
  /\ cached[t].done = FrameCells
  /\ readIndex' = cached[t].ri
  /\ Goto(t, "store")
  /\ UNCHANGED <<buffer, writeIndex, msgCnt, inside, cached, pushed, popped>>

PopStore(t) ==
  /\ MayRun(t, "store")
  /\ msgCnt' = cached[t].cnt - 1
  /\ popped' = Append(popped, cached[t].frame)
  /\ Leave(t)
  /\ Goto(t, "idle")
  /\ UNCHANGED <<buffer, writeIndex, readIndex, cached, pushed>>

PushStep(t) ==
  PushCache(t) \/ PushFull(t) \/ PushFits(t) \/ PushByte(t) \/ PushIndex(t)
    \/ PushLoad(t) \/ PushStore(t)

PopStep(t) == PopCache(t) \/ PopEmpty(t) \/ PopByte(t) \/ PopIndex(t) \/ PopStore(t)

Next ==
  \/ \E t \in Pushers : PushStep(t)
  \/ \E t \in Poppers : PopStep(t)

Spec == Init /\ [][Next]_vars

-----------------------------------------------------------------------------
(* Properties.                                                             *)

Used == BufferLength - 1 - calcFreeSpace(writeIndex, readIndex)

(* lqueue.c:8-11 says that when one task queues and one dequeues no        *)
(* critical section is needed: with no call under way, the message count   *)
(* is the number of frames between the indices.                            *)
FramesCounted ==
  (\A t \in Tasks : pc[t] = "idle") => msgCnt * FrameCells = Used

(* What pops hand out is what was pushed, whole, in order and once.        *)
PopsInOrder == IsPrefix(popped, pushed)

TypeOK ==
  /\ buffer \in [Index -> {NoByte} \cup ((1 .. MaxMessages) \X (1 .. FrameCells))]
  /\ writeIndex \in Index /\ readIndex \in Index
  /\ msgCnt \in Nat
  /\ inside \in Tasks \cup {"none"}
  /\ pc \in [Tasks -> {"idle", "check", "write", "load", "store"}]
=============================================================================
