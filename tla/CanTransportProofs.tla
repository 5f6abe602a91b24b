------------------------- MODULE CanTransportProofs -------------------------
(***************************************************************************)
(* CanTransport never loses a wake-up or the track of a frame, whatever    *)
(* the number of senders and the sizes of the queues, FIFOs and mailboxes. *)
(*                                                                         *)
(* The invariants of MCCanTransport are inductive once it is added that    *)
(* the task keeps its frame while it waits for the controller to restart.  *)
(***************************************************************************)
EXTENDS CanTransport, FiniteSetTheorems, TLAPS

HeldInDelay == step = "delay" => held # NoFrame

IInv ==
  TypeOK /\ HeldInDelay /\ RxWakeupPending /\ TxWakeupPending /\ TxAccounted /\ RxLag

-----------------------------------------------------------------------------
LEMMA Sizes ==
  /\ QueueRoom \in Nat /\ QueueRoom > 0
  /\ Mailboxes \in Nat /\ Mailboxes > 0
  /\ FifoDepth \in Nat /\ FifoDepth > 0
  /\ MaxTx \in Nat /\ MaxRx \in Nat /\ MaxErrors \in Nat
BY SizesAssumption

(* Every set of transmit frames, so every content of the mailboxes, is finite. *)
LEMMA FramesFinite ==
  ASSUME NEW S \in SUBSET TxFrames
  PROVE  IsFiniteSet(S) /\ Cardinality(S) \in Nat
<1>1. IsFiniteSet(TxFrames)
  BY Sizes, FS_Interval DEF TxFrames
<1>. QED BY <1>1, FS_Subset, FS_CardinalityType

(* Putting a frame in a free mailbox and emptying one or all of them keeps *)
(* their number.                                                           *)
LEMMA MailboxesBounded ==
  ASSUME TypeOK
  PROVE  /\ \A f \in TxFrames : Cardinality(mailbox) < Mailboxes =>
                                  Cardinality(mailbox \cup {f}) <= Mailboxes
         /\ \A f : Cardinality(mailbox \ {f}) <= Mailboxes
         /\ Cardinality({}) <= Mailboxes
<1>1. IsFiniteSet(mailbox) /\ Cardinality(mailbox) \in Nat /\ Cardinality(mailbox) <= Mailboxes
  BY FramesFinite DEF TypeOK
<1>2. Mailboxes \in Nat
  BY Sizes
<1>3. ASSUME NEW f \in TxFrames, Cardinality(mailbox) < Mailboxes
      PROVE  Cardinality(mailbox \cup {f}) <= Mailboxes
  BY <1>1, <1>2, <1>3, FS_AddElement
<1>4. ASSUME NEW f PROVE Cardinality(mailbox \ {f}) <= Mailboxes
  BY <1>1, <1>2, FS_RemoveElement
<1>5. Cardinality({}) <= Mailboxes
  BY <1>2, FS_EmptySet
<1>. QED BY <1>3, <1>4, <1>5

(* What is left of a sequence without its head.                            *)
LEMMA Behead ==
  ASSUME NEW S, NEW q \in Seq(S), q # <<>>
  PROVE  /\ Len(q) \in Nat /\ Len(q) > 0
         /\ Head(q) = q[1] /\ Head(q) \in S
         /\ Tail(q) \in Seq(S) /\ Len(Tail(q)) = Len(q) - 1
         /\ \A i \in 1 .. Len(q) - 1 : Tail(q)[i] = q[i + 1]
OBVIOUS

(* The four event bits are different numbers.                              *)
LEMMA EventBits ==
  /\ Fifos = {0, 1}
  /\ FifoEvent(0) = 8 /\ FifoEvent(1) = 16
  /\ Events = {1, 2, 8, 16}
BY DEF Fifos, FifoEvent, Events, TxRequest, TxConfirm

-----------------------------------------------------------------------------
(* The initial states satisfy the invariant.                               *)
LEMMA InitHolds == Init => IInv
<1> SUFFICES ASSUME Init PROVE IInv
  OBVIOUS
<1>1. TypeOK
  <2>1. Cardinality(mailbox) <= Mailboxes
    BY Sizes, FS_EmptySet DEF Init
  <2>2. fifo \in [Fifos -> Seq(RxFrames)] /\ \A x \in Fifos : Len(fifo[x]) <= FifoDepth
    BY Sizes DEF Init
  <2>3. txQueue \in Seq(TxFrames) /\ rxQueue \in Seq(RxFrames)
    BY DEF Init
  <2>4. Len(txQueue) <= QueueRoom /\ Len(rxQueue) <= QueueRoom /\ accepted \in 0 .. MaxTx
    BY Sizes DEF Init
  <2>5. sender \in [Senders -> {"idle", "notify"}] /\ armed \in [Fifos -> BOOLEAN]
    BY DEF Init
  <2>6. busError \in BOOLEAN /\ registered \in BOOLEAN
    BY DEF Init
  <2>. QED BY <2>1, <2>2, <2>3, <2>4, <2>5, <2>6 DEF Init, TypeOK
<1>2. HeldInDelay /\ RxWakeupPending /\ TxWakeupPending /\ RxLag
  BY DEF Init, HeldInDelay, RxWakeupPending, TxWakeupPending, RxLag
<1>3. TxAccounted
  BY DEF Init, TxAccounted, Gone, NoFrame
<1>. QED BY <1>1, <1>2, <1>3 DEF IInv

(* Stuttering.                                                             *)
LEMMA StutterHolds == IInv /\ UNCHANGED vars => IInv'
BY DEF IInv, TypeOK, HeldInDelay, RxWakeupPending, TxWakeupPending, TxAccounted, RxLag,
       Under, Gone, vars, tx, rx, bus, task

-----------------------------------------------------------------------------
(* The actions of the senders and of the transmit side.                    *)
LEMMA SendPushHolds ==
  ASSUME IInv, NEW s \in Senders, SendPush(s)
  PROVE  IInv'
<1> USE DEF IInv, SendPush, rx, bus, task
<1>1. TypeOK'
  <2>1. accepted + 1 \in TxFrames /\ accepted' \in 0 .. MaxTx
    BY Sizes DEF TypeOK, TxFrames
  <2>2. txQueue' \in Seq(TxFrames) /\ Len(txQueue') <= QueueRoom
    BY <2>1, Sizes DEF TypeOK
  <2>. QED BY <2>1, <2>2 DEF TypeOK
<1>2. (HeldInDelay /\ RxWakeupPending /\ RxLag)'
  BY DEF HeldInDelay, RxWakeupPending, Under, RxLag
<1>3. TxWakeupPending'
  BY DEF TypeOK, TxWakeupPending
<1>4. TxAccounted'
  <2>1. Len(txQueue') = Len(txQueue) + 1 /\ Gone' = Gone
    BY Sizes DEF TypeOK, Gone
  <2>2. ASSUME NEW i \in 1 .. Len(txQueue')
        PROVE  txQueue'[i] = accepted' - Len(txQueue') + i
    BY <2>1, Sizes DEF TypeOK, TxAccounted
  <2>. QED BY <2>1, <2>2 DEF TxAccounted
<1>. QED BY <1>1, <1>2, <1>3, <1>4

LEMMA SendNotifyHolds ==
  ASSUME IInv, NEW s \in Senders, SendNotify(s)
  PROVE  IInv'
<1> USE DEF IInv, SendNotify, rx, bus
<1>1. TypeOK'
  BY EventBits DEF TypeOK, TxRequest
<1>2. (HeldInDelay /\ RxWakeupPending /\ RxLag)'
  BY DEF HeldInDelay, RxWakeupPending, Under, RxLag
<1>3. (TxWakeupPending /\ TxAccounted)'
  BY DEF TxWakeupPending, Under, TxAccounted, Gone
<1>. QED BY <1>1, <1>2, <1>3

LEMMA TxCompleteHolds ==
  ASSUME IInv, NEW f \in TxFrames, TxComplete(f)
  PROVE  IInv'
<1> USE DEF IInv, TxComplete, rx, bus
<1>1. Cardinality(mailbox') <= Mailboxes
  BY MailboxesBounded
<1>2. TypeOK'
  BY <1>1, EventBits DEF TypeOK, TxConfirm
<1>3. (HeldInDelay /\ RxWakeupPending /\ RxLag)'
  BY DEF HeldInDelay, RxWakeupPending, Under, RxLag
<1>4. (TxWakeupPending /\ TxAccounted)'
  BY DEF TxWakeupPending, Under, TxAccounted, Gone
<1>. QED BY <1>2, <1>3, <1>4

-----------------------------------------------------------------------------
(* The actions of the controller, of its interrupts and of the start-up.   *)
LEMMA ArriveHolds ==
  ASSUME IInv, NEW x \in Fifos, NEW frame \in RxFrames, Arrive(x, frame)
  PROVE  IInv'
<1> USE DEF IInv, Arrive, tx, bus, task
<1>1. fifo' \in [Fifos -> Seq(RxFrames)] /\ \A y \in Fifos : Len(fifo'[y]) <= FifoDepth
  <2>1. \A q \in Seq(RxFrames) : /\ Append(q, frame) \in Seq(RxFrames)
                                 /\ Len(Append(q, frame)) = Len(q) + 1 /\ Len(q) \in Nat
    OBVIOUS
  <2>. QED BY <2>1, Sizes DEF TypeOK
<1>2. TypeOK'
  BY <1>1 DEF TypeOK
<1>3. (HeldInDelay /\ RxWakeupPending /\ RxLag)'
  BY DEF HeldInDelay, RxWakeupPending, Under, RxLag
<1>4. (TxWakeupPending /\ TxAccounted)'
  BY DEF TxWakeupPending, Under, TxAccounted, Gone
<1>. QED BY <1>2, <1>3, <1>4

LEMMA RxPendingHolds ==
  ASSUME IInv, NEW x \in Fifos, RxPending(x)
  PROVE  IInv'
<1> USE DEF IInv, RxPending, tx, rx, bus
<1>1. TypeOK'
  BY EventBits DEF TypeOK
<1>2. (HeldInDelay /\ RxLag)'
  BY DEF HeldInDelay, RxLag
<1>3. RxWakeupPending'
  BY DEF TypeOK, RxWakeupPending, Under
<1>4. (TxWakeupPending /\ TxAccounted)'
  BY DEF TxWakeupPending, Under, TxAccounted, Gone
<1>. QED BY <1>1, <1>2, <1>3, <1>4

LEMMA OutsideHolds ==
  ASSUME IInv, BusFails \/ Register
  PROVE  IInv'
<1> USE DEF IInv, BusFails, Register, tx, rx, bus, task
<1>1. errors' \in Nat /\ busError' \in BOOLEAN /\ registered' \in BOOLEAN
  <2>1. CASE BusFails
    BY <2>1 DEF TypeOK
  <2>2. CASE Register
    BY <2>2 DEF TypeOK
  <2>. QED BY <2>1, <2>2
<1>2. TypeOK'
  BY <1>1 DEF TypeOK
<1>3. (HeldInDelay /\ RxWakeupPending /\ RxLag)'
  BY DEF HeldInDelay, RxWakeupPending, Under, RxLag
<1>4. (TxWakeupPending /\ TxAccounted)'
  BY DEF TxWakeupPending, Under, TxAccounted, Gone
<1>. QED BY <1>2, <1>3, <1>4

-----------------------------------------------------------------------------
(* The task takes its events: none of them is lost on the way.             *)
LEMMA WakeHolds ==
  ASSUME IInv, Wake
  PROVE  IInv'
<1> USE DEF IInv, Wake, tx, rx, bus
<1>1. TypeOK'
  BY DEF TypeOK
<1>2. (HeldInDelay /\ RxWakeupPending /\ RxLag)'
  BY DEF HeldInDelay, RxWakeupPending, Under, RxLag
<1>3. (TxWakeupPending /\ TxAccounted)'
  BY DEF TxWakeupPending, Under, TxAccounted, Gone
<1>. QED BY <1>1, <1>2, <1>3

(* request2send.                                                           *)
LEMMA TxPopHolds ==
  ASSUME IInv, TxPop
  PROVE  IInv'
<1> USE DEF IInv, TxPop, rx, bus, task
<1>1. /\ Head(txQueue) \in TxFrames /\ Head(txQueue) # NoFrame /\ Head(txQueue) = txQueue[1]
      /\ Tail(txQueue) \in Seq(TxFrames) /\ Len(Tail(txQueue)) = Len(txQueue) - 1
      /\ \A i \in 1 .. Len(Tail(txQueue)) : Tail(txQueue)[i] = txQueue[i + 1]
      /\ Len(txQueue) \in Nat /\ Len(txQueue) > 0
  <2>1. txQueue \in Seq(TxFrames) /\ txQueue # <<>>
    BY DEF TypeOK
  <2>2. NoFrame \notin TxFrames
    BY Sizes DEF TxFrames, NoFrame
  <2>. QED BY <2>1, <2>2, Behead
<1>2. TypeOK'
  BY <1>1, Sizes DEF TypeOK
<1>3. (HeldInDelay /\ RxWakeupPending /\ RxLag)'
  BY <1>1 DEF HeldInDelay, RxWakeupPending, Under, RxLag
<1>4. TxWakeupPending'
  BY DEF TxWakeupPending, Under
<1>5. TxAccounted'
  <2>1. accepted \in Nat
    BY Sizes DEF TypeOK
  <2>2. Gone' = Gone /\ held' = Gone + 1
    BY <1>1, <2>1 DEF TxAccounted, Gone
  <2>3. ASSUME NEW i \in 1 .. Len(txQueue')
        PROVE  txQueue'[i] = accepted' - Len(txQueue') + i
    BY <1>1, <2>1 DEF TxAccounted
  <2>. QED BY <2>2, <2>3 DEF TxAccounted
<1>. QED BY <1>2, <1>3, <1>4, <1>5

(* Only an event of the transmit side ends in TxDone.                      *)
LEMMA TxDoneHolds ==
  ASSUME IInv, TxDone
  PROVE  IInv'
<1> USE DEF IInv, TxDone, tx, rx, bus
<1>1. TypeOK'
  BY DEF TypeOK
<1>2. \A e \in todo : e \in {8, 16} => e \in todo'
  BY EventBits DEF TypeOK, Sending, First, TxRequest, TxConfirm
<1>3. RxWakeupPending'
  BY <1>2, EventBits DEF RxWakeupPending, Under
<1>4. (HeldInDelay /\ RxLag)'
  BY DEF HeldInDelay, RxLag
<1>5. (TxWakeupPending /\ TxAccounted)'
  BY DEF TxWakeupPending, TxAccounted, Gone
<1>. QED BY <1>1, <1>3, <1>4, <1>5

(* However send_message ends, the frame it held is the next one gone.      *)
LEMMA FrameGone ==
  ASSUME TypeOK, TxAccounted, held # NoFrame, held' = NoFrame, txQueue' = txQueue,
         accepted' = accepted, (mailed \cup dropped)' = mailed \cup dropped \cup {held},
         (mailed \cap dropped)' = mailed \cap dropped
  PROVE  TxAccounted'
<1>1. accepted \in Nat /\ Len(txQueue) \in Nat
  BY Sizes DEF TypeOK
<1>2. Gone \in Int /\ Gone' = Gone + 1 /\ held = Gone + 1
  BY <1>1 DEF TxAccounted, Gone
<1>3. held \in Nat \ {0}
  BY Sizes DEF TypeOK, TxFrames, NoFrame
<1>4. 1 .. Gone' = (1 .. Gone) \cup {held}
  BY <1>2, <1>3
<1>. QED BY <1>2, <1>4 DEF TxAccounted

LEMMA TxMailHolds ==
  ASSUME IInv, TxMail
  PROVE  IInv'
<1> USE DEF IInv, TxMail, Forget, rx, bus, task
<1>1. held \in TxFrames /\ held \notin dropped
  <2>1. held \notin 1 .. Gone
    BY Sizes DEF TypeOK, TxAccounted, Gone
  <2>. QED BY <2>1 DEF TypeOK, TxAccounted
<1>2. Cardinality(mailbox') <= Mailboxes
  BY <1>1, MailboxesBounded
<1>3. TypeOK'
  BY <1>1, <1>2 DEF TypeOK
<1>4. TxAccounted'
  BY <1>1, FrameGone
<1>5. (HeldInDelay /\ RxWakeupPending /\ TxWakeupPending /\ RxLag)'
  BY DEF HeldInDelay, RxWakeupPending, TxWakeupPending, Under, RxLag
<1>. QED BY <1>3, <1>4, <1>5

LEMMA TxNoMailboxHolds ==
  ASSUME IInv, TxNoMailbox
  PROVE  IInv'
<1> USE DEF IInv, TxNoMailbox, Forget, rx, bus, task
<1>1. held \in TxFrames /\ held \notin mailed
  <2>1. held \notin 1 .. Gone
    BY Sizes DEF TypeOK, TxAccounted, Gone
  <2>. QED BY <2>1 DEF TypeOK, TxAccounted
<1>2. TypeOK'
  BY <1>1 DEF TypeOK
<1>3. TxAccounted'
  BY <1>1, FrameGone
<1>4. (HeldInDelay /\ RxWakeupPending /\ TxWakeupPending /\ RxLag)'
  BY DEF HeldInDelay, RxWakeupPending, TxWakeupPending, Under, RxLag
<1>. QED BY <1>2, <1>3, <1>4

LEMMA TxResetErrorHolds ==
  ASSUME IInv, TxResetError
  PROVE  IInv'
<1> USE DEF IInv, TxResetError, tx, rx
<1>1. TypeOK'
  BY DEF TypeOK
<1>2. (HeldInDelay /\ RxWakeupPending /\ TxWakeupPending /\ RxLag)'
  BY DEF HeldInDelay, RxWakeupPending, TxWakeupPending, Under, RxLag
<1>3. TxAccounted'
  BY DEF TxAccounted, Gone
<1>. QED BY <1>1, <1>2, <1>3

LEMMA TxRestartHolds ==
  ASSUME IInv, NEW started \in BOOLEAN, TxRestart(started)
  PROVE  IInv'
<1> USE DEF IInv, TxRestart, Forget, rx, bus, HeldInDelay
<1>1. held \in TxFrames /\ held \notin mailed
  <2>1. held \notin 1 .. Gone
    BY Sizes DEF TypeOK, TxAccounted, Gone
  <2>. QED BY <2>1 DEF TypeOK, TxAccounted
<1>2. mailbox' \subseteq TxFrames /\ Cardinality(mailbox') <= Mailboxes
  BY MailboxesBounded DEF TypeOK
<1>3. busError' \in BOOLEAN /\ armed' \in [Fifos -> BOOLEAN]
  BY DEF TypeOK
<1>4. TypeOK'
  BY <1>1, <1>2, <1>3 DEF TypeOK
<1>5. TxAccounted'
  BY <1>1, FrameGone
<1>6. (HeldInDelay /\ TxWakeupPending /\ RxLag)'
  BY DEF TxWakeupPending, Under, RxLag
<1>7. RxWakeupPending'
  BY DEF RxWakeupPending, Under
<1>. QED BY <1>4, <1>5, <1>6, <1>7

-----------------------------------------------------------------------------
(* process_rx_fifo.                                                        *)
LEMMA RxReadHolds ==
  ASSUME IInv, NEW x \in Fifos, RxRead(x)
  PROVE  IInv'
<1> USE DEF IInv, RxRead, tx, bus
<1>1. \A q \in Seq(RxFrames) : q # <<>> =>
        Tail(q) \in Seq(RxFrames) /\ Len(Tail(q)) = Len(q) - 1 /\ Len(q) \in Nat
  OBVIOUS
<1>2. fifo' \in [Fifos -> Seq(RxFrames)] /\ \A y \in Fifos : Len(fifo'[y]) <= FifoDepth
  BY <1>1, Sizes DEF TypeOK
<1>3. \A q \in Seq(RxFrames), frame \in RxFrames :
        /\ Append(q, frame) \in Seq(RxFrames)
        /\ Len(Append(q, frame)) = Len(q) + 1 /\ Len(q) \in Nat
  OBVIOUS
<1>4. rxQueue' \in Seq(RxFrames) /\ Len(rxQueue') <= QueueRoom
  <2>1. rxQueue \in Seq(RxFrames) /\ Len(rxQueue) <= QueueRoom
    BY DEF TypeOK
  <2>2. fifo[x] \in Seq(RxFrames) /\ fifo[x] # <<>>
    BY DEF TypeOK
  <2>3. Head(fifo[x]) \in RxFrames
    BY <2>2, Behead
  <2>4. \/ rxQueue' = rxQueue
        \/ Len(rxQueue) < QueueRoom /\ rxQueue' = Append(rxQueue, Head(fifo[x]))
    OBVIOUS
  <2>. QED BY <1>3, <2>1, <2>3, <2>4, Sizes
<1>5. early' \in Nat /\ step' \in {"loop", "confirm"}
  BY DEF TypeOK
<1>6. TypeOK'
  BY <1>2, <1>4, <1>5 DEF TypeOK
<1>7. RxLag'
  BY <1>3 DEF TypeOK, RxLag
<1>8. (HeldInDelay /\ RxWakeupPending /\ TxWakeupPending)'
  BY <1>5 DEF HeldInDelay, RxWakeupPending, TxWakeupPending, Under
<1>9. TxAccounted'
  BY DEF TxAccounted, Gone
<1>. QED BY <1>6, <1>7, <1>8, <1>9

LEMMA RxConfirmHolds ==
  ASSUME IInv, RxConfirm
  PROVE  IInv'
<1> USE DEF IInv, RxConfirm, tx, bus
<1>1. /\ Tail(rxQueue) \in Seq(RxFrames) /\ Len(Tail(rxQueue)) = Len(rxQueue) - 1
      /\ Len(rxQueue) \in Nat
  <2>1. rxQueue \in Seq(RxFrames) /\ rxQueue # <<>>
    BY DEF TypeOK
  <2>. QED BY <2>1, Behead
<1>2. TypeOK'
  BY <1>1, Sizes DEF TypeOK
<1>3. RxLag'
  BY <1>1 DEF TypeOK, RxLag
<1>4. (HeldInDelay /\ RxWakeupPending /\ TxWakeupPending /\ TxAccounted)'
  BY DEF HeldInDelay, RxWakeupPending, TxWakeupPending, Under, TxAccounted, Gone
<1>. QED BY <1>2, <1>3, <1>4

LEMMA RxDrainedHolds ==
  ASSUME IInv, NEW x \in Fifos, RxDrained(x)
  PROVE  IInv'
<1> USE DEF IInv, RxDrained, tx, rx, bus
<1>1. TypeOK'
  BY DEF TypeOK
<1>2. (HeldInDelay /\ RxWakeupPending /\ TxWakeupPending /\ TxAccounted /\ RxLag)'
  BY DEF HeldInDelay, RxWakeupPending, TxWakeupPending, Under, TxAccounted, Gone, RxLag
<1>. QED BY <1>1, <1>2

(* The event is finished and the interrupt active again in the same step.  *)
LEMMA RxRearmHolds ==
  ASSUME IInv, NEW x \in Fifos, RxRearm(x)
  PROVE  IInv'
<1> USE DEF IInv, RxRearm, tx, rx, bus
<1>1. TypeOK'
  BY DEF TypeOK
<1>2. RxWakeupPending'
  BY EventBits DEF TypeOK, RxWakeupPending, Under
<1>3. TxWakeupPending'
  BY EventBits DEF TxWakeupPending, Under, TxRequest
<1>4. (HeldInDelay /\ TxAccounted /\ RxLag)'
  BY DEF HeldInDelay, TxAccounted, Gone, RxLag
<1>. QED BY <1>1, <1>2, <1>3, <1>4

-----------------------------------------------------------------------------
(* Every step of the system keeps the invariant.                           *)
LEMMA StepHolds == IInv /\ [Next]_vars => IInv'
<1> SUFFICES ASSUME IInv, [Next]_vars PROVE IInv'
  OBVIOUS
<1>1. CASE TaskStep
  BY <1>1, WakeHolds, TxPopHolds, TxDoneHolds, TxMailHolds, TxNoMailboxHolds, TxResetErrorHolds,
     RxConfirmHolds, TxRestartHolds, RxReadHolds, RxDrainedHolds, RxRearmHolds DEF TaskStep
<1>2. CASE \E s \in Senders : SendPush(s) \/ SendNotify(s)
  BY <1>2, SendPushHolds, SendNotifyHolds
<1>3. CASE \E x \in Fifos : RxPending(x) \/ \E frame \in RxFrames : Arrive(x, frame)
  BY <1>3, RxPendingHolds, ArriveHolds
<1>4. CASE \E f \in TxFrames : TxComplete(f)
  BY <1>4, TxCompleteHolds
<1>5. CASE BusFails \/ Register
  BY <1>5, OutsideHolds
<1>6. CASE UNCHANGED vars
  BY <1>6, StutterHolds
<1>. QED BY <1>1, <1>2, <1>3, <1>4, <1>5, <1>6 DEF Next

LEMMA IInvAlways == Spec => []IInv
  BY InitHolds, StepHolds, PTL DEF Spec

(* Each receive FIFO has its interrupt active or an event under way: the   *)
(* callback switches the interrupt off, the task on again after it saw the *)
(* FIFO empty, and a frame that arrives in between is not forgotten.       *)
THEOREM NoWakeupLost == Spec => []RxWakeupPending
<1>1. IInv => RxWakeupPending BY DEF IInv
<1> QED BY <1>1, IInvAlways, PTL

(* A frame that send_can_msg has queued has a notification behind it, its  *)
(* sender's to come or one request2send has not finished with.             *)
THEOREM NoSendForgotten == Spec => []TxWakeupPending
<1>1. IInv => TxWakeupPending BY DEF IInv
<1> QED BY <1>1, IInvAlways, PTL

(* The frames leave in the order send_can_msg accepted them, each once, to *)
(* a mailbox or dropped, whatever the bus and the restarts do.             *)
THEOREM EveryFrameAccounted == Spec => []TxAccounted
<1>1. IInv => TxAccounted BY DEF IInv
<1> QED BY <1>1, IInvAlways, PTL

(* The receive queue lags by exactly the frames that came before the       *)
(* session manager registered, so recv_can_msg never finds it empty.       *)
THEOREM ReceiveQueueLags == Spec => []RxLag
<1>1. IInv => RxLag BY DEF IInv
<1> QED BY <1>1, IInvAlways, PTL

(* No queue, FIFO or set of mailboxes holds more than it has room for.     *)
THEOREM RoomKept == Spec => []TypeOK
<1>1. IInv => TypeOK BY DEF IInv
<1> QED BY <1>1, IInvAlways, PTL
=============================================================================
