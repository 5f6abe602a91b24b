---------------------------- MODULE CanTpProofs ----------------------------
(***************************************************************************)
(* For queues of any size and any number of frames, the transport of the   *)
(* ChibiOS build loses no frame: what stays behind is what its pops and    *)
(* its merged events leave.                                                *)
(***************************************************************************)
EXTENDS CanTp, TLAPS

(* The strengthening: where the task is in request2send, the count it has  *)
(* loaded and the frame it has in hand.                                    *)
InSend ==
  /\ step # "loop" => Sending
  /\ held # NoFrame <=> step \in {"count", "transmit"}
  /\ Popping => 1 <= cached /\ cached <= txCount

IInv == TypeOK /\ Accounted /\ InSend

USE SizesAssumption

LEMMA InitHolds == Init => IInv
<1> SUFFICES ASSUME Init PROVE IInv OBVIOUS
<1>1. TypeOK
  <2>1. txQueue \in Seq(TxFrames) /\ Len(txQueue) = 0 BY DEF Init
  <2>2. accepted \in 0 .. MaxTx /\ rxFrames \in 0 .. QueueRoom BY DEF Init
  <2>3. {transmitted, overwritten, received, merged, unheard} \subseteq Nat BY DEF Init
  <2>4. Len(txQueue) <= QueueRoom BY <2>1
  <2>5. txCount \in Nat /\ cached \in Nat BY DEF Init
  <2>6. /\ held \in TxFrames \cup {NoFrame} /\ driver \in {"idle", "signal"}
        /\ events \subseteq Events /\ todo \subseteq Events
        /\ step \in {"loop", "pop", "count", "transmit"} /\ registered \in BOOLEAN
    BY DEF Init
  <2> QED BY <2>1, <2>2, <2>3, <2>4, <2>5, <2>6 DEF TypeOK
<1>2. TxInOrder BY DEF Init, TxInOrder, Count1
<1>3. TxCounted BY DEF Init, TxCounted, Count1, Popping
<1>4. RxCounted BY DEF Init, RxCounted, Count1
<1>5. InSend BY DEF Init, InSend, Popping
<1> QED BY <1>1, <1>2, <1>3, <1>4, <1>5 DEF IInv, Accounted

LEMMA SendHolds == ASSUME IInv, Send PROVE IInv'
<1>1. TypeOK /\ TxInOrder /\ TxCounted /\ RxCounted /\ InSend BY DEF IInv, Accounted
<1>n. /\ txCount \in Nat /\ cached \in Nat /\ rxFrames \in Nat
      /\ accepted \in Nat /\ transmitted \in Nat /\ overwritten \in Nat
      /\ received \in Nat /\ merged \in Nat /\ unheard \in Nat
      /\ Len(txQueue) \in Nat
  BY <1>1 DEF TypeOK
<1>2. /\ Len(txQueue') = Len(txQueue) + 1
      /\ \A i \in 1 .. Len(txQueue) : txQueue'[i] = txQueue[i]
      /\ txQueue'[Len(txQueue) + 1] = accepted + 1
  BY <1>1 DEF Send, TypeOK
<1>a. /\ txCount' = txCount + 1 /\ accepted' = accepted + 1
      /\ UNCHANGED <<held, transmitted, overwritten, step, cached, todo>>
  BY DEF Send
<1>3. TypeOK'
  <2>1. accepted + 1 \in TxFrames BY <1>1 DEF Send, TypeOK, TxFrames
  <2>2. txQueue' \in Seq(TxFrames) /\ Len(txQueue') <= QueueRoom
    BY <1>1, <1>2, <2>1, <1>n DEF Send, TypeOK
  <2>3. accepted' \in 0 .. MaxTx BY <2>1 DEF Send, TxFrames
  <2>4. txCount' \in Nat BY <1>1, <1>n DEF Send
  <2>5. events' \subseteq Events BY <1>1 DEF Send, TypeOK, Events
  <2> QED BY <1>1, <2>2, <2>3, <2>4, <2>5 DEF Send, rx, TypeOK
<1>4. TxInOrder'
  <2>1. Count1(held # NoFrame) \in {0, 1} BY DEF Count1
  <2>a. Count1(held # NoFrame)' = Count1(held # NoFrame) BY <1>a DEF Count1
  <2>b. transmitted + Count1(held # NoFrame) + Len(txQueue) = accepted
    BY <1>1 DEF TxInOrder
  <2>2. (transmitted + Count1(held # NoFrame) + Len(txQueue) = accepted)'
    BY <1>1, <1>2, <1>a, <2>1, <2>a, <2>b, <1>n
  <2>3. (\A i \in 1 .. Len(txQueue) : txQueue[i] = accepted - Len(txQueue) + i)'
    <3> SUFFICES ASSUME NEW i \in 1 .. Len(txQueue')
                 PROVE  txQueue'[i] = accepted' - Len(txQueue') + i
      OBVIOUS
    <3>1. accepted' - Len(txQueue') = accepted - Len(txQueue) BY <1>1, <1>2, <1>a, <1>n
    <3>2. CASE i = Len(txQueue) + 1 BY <1>1, <1>2, <1>a, <3>1, <3>2, <1>n
    <3>3. CASE i \in 1 .. Len(txQueue)
      <4>1. txQueue[i] = accepted - Len(txQueue) + i BY <1>1, <3>3 DEF TxInOrder
      <4> QED BY <1>2, <3>1, <3>3, <4>1
    <3> QED BY <1>1, <1>2, <3>2, <3>3, <1>n
  <2> QED BY <1>1, <1>a, <2>2, <2>3 DEF TxInOrder
<1>5. TxCounted'
  <2>1. Count1(step = "count") \in {0, 1} BY DEF Count1
  <2>a. Count1(step = "count")' = Count1(step = "count") BY <1>a DEF Count1
  <2>b. Len(txQueue) + Count1(step = "count") = txCount + overwritten
    BY <1>1 DEF TxCounted
  <2>2. (Len(txQueue) + Count1(step = "count") = txCount + overwritten)'
    BY <1>1, <1>2, <1>a, <2>1, <2>a, <2>b, <1>n
  <2> QED BY <2>2 DEF Send, TxCounted, Under
<1>6. RxCounted'
  <2>1. RxCompleted \in events' <=> RxCompleted \in events
    BY DEF Send, RxCompleted, TxRequest
  <2> QED BY <1>1, <2>1 DEF Send, rx, RxCounted, Count1
<1>7. InSend' BY <1>1, <1>n DEF Send, InSend, Popping, Sending
<1> QED BY <1>3, <1>4, <1>5, <1>6, <1>7 DEF IInv, Accounted

LEMMA ReceiveHolds == ASSUME IInv, Receive PROVE IInv'
<1>1. TypeOK /\ TxInOrder /\ TxCounted /\ RxCounted /\ InSend BY DEF IInv, Accounted
<1>n. /\ txCount \in Nat /\ cached \in Nat /\ rxFrames \in Nat
      /\ accepted \in Nat /\ transmitted \in Nat /\ overwritten \in Nat
      /\ received \in Nat /\ merged \in Nat /\ unheard \in Nat
      /\ Len(txQueue) \in Nat
  BY <1>1 DEF TypeOK
<1>2. TypeOK'
  <2>1. rxFrames' \in 0 .. QueueRoom /\ received' \in Nat
    BY <1>1, <1>n DEF Receive, TypeOK
  <2> QED BY <1>1, <2>1 DEF Receive, tx, TypeOK
<1>3. (TxInOrder /\ TxCounted /\ InSend)'
  BY <1>1 DEF Receive, tx, TxInOrder, TxCounted, InSend, Count1, Popping, Sending, Under
<1>4. RxCounted'
  <2>1. rxFrames = merged + unheard + Count1(RxCompleted \in events)
                     + Count1(RxCompleted \in todo) + 0
    BY <1>1 DEF Receive, RxCounted, Count1
  <2>2. /\ Count1(RxCompleted \in events)' = Count1(RxCompleted \in events)
        /\ Count1(RxCompleted \in todo)' = Count1(RxCompleted \in todo)
        /\ Count1(driver = "signal")' = 1
    BY DEF Receive, Count1
  <2>3. Count1(RxCompleted \in events) \in {0, 1} /\ Count1(RxCompleted \in todo) \in {0, 1}
    BY DEF Count1
  <2>4. rxFrames' = rxFrames + 1 /\ UNCHANGED <<merged, unheard>> BY DEF Receive
  <2>5. rxFrames' = merged' + unheard' + Count1(RxCompleted \in events)
                      + Count1(RxCompleted \in todo) + 1
    BY <1>1, <2>1, <2>3, <2>4, <1>n
  <2> QED BY <2>2, <2>5 DEF RxCounted
<1> QED BY <1>2, <1>3, <1>4 DEF IInv, Accounted

LEMMA ReceiveSignalHolds == ASSUME IInv, ReceiveSignal PROVE IInv'
<1>1. TypeOK /\ TxInOrder /\ TxCounted /\ RxCounted /\ InSend BY DEF IInv, Accounted
<1>n. /\ txCount \in Nat /\ cached \in Nat /\ rxFrames \in Nat
      /\ accepted \in Nat /\ transmitted \in Nat /\ overwritten \in Nat
      /\ received \in Nat /\ merged \in Nat /\ unheard \in Nat
      /\ Len(txQueue) \in Nat
  BY <1>1 DEF TypeOK
<1>2. TypeOK'
  <2>1. merged' \in Nat BY <1>1, <1>n DEF ReceiveSignal
  <2>2. events' \subseteq Events BY <1>1 DEF ReceiveSignal, TypeOK, Events
  <2> QED BY <1>1, <2>1, <2>2 DEF ReceiveSignal, tx, TypeOK
<1>3. (TxInOrder /\ TxCounted /\ InSend)'
  BY <1>1 DEF ReceiveSignal, tx, TxInOrder, TxCounted, InSend, Count1, Popping, Sending, Under
<1>4. RxCounted'
  <2>1. /\ Count1(driver = "signal") = 1 /\ Count1(driver = "signal")' = 0
        /\ Count1(RxCompleted \in events)' = 1
        /\ Count1(RxCompleted \in todo)' = Count1(RxCompleted \in todo)
    BY DEF ReceiveSignal, Count1
  <2>2. merged' = merged + Count1(RxCompleted \in events)
    BY <1>1, <1>n DEF ReceiveSignal, Count1
  <2>3. Count1(RxCompleted \in events) \in {0, 1} /\ Count1(RxCompleted \in todo) \in {0, 1}
    BY DEF Count1
  <2>4. rxFrames = merged + unheard + Count1(RxCompleted \in events)
                     + Count1(RxCompleted \in todo) + 1
    BY <1>1, <2>1 DEF RxCounted
  <2>a. UNCHANGED <<rxFrames, unheard>> BY DEF ReceiveSignal
  <2>5. rxFrames' = merged' + unheard' + 1 + Count1(RxCompleted \in todo) + 0
    BY <1>1, <2>2, <2>3, <2>4, <2>a, <1>n
  <2> QED BY <2>1, <2>5 DEF RxCounted
<1> QED BY <1>2, <1>3, <1>4 DEF IInv, Accounted

LEMMA RegisterHolds == ASSUME IInv, Register PROVE IInv'
BY DEF IInv, Register, TypeOK, Accounted, TxInOrder, TxCounted, RxCounted, InSend, tx, rx,
       Count1, Popping, Sending, Under

\* Waking up moves every event from one side of Under to the other.
LEMMA WakeHolds == ASSUME IInv, Wake PROVE IInv'
<1>1. TypeOK /\ TxInOrder /\ TxCounted /\ RxCounted /\ InSend BY DEF IInv, Accounted
<1>n. /\ txCount \in Nat /\ cached \in Nat /\ rxFrames \in Nat
      /\ accepted \in Nat /\ transmitted \in Nat /\ overwritten \in Nat
      /\ received \in Nat /\ merged \in Nat /\ unheard \in Nat
      /\ Len(txQueue) \in Nat
  BY <1>1 DEF TypeOK
<1>2. step = "loop" BY <1>1 DEF Wake, InSend, Sending
<1>3. TypeOK' BY <1>1 DEF Wake, tx, rx, TypeOK
<1>4. (TxInOrder /\ TxCounted)'
  BY <1>1 DEF Wake, tx, TxInOrder, TxCounted, Count1, Popping, Under
<1>5. InSend' BY <1>1, <1>2 DEF Wake, tx, InSend, Popping
<1>6. RxCounted'
  <2>1. /\ Count1(RxCompleted \in todo) = 0 /\ Count1(RxCompleted \in events)' = 0
        /\ Count1(RxCompleted \in todo)' = Count1(RxCompleted \in events)
        /\ Count1(driver = "signal")' = Count1(driver = "signal")
    BY DEF Wake, rx, Count1
  <2>2. Count1(RxCompleted \in events) \in {0, 1} BY DEF Count1
  <2> QED BY <1>1, <2>1, <2>2, <1>n DEF Wake, rx, RxCounted
<1> QED BY <1>3, <1>4, <1>5, <1>6 DEF IInv, Accounted

LEMMA TxDoneHolds == ASSUME IInv, TxDone PROVE IInv'
<1>1. TypeOK /\ TxInOrder /\ TxCounted /\ RxCounted /\ InSend BY DEF IInv, Accounted
<1>2. TypeOK' BY <1>1 DEF TxDone, tx, rx, TypeOK
<1>3. TxInOrder' BY <1>1 DEF TxDone, tx, TxInOrder, Count1
<1>4. TxCounted' BY <1>1 DEF TxDone, tx, TxCounted, Count1, Popping
<1>5. RxCounted'
  <2>1. RxCompleted \in todo' <=> RxCompleted \in todo
    BY DEF TxDone, RxCompleted, TxRequest
  <2> QED BY <1>1, <2>1 DEF TxDone, rx, RxCounted, Count1
<1>6. InSend' BY <1>1 DEF TxDone, tx, InSend, Popping
<1> QED BY <1>2, <1>3, <1>4, <1>5, <1>6 DEF IInv, Accounted

LEMMA PopCacheHolds == ASSUME IInv, PopCache PROVE IInv'
<1>1. TypeOK /\ TxInOrder /\ TxCounted /\ RxCounted /\ InSend BY DEF IInv, Accounted
<1>n. /\ txCount \in Nat /\ cached \in Nat /\ rxFrames \in Nat
      /\ accepted \in Nat /\ transmitted \in Nat /\ overwritten \in Nat
      /\ received \in Nat /\ merged \in Nat /\ unheard \in Nat
      /\ Len(txQueue) \in Nat
  BY <1>1 DEF TypeOK
<1>2. TypeOK' BY <1>1 DEF PopCache, rx, TypeOK
<1>3. TxInOrder' BY <1>1 DEF PopCache, TxInOrder, Count1
<1>4. TxCounted' BY <1>1 DEF PopCache, TxCounted, Count1, Popping, Sending, Under
<1>5. RxCounted' BY <1>1 DEF PopCache, rx, RxCounted, Count1
<1>6. InSend' BY <1>1, <1>n DEF PopCache, InSend, Popping, Sending
<1> QED BY <1>2, <1>3, <1>4, <1>5, <1>6 DEF IInv, Accounted

\* The queue holds at least the frames its count names.
LEMMA PopFrameHolds == ASSUME IInv, PopFrame PROVE IInv'
<1>1. TypeOK /\ TxInOrder /\ TxCounted /\ RxCounted /\ InSend BY DEF IInv, Accounted
<1>n. /\ txCount \in Nat /\ cached \in Nat /\ rxFrames \in Nat
      /\ accepted \in Nat /\ transmitted \in Nat /\ overwritten \in Nat
      /\ received \in Nat /\ merged \in Nat /\ unheard \in Nat
      /\ Len(txQueue) \in Nat
  BY <1>1 DEF TypeOK
<1>2. /\ txQueue \in Seq(TxFrames) /\ Len(txQueue) <= QueueRoom
      /\ Len(txQueue) >= 1 /\ Head(txQueue) = txQueue[1] /\ txQueue[1] \in TxFrames
      /\ txQueue' \in Seq(TxFrames) /\ Len(txQueue') = Len(txQueue) - 1
      /\ \A i \in 1 .. Len(txQueue') : txQueue'[i] = txQueue[i + 1]
  BY <1>1 DEF PopFrame, TypeOK
<1>3. TypeOK'
  <2>1. Len(txQueue') <= QueueRoom BY <1>2
  <2> QED BY <1>1, <1>2, <2>1 DEF PopFrame, rx, TypeOK
<1>4. held = NoFrame /\ held' # NoFrame /\ held' = txQueue[1]
  BY <1>1, <1>2 DEF PopFrame, InSend, NoFrame, TxFrames
<1>5. Count1(held # NoFrame) = 0 /\ Count1(held # NoFrame)' = 1 BY <1>4 DEF Count1
<1>6. transmitted + 0 + Len(txQueue) = accepted BY <1>1, <1>5 DEF TxInOrder
<1>7. txQueue[1] = accepted - Len(txQueue) + 1 BY <1>1, <1>2 DEF TxInOrder
<1>8. TxInOrder'
  <2>1. (transmitted + 1 + Len(txQueue) = accepted)'
    BY <1>1, <1>2, <1>6, <1>n DEF PopFrame
  <2>2. (\A i \in 1 .. Len(txQueue) : txQueue[i] = accepted - Len(txQueue) + i)'
    <3> SUFFICES ASSUME NEW i \in 1 .. Len(txQueue')
                 PROVE  txQueue'[i] = accepted' - Len(txQueue') + i
      OBVIOUS
    <3>1. i \in Nat /\ i + 1 \in 1 .. Len(txQueue) BY <1>1, <1>2, <1>n
    <3>2. txQueue[i + 1] = accepted - Len(txQueue) + (i + 1) BY <1>1, <3>1 DEF TxInOrder
    <3>3. accepted' = accepted BY DEF PopFrame
    <3> QED BY <1>1, <1>2, <3>1, <3>2, <3>3, <1>n
  <2>3. held' = transmitted' + 1 BY <1>1, <1>4, <1>6, <1>7, <1>n DEF PopFrame
  <2> QED BY <1>5, <2>1, <2>2, <2>3 DEF TxInOrder
<1>9. TxCounted'
  <2>1. Count1(step = "count") = 0 /\ Count1(step = "count")' = 1
    BY DEF PopFrame, Count1
  <2>2. Len(txQueue) + 0 = txCount + overwritten BY <1>1, <2>1 DEF TxCounted
  <2>a. txCount' = txCount /\ overwritten' = overwritten BY DEF PopFrame
  <2>b. Len(txQueue') = Len(txQueue) - 1 BY <1>2
  <2>3. (Len(txQueue) + 1 = txCount + overwritten)' BY <1>n, <2>2, <2>a, <2>b
  <2>4. Under(TxRequest)' BY <1>1 DEF PopFrame, InSend, Sending, Under
  <2> QED BY <2>1, <2>3, <2>4 DEF TxCounted
<1>10. RxCounted' BY <1>1 DEF PopFrame, rx, RxCounted, Count1
<1>11. InSend' BY <1>1, <1>4 DEF PopFrame, InSend, Popping, Sending
<1> QED BY <1>3, <1>8, <1>9, <1>10, <1>11 DEF IInv, Accounted

LEMMA PopCountHolds == ASSUME IInv, PopCount PROVE IInv'
<1>1. TypeOK /\ TxInOrder /\ TxCounted /\ RxCounted /\ InSend BY DEF IInv, Accounted
<1>n. /\ txCount \in Nat /\ cached \in Nat /\ rxFrames \in Nat
      /\ accepted \in Nat /\ transmitted \in Nat /\ overwritten \in Nat
      /\ received \in Nat /\ merged \in Nat /\ unheard \in Nat
      /\ Len(txQueue) \in Nat
  BY <1>1 DEF TypeOK
<1>2. 1 <= cached /\ cached <= txCount BY <1>1 DEF PopCount, InSend, Popping
<1>3. txCount' = cached - 1 /\ overwritten' = overwritten + (txCount - cached)
  BY DEF PopCount
<1>4. TypeOK'
  <2>1. txCount' \in Nat /\ overwritten' \in Nat BY <1>1, <1>2, <1>3, <1>n
  <2> QED BY <1>1, <2>1 DEF PopCount, rx, TypeOK
<1>5. TxInOrder' BY <1>1 DEF PopCount, TxInOrder, Count1
<1>6. TxCounted'
  <2>1. Count1(step = "count") = 1 /\ Count1(step = "count")' = 0
    BY DEF PopCount, Count1
  <2>2. Len(txQueue) + 1 = txCount + overwritten BY <1>1, <2>1 DEF TxCounted
  <2>a. txQueue' = txQueue BY DEF PopCount
  <2>3. (Len(txQueue) + 0 = txCount + overwritten)'
    BY <1>1, <1>2, <1>3, <2>2, <2>a, <1>n
  <2>4. Under(TxRequest)' BY <1>1 DEF PopCount, InSend, Sending, Under
  <2> QED BY <2>1, <2>3, <2>4 DEF TxCounted
<1>7. RxCounted' BY <1>1 DEF PopCount, rx, RxCounted, Count1
<1>8. InSend' BY <1>1 DEF PopCount, InSend, Popping, Sending
<1> QED BY <1>4, <1>5, <1>6, <1>7, <1>8 DEF IInv, Accounted

LEMMA TransmitHolds == ASSUME IInv, Transmit PROVE IInv'
<1>1. TypeOK /\ TxInOrder /\ TxCounted /\ RxCounted /\ InSend BY DEF IInv, Accounted
<1>n. /\ txCount \in Nat /\ cached \in Nat /\ rxFrames \in Nat
      /\ accepted \in Nat /\ transmitted \in Nat /\ overwritten \in Nat
      /\ received \in Nat /\ merged \in Nat /\ unheard \in Nat
      /\ Len(txQueue) \in Nat
  BY <1>1 DEF TypeOK
<1>2. TypeOK'
  <2>1. transmitted' \in Nat BY <1>1, <1>n DEF Transmit
  <2> QED BY <1>1, <2>1 DEF Transmit, rx, TypeOK
<1>3. TxInOrder'
  <2>1. Count1(held # NoFrame) = 1 /\ Count1(held # NoFrame)' = 0
    BY <1>1 DEF Transmit, InSend, Count1
  <2>2. transmitted + 1 + Len(txQueue) = accepted BY <1>1, <2>1 DEF TxInOrder
  <2>3. (transmitted + 0 + Len(txQueue) = accepted)' BY <1>1, <2>2, <1>n DEF Transmit
  <2> QED BY <1>1, <2>1, <2>3 DEF Transmit, TxInOrder
<1>4. TxCounted'
  BY <1>1 DEF Transmit, TxCounted, InSend, Count1, Popping, Sending, Under
<1>5. RxCounted' BY <1>1 DEF Transmit, rx, RxCounted, Count1
<1>6. InSend' BY <1>1 DEF Transmit, InSend, Popping
<1> QED BY <1>2, <1>3, <1>4, <1>5, <1>6 DEF IInv, Accounted

\* The receive queue is not empty when the session manager pops it.
LEMMA RxConfirmHolds == ASSUME IInv, RxConfirm PROVE IInv'
<1>1. TypeOK /\ TxInOrder /\ TxCounted /\ RxCounted /\ InSend BY DEF IInv, Accounted
<1>n. /\ txCount \in Nat /\ cached \in Nat /\ rxFrames \in Nat
      /\ accepted \in Nat /\ transmitted \in Nat /\ overwritten \in Nat
      /\ received \in Nat /\ merged \in Nat /\ unheard \in Nat
      /\ Len(txQueue) \in Nat
  BY <1>1 DEF TypeOK
<1>2. /\ Count1(RxCompleted \in todo) = 1 /\ Count1(RxCompleted \in todo)' = 0
      /\ Count1(RxCompleted \in events)' = Count1(RxCompleted \in events)
      /\ Count1(driver = "signal")' = Count1(driver = "signal")
  BY DEF RxConfirm, Count1
<1>3. Count1(RxCompleted \in events) \in {0, 1} /\ Count1(driver = "signal") \in {0, 1}
  BY DEF Count1
<1>4. rxFrames = merged + unheard + Count1(RxCompleted \in events) + 1
                   + Count1(driver = "signal")
  BY <1>1, <1>2 DEF RxCounted
<1>5. TypeOK'
  <2>1. rxFrames' \in 0 .. QueueRoom
    BY <1>1, <1>3, <1>4, <1>n DEF RxConfirm, TypeOK
  <2>2. unheard' \in Nat BY <1>1, <1>n DEF RxConfirm
  <2> QED BY <1>1, <2>1, <2>2 DEF RxConfirm, tx, TypeOK
<1>6. (TxInOrder /\ InSend)'
  BY <1>1 DEF RxConfirm, tx, TxInOrder, InSend, Count1, Popping, Sending
<1>7. TxCounted'
  <2>1. Under(TxRequest) => Under(TxRequest)'
    BY DEF RxConfirm, Under, TxRequest, RxCompleted
  <2> QED BY <1>1, <2>1 DEF RxConfirm, tx, TxCounted, Count1, Popping
<1>8. RxCounted'
  <2>2. rxFrames' = merged' + unheard' + Count1(RxCompleted \in events) + 0
                      + Count1(driver = "signal")
    <3>1. merged' = merged BY DEF RxConfirm
    <3>2. CASE registered
      <4>1. rxFrames' = rxFrames - 1 /\ unheard' = unheard BY <3>2 DEF RxConfirm
      <4> QED BY <1>1, <1>3, <1>4, <3>1, <4>1, <1>n
    <3>3. CASE ~ registered
      <4>1. rxFrames' = rxFrames /\ unheard' = unheard + 1 BY <3>3 DEF RxConfirm
      <4> QED BY <1>1, <1>3, <1>4, <3>1, <4>1, <1>n
    <3> QED BY <3>2, <3>3
  <2> QED BY <1>2, <2>2 DEF RxCounted
<1> QED BY <1>5, <1>6, <1>7, <1>8 DEF IInv, Accounted

LEMMA StepHolds == IInv /\ [Next]_vars => IInv'
<1> SUFFICES ASSUME IInv, [Next]_vars PROVE IInv' OBVIOUS
<1>1. CASE TaskStep
  BY <1>1, WakeHolds, TxDoneHolds, PopCacheHolds, PopFrameHolds, PopCountHolds,
     TransmitHolds, RxConfirmHolds DEF TaskStep
<1>2. CASE Send BY <1>2, SendHolds
<1>3. CASE Receive \/ ReceiveSignal BY <1>3, ReceiveHolds, ReceiveSignalHolds
<1>4. CASE Register BY <1>4, RegisterHolds
<1>5. CASE UNCHANGED vars
  BY <1>5 DEF vars, IInv, TypeOK, Accounted, TxInOrder, TxCounted, RxCounted, InSend, tx, rx,
              Count1, Popping, Sending, Under
<1> QED BY <1>1, <1>2, <1>3, <1>4, <1>5 DEF Next

(* For queues of any size and any numbers of frames: although cancom_tp.c  *)
(* pushes to its transmit queue without a lock and its events merge, no    *)
(* frame is lost in the transport, and exactly the frames of pushes that   *)
(* fell into a pop, of merged and of early events stay behind.             *)
THEOREM NothingLost == Spec => [](TypeOK /\ Accounted)
<1>1. IInv => TypeOK /\ Accounted BY DEF IInv
<1> QED BY <1>1, InitHolds, StepHolds, PTL DEF Spec
=============================================================================
