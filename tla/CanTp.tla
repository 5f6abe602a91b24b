------------------------------- MODULE CanTp -------------------------------
(***************************************************************************)
(* cancom_tp.c, the CAN transport of the ChibiOS build.  Both queues are   *)
(* shared with the transport's task, which has the low priority            *)
(* NORMALPRIO-2: a sender pushes without a lock, in the middle of a pop of *)
(* the task if need be, and releases can_tx_mtx, which only the task ever  *)
(* takes and which so excludes nobody.  can_rx_mtx excludes the push of    *)
(* the driver from the pop, so each is one step.                           *)
(*                                                                         *)
(* The services run above the task, and the session manager lets one       *)
(* after the other send (SelfSession): the push of a sender and its event  *)
(* are one step for the task.  A pop of the task is three.                 *)
(***************************************************************************)
EXTENDS Integers, Sequences

CONSTANTS
  QueueRoom,     \* frames each 64-byte lqueue holds
  MaxTx, MaxRx   \* bounds on the frames accepted for sending and received

ASSUME SizesAssumption == QueueRoom \in Nat \ {0} /\ {MaxTx, MaxRx} \subseteq Nat

(* The events of comm_tp that are ever signalled.                          *)
TxRequest == 1
RxCompleted == 4
Events == {TxRequest, RxCompleted}

NoFrame == 0
TxFrames == 1 .. MaxTx

VARIABLES
  txQueue,     \* the frames between the indices of canTx_queue
  txCount,     \* its message count
  cached,      \* the count the task's pop has loaded
  held,        \* the frame request2send has popped
  rxFrames,    \* the number of frames in canRx_queue
  driver,      \* "idle", or "signal" between receive_can_frame's push and its event
  events,      \* pending events of comm_tp
  todo,        \* events the task has taken and not finished
  step,        \* "loop", "pop", "count" and "transmit" in request2send
  registered,  \* can_callback.rx_confirmation # NULL
  \* histories
  accepted,    \* number of frames send_can_msg took: they are 1 .. accepted
  transmitted, \* number of frames given to canTransmit
  overwritten, \* number of pushes whose count a pop has stored over
  received,    \* number of frames receive_can_frame pushed
  merged,      \* number of RxCompleted signals that found the event pending
  unheard      \* number of RxCompleted events before the session manager registered

tx == <<txQueue, txCount, cached, held, accepted, transmitted, overwritten>>
rx == <<rxFrames, driver, received, merged, unheard>>
vars == <<tx, rx, events, todo, step, registered>>

(* After can_transport_init.                                               *)
Init ==
  /\ txQueue = <<>> /\ txCount = 0 /\ cached = 0 /\ held = NoFrame
  /\ rxFrames = 0 /\ driver = "idle"
  /\ events = {} /\ todo = {} /\ step = "loop"
  /\ registered = FALSE
  /\ accepted = 0 /\ transmitted = 0 /\ overwritten = 0
  /\ received = 0 /\ merged = 0 /\ unheard = 0

-----------------------------------------------------------------------------
(* send_can_msg.  A full queue changes nothing.                            *)
Send ==
  /\ accepted < MaxTx
  /\ Len(txQueue) < QueueRoom
  /\ txQueue' = Append(txQueue, accepted + 1)
  /\ txCount' = txCount + 1
  /\ accepted' = accepted + 1
  /\ events' = events \cup {TxRequest}
  /\ UNCHANGED <<cached, held, transmitted, overwritten, rx, todo, step, registered>>

(* receive_can_frame, called by the driver of the controller: the push     *)
(* under can_rx_mtx, and the event after it.                               *)
Receive ==
  /\ driver = "idle"
  /\ received < MaxRx
  /\ rxFrames < QueueRoom
  /\ rxFrames' = rxFrames + 1
  /\ received' = received + 1
  /\ driver' = "signal"
  /\ UNCHANGED <<merged, unheard, tx, events, todo, step, registered>>

ReceiveSignal ==
  /\ driver = "signal"
  /\ driver' = "idle"
  /\ events' = events \cup {RxCompleted}
  /\ merged' = IF RxCompleted \in events THEN merged + 1 ELSE merged
  /\ UNCHANGED <<rxFrames, received, unheard, tx, todo, step, registered>>

(* can_registe_cb, called by session_manager_init after the task runs.     *)
Register ==
  /\ ~ registered
  /\ registered' = TRUE
  /\ UNCHANGED <<tx, rx, events, todo, step>>

-----------------------------------------------------------------------------
(* can_tpTask.  The other events it looks at are signalled by nobody.      *)

(* chEvtWaitAny returns the pending events and clears them.                *)
Wake ==
  /\ todo = {} /\ events # {}
  /\ todo' = events
  /\ events' = {}
  /\ UNCHANGED <<tx, rx, step, registered>>

Sending == TxRequest \in todo

(* The queue is empty: request2send returns.                               *)
TxDone ==
  /\ Sending /\ step = "loop"
  /\ txCount = 0
  /\ todo' = todo \ {TxRequest}
  /\ UNCHANGED <<tx, rx, events, step, registered>>

(* lqueue_pop caches the count, takes the frame and moves the read index,  *)
(* and stores the count less one: a push in between is not counted.        *)
PopCache ==
  /\ Sending /\ step = "loop"
  /\ txCount # 0
  /\ cached' = txCount
  /\ step' = "pop"
  /\ UNCHANGED <<txQueue, txCount, held, accepted, transmitted, overwritten, rx, events, todo,
                 registered>>

PopFrame ==
  /\ step = "pop"
  /\ txQueue # <<>>
  /\ held' = Head(txQueue)
  /\ txQueue' = Tail(txQueue)
  /\ step' = "count"
  /\ UNCHANGED <<txCount, cached, accepted, transmitted, overwritten, rx, events, todo,
                 registered>>

PopCount ==
  /\ step = "count"
  /\ txCount' = cached - 1
  /\ overwritten' = overwritten + (txCount - cached)
  /\ cached' = 0
  /\ step' = "transmit"
  /\ UNCHANGED <<txQueue, held, accepted, transmitted, rx, events, todo, registered>>

(* Mutant (not the code's, a mistake the properties must notice): one      *)
(* frame for each event.                                                   *)
TransmitOne ==
  /\ step = "transmit"
  /\ transmitted' = transmitted + 1
  /\ held' = NoFrame
  /\ step' = "loop"
  /\ todo' = todo \ {TxRequest}
  /\ UNCHANGED <<txQueue, txCount, cached, accepted, overwritten, rx, events, registered>>

(* canTransmit waits ten ticks for a mailbox; whether it found one is not  *)
(* looked at.                                                              *)
Transmit ==
  /\ step = "transmit"
  /\ transmitted' = transmitted + 1
  /\ held' = NoFrame
  /\ step' = "loop"
  /\ UNCHANGED <<txQueue, txCount, cached, accepted, overwritten, rx, events, todo, registered>>

(* The receive event comes after the others.  rx_confirmation has the      *)
(* session manager call recv_can_msg, which pops one frame under           *)
(* can_rx_mtx.                                                             *)
RxConfirm ==
  /\ RxCompleted \in todo /\ ~ Sending
  /\ todo' = todo \ {RxCompleted}
  /\ rxFrames' = IF registered THEN rxFrames - 1 ELSE rxFrames
  /\ unheard' = IF registered THEN unheard ELSE unheard + 1
  /\ UNCHANGED <<driver, received, merged, tx, events, step, registered>>

-----------------------------------------------------------------------------
TaskStep == Wake \/ TxDone \/ PopCache \/ PopFrame \/ PopCount \/ Transmit \/ RxConfirm

Next == TaskStep \/ Send \/ Receive \/ ReceiveSignal \/ Register

Spec == Init /\ [][Next]_vars

-----------------------------------------------------------------------------
(* Properties.                                                             *)

Popping == step \in {"pop", "count"}
Under(e) == e \in events \cup todo
Count1(P) == IF P THEN 1 ELSE 0

(* The frames in the transmit queue are the last ones send_can_msg         *)
(* accepted, in its order, and the ones before them were transmitted, each *)
(* once.                                                                   *)
TxInOrder ==
  /\ transmitted + Count1(held # NoFrame) + Len(txQueue) = accepted
  /\ \A i \in 1 .. Len(txQueue) : txQueue[i] = accepted - Len(txQueue) + i
  /\ held # NoFrame => held = transmitted + 1

(* Every frame that is counted has an event behind it.  The others stay    *)
(* behind, one for each push that fell into a pop: they go out when later  *)
(* frames are sent, that many frames late.                                 *)
TxCounted ==
  /\ Len(txQueue) + Count1(step = "count") = txCount + overwritten
  /\ txCount # 0 \/ Popping => Under(TxRequest)

(* The receive queue holds the frames whose event is still to come or      *)
(* under way, and one more for good for each event that was merged with    *)
(* another or came before the session manager registered.  So              *)
(* recv_can_msg, which takes the negative length of an empty queue for a   *)
(* message, never finds it empty.                                          *)
RxCounted ==
  rxFrames = merged + unheard + Count1(RxCompleted \in events) + Count1(RxCompleted \in todo)
               + Count1(driver = "signal")

(* No frame is lost between send_can_msg and canTransmit, or between       *)
(* receive_can_frame and the session manager; it can only stay behind, as  *)
(* TxCounted and RxCounted say.                                            *)
Accounted == TxInOrder /\ TxCounted /\ RxCounted

TypeOK ==
  /\ txQueue \in Seq(TxFrames) /\ Len(txQueue) <= QueueRoom
  /\ txCount \in Nat /\ cached \in Nat
  /\ held \in TxFrames \cup {NoFrame}
  /\ rxFrames \in 0 .. QueueRoom
  /\ driver \in {"idle", "signal"}
  /\ events \subseteq Events /\ todo \subseteq Events
  /\ step \in {"loop", "pop", "count", "transmit"}
  /\ registered \in BOOLEAN
  /\ accepted \in 0 .. MaxTx
  /\ {transmitted, overwritten, received, merged, unheard} \subseteq Nat
=============================================================================
