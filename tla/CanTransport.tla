---------------------------- MODULE CanTransport ----------------------------
(***************************************************************************)
(* cancom_transport.c, the CAN transport of the FreeRTOS build: senders    *)
(* push frames and notify the transport task; the task moves them to the   *)
(* mailboxes of the controller and, woken by the receive interrupt, hands  *)
(* the frames of the two receive FIFOs to the session manager.             *)
(*                                                                         *)
(* Both lqueues are only touched inside portENTER_CRITICAL, so a call to   *)
(* one is a single step on a sequence of frames (LQueueRace, LQueue).      *)
(***************************************************************************)
EXTENDS Naturals, Sequences, FiniteSets

CONSTANTS
  Senders,      \* tasks that call send_can_msg
  QueueRoom,    \* frames each 64-byte lqueue holds
  Mailboxes,    \* transmit mailboxes of the controller (3)
  FifoDepth,    \* frames in a receive FIFO of the controller (3)
  MaxTx, MaxRx, \* bounds on the frames accepted for sending and arriving
  MaxErrors     \* bound on the bus errors

ASSUME SizesAssumption ==
  /\ {QueueRoom, Mailboxes, FifoDepth} \subseteq Nat \ {0}
  /\ {MaxTx, MaxRx, MaxErrors} \subseteq Nat

(* The bits of the task's notification value.                              *)
TxRequest == 1
TxConfirm == 2
FifoEvent(x) == IF x = 0 THEN 8 ELSE 16
Fifos == {0, 1}
Events == {TxRequest, TxConfirm} \cup {FifoEvent(x) : x \in Fifos}

NoFrame == 0
TxFrames == 1 .. MaxTx
(* A received frame is for us when it has an extended identifier with the  *)
(* CAN_HEAD bits; the others are read and forgotten.                       *)
RxFrames == {"ours", "other"}

VARIABLES
  txQueue,    \* can.canTx_queue
  rxQueue,    \* can.canRx_queue
  sender,     \* per sender: "idle", or "notify" between its push and its notification
  events,     \* notification value of canTp_handle
  todo,       \* events the task has taken and not finished
  step,       \* "loop", "delay" and "reset" in send_message, "confirm" before
              \* rx_confirmation, "rearm" before ActivateNotification
  held,       \* the frame request2send has popped
  mailbox,    \* frames in the transmit mailboxes
  fifo,       \* frames in each receive FIFO
  armed,      \* whether the pending interrupt of each FIFO is active
  busError,   \* HAL_CAN_GetError reports an error
  registered, \* can_callback.rx_confirmation # NULL
  \* histories
  accepted,   \* number of frames send_can_msg took: they are 1 .. accepted
  mailed,     \* frames put in a mailbox
  dropped,    \* frames popped and never put in a mailbox
  arrived, errors,   \* number of frames arrived, of bus errors
  early       \* number of frames queued before the session manager registered

tx == <<txQueue, sender, held, mailbox, accepted, mailed, dropped>>
rx == <<rxQueue, fifo, arrived, early>>
bus == <<busError, errors>>
task == <<events, todo, step>>
vars == <<tx, rx, bus, task, armed, registered>>

Init ==
  /\ txQueue = <<>> /\ rxQueue = <<>>
  /\ sender = [s \in Senders |-> "idle"]
  /\ events = {} /\ todo = {} /\ step = "loop"
  /\ held = NoFrame
  /\ mailbox = {}
  /\ fifo = [x \in Fifos |-> <<>>]
  /\ armed = [x \in Fifos |-> TRUE]
  /\ busError = FALSE
  /\ registered = FALSE
  /\ accepted = 0 /\ mailed = {} /\ dropped = {}
  /\ arrived = 0 /\ errors = 0 /\ early = 0

-----------------------------------------------------------------------------
(* send_can_msg: the push, then the notification.                          *)

SendPush(s) ==
  /\ sender[s] = "idle"
  /\ accepted < MaxTx
  /\ Len(txQueue) < QueueRoom
  /\ txQueue' = Append(txQueue, accepted + 1)
  /\ accepted' = accepted + 1
  /\ sender' = [sender EXCEPT ![s] = "notify"]
  /\ UNCHANGED <<held, mailbox, mailed, dropped, rx, bus, task, armed, registered>>

(* Mutant (not the code's, a mistake the properties must notice): the      *)
(* sender does not notify the task.                                        *)
SendUnnotified(s) ==
  /\ sender[s] = "notify"
  /\ sender' = [sender EXCEPT ![s] = "idle"]
  /\ UNCHANGED <<txQueue, held, mailbox, accepted, mailed, dropped, rx, bus, task,
                 armed, registered>>

SendNotify(s) ==
  /\ sender[s] = "notify"
  /\ sender' = [sender EXCEPT ![s] = "idle"]
  /\ events' = events \cup {TxRequest}
  /\ UNCHANGED <<txQueue, held, mailbox, accepted, mailed, dropped, rx, bus, todo, step,
                 armed, registered>>

-----------------------------------------------------------------------------
(* The controller and its interrupts.                                      *)

(* A frame arrives; one that finds its FIFO full is lost on the wire.      *)
Arrive(x, frame) ==
  /\ arrived < MaxRx
  /\ arrived' = arrived + 1
  /\ fifo' = [fifo EXCEPT ![x] = IF Len(@) < FifoDepth THEN Append(@, frame) ELSE @]
  /\ UNCHANGED <<rxQueue, early, tx, bus, task, armed, registered>>

(* HAL_CAN_RxFifo0MsgPendingCallback and its twin switch their interrupt   *)
(* off until the task has read the FIFO.                                   *)
RxPending(x) ==
  /\ armed[x]
  /\ fifo[x] # <<>>
  /\ armed' = [armed EXCEPT ![x] = FALSE]
  /\ events' = events \cup {FifoEvent(x)}
  /\ UNCHANGED <<tx, rx, bus, todo, step, registered>>

(* HAL_CAN_TxMailbox0CompleteCallback and its twins.                       *)
TxComplete(f) ==
  /\ f \in mailbox
  /\ mailbox' = mailbox \ {f}
  /\ events' = events \cup {TxConfirm}
  /\ UNCHANGED <<txQueue, sender, held, accepted, mailed, dropped, rx, bus, todo, step,
                 armed, registered>>

BusFails ==
  /\ errors < MaxErrors
  /\ errors' = errors + 1
  /\ busError' = TRUE
  /\ UNCHANGED <<tx, rx, task, armed, registered>>

(* session_manager_init calls can_registe_cb after can_transport_init has  *)
(* created the task and started the controller.  This is the store of the  *)
(* protocol id, the last of the three: a frame confirmed between the store *)
(* of rx_confirmation and this one is taken for one of protocol 0, whose   *)
(* own queue is popped, and stays in rxQueue like the frames before it.    *)
Register ==
  /\ ~registered
  /\ registered' = TRUE
  /\ UNCHANGED <<tx, rx, bus, task, armed>>

-----------------------------------------------------------------------------
(* can_tpTask.                                                             *)

(* xTaskNotifyWait returns the bits and clears all of them.                *)
Wake ==
  /\ todo = {} /\ events # {}
  /\ todo' = events
  /\ events' = {}
  /\ UNCHANGED <<step, tx, rx, bus, armed, registered>>

(* The event the task works on: it goes through them in this order.        *)
First(e) == e \in todo /\ \A d \in todo : e <= d

Sending == First(TxRequest) \/ First(TxConfirm)

(* request2send pops a frame for send_message.                             *)
TxPop ==
  /\ Sending /\ step = "loop"
  /\ held = NoFrame
  /\ txQueue # <<>>
  /\ held' = Head(txQueue)
  /\ txQueue' = Tail(txQueue)
  /\ UNCHANGED <<sender, mailbox, accepted, mailed, dropped, rx, bus, task, armed, registered>>

(* Mutant: request2send takes no notice of the frames that are left.       *)
TxDoneEarly ==
  /\ Sending /\ step = "loop"
  /\ held = NoFrame
  /\ todo' = {e \in todo : ~First(e)}
  /\ UNCHANGED <<events, step, tx, rx, bus, armed, registered>>

(* The queue is empty: request2send returns.                               *)
TxDone ==
  /\ Sending /\ step = "loop"
  /\ held = NoFrame
  /\ txQueue = <<>>
  /\ todo' = {e \in todo : ~First(e)}
  /\ UNCHANGED <<events, step, tx, rx, bus, armed, registered>>

(* send_message returned; request2send ignores what.                       *)
Forget == held' = NoFrame

(* Mutant: no look at the mailboxes.                                       *)
TxMailUnchecked ==
  /\ held # NoFrame /\ step = "loop"
  /\ ~busError
  /\ mailbox' = mailbox \cup {held}
  /\ mailed' = mailed \cup {held}
  /\ Forget
  /\ UNCHANGED <<txQueue, sender, accepted, dropped, rx, bus, task, armed, registered>>

(* Mutant: the frame stays in hand.                                        *)
TxMailTwice ==
  /\ held # NoFrame /\ step = "loop"
  /\ ~busError
  /\ Cardinality(mailbox) < Mailboxes
  /\ mailbox' = mailbox \cup {held}
  /\ mailed' = mailed \cup {held}
  /\ UNCHANGED <<held, txQueue, sender, accepted, dropped, rx, bus, task, armed, registered>>

TxMail ==
  /\ held # NoFrame /\ step = "loop"
  /\ ~busError
  /\ Cardinality(mailbox) < Mailboxes
  /\ mailbox' = mailbox \cup {held}
  /\ mailed' = mailed \cup {held}
  /\ Forget
  /\ UNCHANGED <<txQueue, sender, accepted, dropped, rx, bus, task, armed, registered>>

TxNoMailbox ==
  /\ held # NoFrame /\ step = "loop"
  /\ ~busError
  /\ Cardinality(mailbox) >= Mailboxes
  /\ dropped' = dropped \cup {held}
  /\ Forget
  /\ UNCHANGED <<txQueue, sender, mailbox, accepted, mailed, rx, bus, task, armed, registered>>

(* After a bus error send_message waits a second, restarts the controller, *)
(* which may forget what is in its mailboxes, and gives the frame up.  A   *)
(* controller that does not start has its error set again.                 *)
TxResetError ==
  /\ held # NoFrame /\ step = "loop"
  /\ busError
  /\ busError' = FALSE
  /\ step' = "delay"
  /\ UNCHANGED <<errors, tx, rx, events, todo, armed, registered>>

TxRestart(started) ==
  /\ step = "delay"
  /\ step' = "loop"
  /\ busError' = ~started
  /\ mailbox' \in {mailbox, {}}
  /\ armed' = IF started THEN [x \in Fifos |-> TRUE] ELSE armed
  /\ dropped' = dropped \cup {held}
  /\ Forget
  /\ UNCHANGED <<txQueue, sender, accepted, mailed, rx, errors, events, todo, registered>>

(* Mutant: the session manager is not told.                                *)
RxReadSilent(x) ==
  /\ First(FifoEvent(x)) /\ step = "loop"
  /\ fifo[x] # <<>>
  /\ fifo' = [fifo EXCEPT ![x] = Tail(@)]
  /\ rxQueue' = IF Len(rxQueue) < QueueRoom THEN Append(rxQueue, Head(fifo[x])) ELSE rxQueue
  /\ UNCHANGED <<arrived, early, tx, bus, task, armed, registered>>

(* process_rx_fifo: one frame out of the controller and, when it is ours,  *)
(* into the receive queue; a frame that finds the queue full is dropped.   *)
RxRead(x) ==
  /\ First(FifoEvent(x)) /\ step = "loop"
  /\ fifo[x] # <<>>
  /\ fifo' = [fifo EXCEPT ![x] = Tail(@)]
  /\ LET queued == Head(fifo[x]) = "ours" /\ Len(rxQueue) < QueueRoom IN
     /\ rxQueue' = IF queued THEN Append(rxQueue, Head(fifo[x])) ELSE rxQueue
     /\ early' = IF queued /\ ~registered THEN early + 1 ELSE early
     /\ step' = IF queued /\ registered THEN "confirm" ELSE "loop"
  /\ UNCHANGED <<arrived, tx, bus, events, todo, armed, registered>>

(* rx_confirmation has the session manager call recv_can_msg, which pops.  *)
RxConfirm ==
  /\ step = "confirm"
  /\ rxQueue # <<>>
  /\ rxQueue' = Tail(rxQueue)
  /\ step' = "loop"
  /\ UNCHANGED <<fifo, arrived, early, tx, bus, events, todo, armed, registered>>

(* HAL_CAN_GetRxFifoFillLevel saw an empty FIFO, then the interrupt is     *)
(* switched on again; a frame may arrive between the two.                  *)
RxDrained(x) ==
  /\ First(FifoEvent(x)) /\ step = "loop"
  /\ fifo[x] = <<>>
  /\ step' = "rearm"
  /\ UNCHANGED <<events, todo, tx, rx, bus, armed, registered>>

(* Mutant: the interrupt is not switched on again.                         *)
RxRearmForgotten(x) ==
  /\ First(FifoEvent(x)) /\ step = "rearm"
  /\ todo' = todo \ {FifoEvent(x)}
  /\ step' = "loop"
  /\ UNCHANGED <<armed, events, tx, rx, bus, registered>>

RxRearm(x) ==
  /\ First(FifoEvent(x)) /\ step = "rearm"
  /\ armed' = [armed EXCEPT ![x] = TRUE]
  /\ todo' = todo \ {FifoEvent(x)}
  /\ step' = "loop"
  /\ UNCHANGED <<events, tx, rx, bus, registered>>

-----------------------------------------------------------------------------
TaskStep ==
  \/ Wake \/ TxPop \/ TxDone \/ TxMail \/ TxNoMailbox \/ TxResetError \/ RxConfirm
  \/ \E started \in BOOLEAN : TxRestart(started)
  \/ \E x \in Fifos : RxRead(x) \/ RxDrained(x) \/ RxRearm(x)

Next ==
  \/ TaskStep
  \/ \E s \in Senders : SendPush(s) \/ SendNotify(s)
  \/ \E x \in Fifos : RxPending(x) \/ \E frame \in RxFrames : Arrive(x, frame)
  \/ \E f \in TxFrames : TxComplete(f)
  \/ BusFails
  \/ Register

Spec == Init /\ [][Next]_vars

(* The task has the highest priority of those that use the transport, an   *)
(* active pending interrupt fires, a sender returns from its push, and the *)
(* start-up registers the session manager.  Nothing is assumed of the bus: *)
(* frames need not arrive and mailboxes need not become free.              *)
Fairness ==
  /\ WF_vars(TaskStep)
  /\ \A x \in Fifos : WF_vars(RxPending(x))
  /\ \A s \in Senders : WF_vars(SendNotify(s))

FairSpec == Spec /\ Fairness

-----------------------------------------------------------------------------
(* Properties.                                                             *)

(* Type invariant: nothing outgrows its queue, FIFO or mailboxes.          *)
TypeOK ==
  /\ txQueue \in Seq(TxFrames) /\ Len(txQueue) <= QueueRoom
  /\ rxQueue \in Seq(RxFrames) /\ Len(rxQueue) <= QueueRoom
  /\ sender \in [Senders -> {"idle", "notify"}]
  /\ events \subseteq Events /\ todo \subseteq Events
  /\ step \in {"loop", "delay", "confirm", "rearm"}
  /\ held \in TxFrames \cup {NoFrame}
  /\ mailbox \subseteq TxFrames /\ Cardinality(mailbox) <= Mailboxes
  /\ fifo \in [Fifos -> Seq(RxFrames)]
  /\ \A x \in Fifos : Len(fifo[x]) <= FifoDepth
  /\ armed \in [Fifos -> BOOLEAN]
  /\ busError \in BOOLEAN /\ registered \in BOOLEAN
  /\ accepted \in 0 .. MaxTx
  /\ mailed \subseteq TxFrames /\ dropped \subseteq TxFrames
  /\ arrived \in Nat /\ errors \in Nat /\ early \in Nat

Under(e) == e \in events \cup todo

(* A frame in a receive FIFO, or arriving now, is never forgotten: the     *)
(* interrupt of the FIFO is active, or the task has been told, or is still *)
(* at the FIFO's event.  The callback switches the interrupt off, the task *)
(* on again after it saw the FIFO empty, and frames arrive in between.     *)
RxWakeupPending == \A x \in Fifos : armed[x] \/ Under(FifoEvent(x))

(* A frame in the transmit queue always has a notification behind it: one  *)
(* its sender is about to give, or one the task has not finished with.     *)
TxWakeupPending ==
  txQueue # <<>> => Under(TxRequest) \/ \E s \in Senders : sender[s] = "notify"

(* The frames that left the task, in a mailbox or dropped.                 *)
Gone == accepted - Len(txQueue) - (IF held = NoFrame THEN 0 ELSE 1)

(* The frames still to be mailed are the last ones send_can_msg accepted,  *)
(* in its order: the frames before them were mailed or dropped, never both. *)
TxAccounted ==
  /\ \A i \in 1 .. Len(txQueue) : txQueue[i] = accepted - Len(txQueue) + i
  /\ held # NoFrame => held = Gone + 1
  /\ mailed \cup dropped = 1 .. Gone
  /\ mailed \cap dropped = {}

(* Each delivery pops one frame, so the frames queued before the session   *)
(* manager registered stay in the queue for good: it lags behind by exactly *)
(* that many frames, recv_can_msg never finds it empty, and with QueueRoom *)
(* of them no frame is received any more.                                  *)
RxLag ==
  Len(rxQueue) = early + (IF step = "confirm" THEN 1 ELSE 0)

(* A receive FIFO with frames in it is read until it is empty.             *)
FifoDrained == \A x \in Fifos : (fifo[x] # <<>>) ~> (fifo[x] = <<>>)

(* The transmit queue empties, whatever fails on the way.                  *)
TxDrained == (txQueue # <<>>) ~> (txQueue = <<>>)

(* cancom_transport.c:258 has the task, when a mailbox has become free,    *)
(* check for "data waiting to send": frames wait for a free mailbox.       *)
TxWaitsForMailbox == errors = 0 => dropped = {}
=============================================================================
