---------------------------- MODULE SelfSession ----------------------------
(***************************************************************************)
(* Messages between tasks of one controller: session_manager_send on the   *)
(* session of the self transport (session_manager.c), the transport itself *)
(* (selfcom_transport.c), the best-effort output stream they share, and    *)
(* the way back, from the notification of the transport's task to the      *)
(* callback of the destination.                                            *)
(*                                                                         *)
(* FreeRTOS runs a ready task of the highest priority.  The transport's    *)
(* task has priority SelfPriority (10 in the code), the senders are the    *)
(* services.  The queue calls are not in critical sections, so a push and  *)
(* a pop are two steps around the count they share; LQueueRace has them    *)
(* byte by byte.                                                           *)
(***************************************************************************)
EXTENDS Integers, Sequences, FiniteSets

CONSTANTS
  Senders,       \* tasks that send
  SelfTask,      \* selfcom_func
  NoTask,
  Priority,      \* of each sender
  SelfPriority,
  ServiceIds,    \* ids of the services, 0 among them
  SourceOf,      \* the id each task sends under
  Sizes,         \* payload sizes that are sent
  StreamBytes,   \* SESSION_BUFFER_SIZE (256)
  QueueBytes,    \* SELF_COM_TRANSPORT_BUFFER_SIZE (64)
  MaxSends       \* bound on the calls of session_manager_send

Tasks == Senders \cup {SelfTask}

ASSUME TasksAssumption == SelfTask \notin Senders /\ NoTask \notin Tasks
ASSUME PrioritiesAssumption ==
  /\ SelfPriority \in Nat
  /\ Priority \in [Senders -> Nat]
  /\ \A s \in Senders : Priority[s] < SelfPriority
ASSUME ServicesAssumption ==
  /\ 0 \in ServiceIds
  /\ SourceOf \in [Tasks -> ServiceIds]
ASSUME SizesAssumption ==
  /\ Sizes \subseteq Nat \ {0}
  /\ StreamBytes \in Nat /\ QueueBytes \in Nat \ {0} /\ MaxSends \in Nat

VARIABLES
  owner,      \* holder of the output stream's mutex, or NoTask
  writer,     \* stream->writer: bytes built and not sent
  out,        \* the message in the stream's buffer until it is sent
  queue,      \* the frames between the indices of self_com_queue
  used,       \* the bytes they take
  msgCnt,     \* the message count of the queue
  cached,     \* the count a push or a pop has loaded
  event,      \* the notification bit of selfcom_thread
  pc,         \* where each task is
  message,    \* the message a task is to send, or has received in rx_buff
  callbacks,  \* the ids with a callback in cb_table
  clobbered,  \* the local the second byte of the length falls on
  \* histories
  sends,      \* number of calls of session_manager_send
  accepted,   \* messages the queue took
  handled,    \* messages rx_confirmation passed on
  merged      \* notifications that found the bit set already

stream == <<owner, writer, out>>
fifo == <<queue, used, msgCnt>>
table == <<callbacks, clobbered>>
vars == <<stream, fifo, cached, event, pc, message, table, sends, accepted, handled, merged>>

Messages == [src : ServiceIds, des : ServiceIds, len : Nat]
NoMessage == [src |-> 0, des |-> 0, len |-> 0]

HeaderBytes == 4                   \* src_id, des_id and the size
FrameBytes(m) == m.len + 1         \* with the queue's header for a short message

(* After session_manager_init.  Which local variable lies behind           *)
(* payload_len is the compiler's choice.                                   *)
Init ==
  /\ owner = NoTask /\ writer = 0 /\ out = NoMessage
  /\ queue = <<>> /\ used = 0 /\ msgCnt = 0
  /\ cached = [t \in Tasks |-> 0]
  /\ event = FALSE
  /\ pc = [t \in Tasks |-> IF t = SelfTask THEN "wait" ELSE "idle"]
  /\ message = [t \in Tasks |-> NoMessage]
  /\ callbacks = {}
  /\ clobbered \in {"padding", "src", "des"}
  /\ sends = 0 /\ accepted = <<>> /\ handled = <<>> /\ merged = 0

PriorityOf(t) == IF t = SelfTask THEN SelfPriority ELSE Priority[t]

(* A task that waits for a mutex, a notification or an event of its own is *)
(* not ready.                                                              *)
Ready(t) ==
  CASE pc[t] = "idle" -> FALSE
    [] pc[t] = "wait" -> event
    [] pc[t] = "lock" -> owner = NoTask
    [] OTHER -> TRUE

Runs(t) == \A u \in Tasks : Ready(u) => PriorityOf(u) <= PriorityOf(t)
At(t, place) == pc[t] = place /\ Runs(t)
Goto(t, place) == pc' = [pc EXCEPT ![t] = place]

(* session_manager_send returns to the service, or to the callback that    *)
(* called it.                                                              *)
Home(t) == IF t = SelfTask THEN "callback" ELSE "idle"

-----------------------------------------------------------------------------
(* session_set_on_topic: an id keeps the first callback it is given.       *)
SetOnTopic(s, id) ==
  /\ At(s, "idle")
  /\ id \notin callbacks
  /\ callbacks' = callbacks \cup {id}
  /\ UNCHANGED <<stream, fifo, cached, event, pc, message, clobbered,
                 sends, accepted, handled, merged>>

-----------------------------------------------------------------------------
(* session_manager_send.                                                   *)

SendCall(t, des, size) ==
  /\ At(t, Home(t))
  /\ sends < MaxSends
  /\ sends' = sends + 1
  /\ message' = [message EXCEPT ![t] = [src |-> SourceOf[t], des |-> des, len |-> size]]
  /\ Goto(t, "lock")
  /\ UNCHANGED <<stream, fifo, cached, event, table, accepted, handled, merged>>

(* Mutant (not the code's, a mistake the properties must notice): the      *)
(* stream is taken whoever has it.                                         *)
LockStreamAlways(t) ==
  /\ pc[t] = "lock" /\ \A u \in Tasks \ {t} : Ready(u) => PriorityOf(u) <= PriorityOf(t)
  /\ owner' = t
  /\ Goto(t, "build")
  /\ UNCHANGED <<writer, out, fifo, cached, event, message, table,
                 sends, accepted, handled, merged>>

LockStream(t) ==
  /\ At(t, "lock")
  /\ owner = NoTask
  /\ owner' = t
  /\ Goto(t, "build")
  /\ UNCHANGED <<writer, out, fifo, cached, event, message, table,
                 sends, accepted, handled, merged>>

(* Mutant: the return without room forgets the mutex.                      *)
BuildKeepsLock(t) ==
  /\ At(t, "build")
  /\ LET future == writer + message[t].len + HeaderBytes
         fits == future <= StreamBytes IN
     /\ writer' = IF fits THEN future ELSE writer
     /\ out' = IF fits THEN [message[t] EXCEPT !.len = future] ELSE out
     /\ Goto(t, IF fits THEN "push" ELSE Home(t))
  /\ UNCHANGED <<owner, fifo, cached, event, message, table, sends, accepted, handled, merged>>

(* Mutant: no look at the room in the stream's buffer.                     *)
BuildUnchecked(t) ==
  /\ At(t, "build")
  /\ writer' = writer + message[t].len + HeaderBytes
  /\ out' = [message[t] EXCEPT !.len = writer']
  /\ Goto(t, "push")
  /\ UNCHANGED <<owner, fifo, cached, event, message, table, sends, accepted, handled, merged>>

(* uxr_prepare_best_effort_buffer_to_write and the serialisation, when     *)
(* there is room in the stream's buffer; its length is what is sent.       *)
Build(t) ==
  /\ At(t, "build")
  /\ LET future == writer + message[t].len + HeaderBytes
         fits == future <= StreamBytes IN
     /\ writer' = IF fits THEN future ELSE writer
     /\ out' = IF fits THEN [message[t] EXCEPT !.len = future] ELSE out
     /\ Goto(t, IF fits THEN "push" ELSE "unlock")
  /\ UNCHANGED <<owner, fifo, cached, event, message, table, sends, accepted, handled, merged>>

(* Mutant: the writer is not set back to the start of the buffer.          *)
PushKeepsWriter(t) ==
  /\ At(t, "push")
  /\ UNCHANGED writer /\ out' = NoMessage
  /\ LET fits == used + FrameBytes(out) < QueueBytes IN
     /\ queue' = IF fits THEN Append(queue, out) ELSE queue
     /\ used' = IF fits THEN used + FrameBytes(out) ELSE used
     /\ accepted' = IF fits THEN Append(accepted, message[t]) ELSE accepted
     /\ cached' = IF fits THEN [cached EXCEPT ![t] = msgCnt] ELSE cached
     /\ Goto(t, IF fits THEN "count" ELSE "unlock")
  /\ UNCHANGED <<owner, msgCnt, event, message, table, sends, handled, merged>>

(* uxr_prepare_best_effort_buffer_to_send, then send_self_com_msg pushes   *)
(* the buffer, if the ring keeps a byte free; the frame is in the ring and *)
(* the count is loaded.  The result is not looked at.                      *)
Push(t) ==
  /\ At(t, "push")
  /\ writer' = 0 /\ out' = NoMessage
  /\ LET fits == used + FrameBytes(out) < QueueBytes IN
     /\ queue' = IF fits THEN Append(queue, out) ELSE queue
     /\ used' = IF fits THEN used + FrameBytes(out) ELSE used
     /\ accepted' = IF fits THEN Append(accepted, message[t]) ELSE accepted
     /\ cached' = IF fits THEN [cached EXCEPT ![t] = msgCnt] ELSE cached
     /\ Goto(t, IF fits THEN "count" ELSE "unlock")
  /\ UNCHANGED <<owner, msgCnt, event, message, table, sends, handled, merged>>

Count(t) ==
  /\ At(t, "count")
  /\ msgCnt' = cached[t] + 1
  /\ cached' = [cached EXCEPT ![t] = 0]
  /\ Goto(t, "notify")
  /\ UNCHANGED <<stream, queue, used, event, message, table,
                 sends, accepted, handled, merged>>

(* Mutant: no notification when the task has one already to come back to.  *)
NotifyUnlessBusy(t) ==
  /\ At(t, "notify")
  /\ event' = (pc[SelfTask] = "wait")
  /\ merged' = IF event THEN merged + 1 ELSE merged
  /\ Goto(t, "unlock")
  /\ UNCHANGED <<stream, fifo, cached, message, table, sends, accepted, handled>>

(* xTaskNotify sets a bit, which may be set already.                       *)
Notify(t) ==
  /\ At(t, "notify")
  /\ event' = TRUE
  /\ merged' = IF event THEN merged + 1 ELSE merged
  /\ Goto(t, "unlock")
  /\ UNCHANGED <<stream, fifo, cached, message, table, sends, accepted, handled>>

UnlockStream(t) ==
  /\ At(t, "unlock")
  /\ owner' = NoTask
  /\ message' = [message EXCEPT ![t] = NoMessage]
  /\ Goto(t, Home(t))
  /\ UNCHANGED <<writer, out, fifo, cached, event, table, sends, accepted, handled, merged>>

-----------------------------------------------------------------------------
(* selfcom_func and session_manager_rx_confirmation.                       *)

(* Mutant: the bit stays set while the task works.                         *)
WakeKeepsBit ==
  /\ At(SelfTask, "wait")
  /\ event
  /\ Goto(SelfTask, "confirm")
  /\ UNCHANGED <<stream, fifo, cached, event, message, table, sends, accepted, handled, merged>>

(* xTaskNotifyWait clears the bit.                                         *)
Wake ==
  /\ At(SelfTask, "wait")
  /\ event
  /\ event' = FALSE
  /\ Goto(SelfTask, "confirm")
  /\ UNCHANGED <<stream, fifo, cached, message, table, sends, accepted, handled, merged>>

(* recv_self_com_msg: nothing when the count is 0, else lqueue_pop takes   *)
(* one message and has the count in hand.  The lock of the input stream,   *)
(* which only this task takes, is left out.                                *)
Pop ==
  /\ At(SelfTask, "confirm")
  /\ IF msgCnt = 0
     THEN Goto(SelfTask, "wait") /\ UNCHANGED <<queue, used, message, cached>>
     ELSE /\ queue' = Tail(queue)
          /\ used' = used - FrameBytes(Head(queue))
          /\ message' = [message EXCEPT ![SelfTask] = Head(queue)]
          /\ cached' = [cached EXCEPT ![SelfTask] = msgCnt]
          /\ Goto(SelfTask, "popped")
  /\ UNCHANGED <<stream, msgCnt, event, table, sends, accepted, handled, merged>>

PopCount ==
  /\ At(SelfTask, "popped")
  /\ msgCnt' = cached[SelfTask] - 1
  /\ cached' = [cached EXCEPT ![SelfTask] = 0]
  /\ Goto(SelfTask, "deliver")
  /\ UNCHANGED <<stream, queue, used, event, message, table,
                 sends, accepted, handled, merged>>

(* What is read from the head of the message.  The length has two bytes    *)
(* and is read into one: the second, 0, falls on whatever lies behind.     *)
Decoded(m) ==
  [src |-> IF clobbered = "src" THEN 0 ELSE m.src,
   des |-> IF clobbered = "des" THEN 0 ELSE m.des,
   len |-> (m.len - HeaderBytes) % 256]

(* The callback of the destination is called, when there is one.           *)
Deliver ==
  /\ At(SelfTask, "deliver")
  /\ LET m == Decoded(message[SelfTask]) IN
     /\ handled' = Append(handled, m)
     /\ Goto(SelfTask, IF m.des \in callbacks THEN "callback" ELSE "wait")
  /\ message' = [message EXCEPT ![SelfTask] = NoMessage]
  /\ UNCHANGED <<stream, fifo, cached, event, table, sends, accepted, merged>>

CallbackReturns ==
  /\ At(SelfTask, "callback")
  /\ Goto(SelfTask, "wait")
  /\ UNCHANGED <<stream, fifo, cached, event, message, table, sends, accepted, handled, merged>>

-----------------------------------------------------------------------------
SendStep(t) ==
  LockStream(t) \/ Build(t) \/ Push(t) \/ Count(t) \/ Notify(t) \/ UnlockStream(t)

ReceiveStep == Wake \/ Pop \/ PopCount \/ Deliver \/ CallbackReturns

Next ==
  \/ \E t \in Tasks :
       SendStep(t) \/ \E des \in ServiceIds, size \in Sizes : SendCall(t, des, size)
  \/ \E s \in Senders, id \in ServiceIds : SetOnTopic(s, id)
  \/ ReceiveStep

Spec == Init /\ [][Next]_vars

(* The scheduler runs the task that Runs names, and callbacks return.      *)
FairSpec == Spec /\ WF_vars(ReceiveStep) /\ \A t \in Tasks : WF_vars(SendStep(t))

-----------------------------------------------------------------------------
(* Properties.                                                             *)

Count1(P) == IF P THEN 1 ELSE 0
TasksAt(places) == Cardinality({t \in Tasks : pc[t] \in places})

(* Type invariant: nothing is built behind the stream's buffer, and a byte *)
(* of the ring stays free.                                                 *)
TypeOK ==
  /\ owner \in Tasks \cup {NoTask}
  /\ writer \in 0 .. StreamBytes /\ out \in Messages
  /\ queue \in Seq(Messages) /\ used \in Int /\ used < QueueBytes
  /\ msgCnt \in Int
  /\ cached \in [Tasks -> Int]
  /\ event \in BOOLEAN
  /\ pc \in [Tasks -> {"idle", "wait", "lock", "build", "push", "count", "notify", "unlock",
                       "confirm", "popped", "deliver", "callback"}]
  /\ message \in [Tasks -> Messages]
  /\ callbacks \subseteq ServiceIds /\ clobbered \in {"padding", "src", "des"}
  /\ sends \in Nat /\ merged \in Nat
  /\ accepted \in Seq(Messages) /\ handled \in Seq(Messages)

(* A push and a pop never overlap, although nothing but the priorities and *)
(* the stream's mutex keeps them apart: no sender can be between its load  *)
(* and its store of the count while the transport's task is between its    *)
(* own.  So the count is that of the frames between the indices.  A sender *)
(* of a priority above the transport's task would break this.              *)
CountExact ==
  /\ ~ (pc[SelfTask] = "popped" /\ \E t \in Tasks : pc[t] = "count")
  /\ msgCnt + TasksAt({"count"}) = Len(queue) + TasksAt({"popped"})

(* A notification delivers one message, and a notification that finds the  *)
(* bit set is lost: the queue holds one message for each lost notification *)
(* for good, besides those whose notification is still to come or under    *)
(* way.  So each message is delivered `merged` messages late.              *)
Backlog ==
  Len(queue) = merged + Count1(event) + TasksAt({"count", "notify", "confirm"})

(* The messages reach the callbacks in the order in which the queue took   *)
(* them, each with its length and, unless the compiler's layout of the     *)
(* local variables loses them, its source and destination.                 *)
HandledInOrder ==
  /\ Len(handled) <= Len(accepted)
  /\ \A i \in 1 .. Len(handled) :
       /\ handled[i].len = accepted[i].len
       /\ clobbered # "src" => handled[i].src = accepted[i].src
       /\ clobbered # "des" => handled[i].des = accepted[i].des

(* Whoever waits for the stream gets it, also a callback on the            *)
(* transport's task that sends in turn.                                    *)
LockGranted == \A t \in Tasks : (pc[t] = "lock") ~> (pc[t] # "lock")

(* The queue is emptied to the messages whose notifications were lost.     *)
DrainsToBacklog == (Len(queue) > merged) ~> (Len(queue) <= merged)
=============================================================================
