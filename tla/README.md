# rot_dds in TLA+

A model of rot_dds, a small publish/subscribe middleware for microcontrollers
(FreeRTOS and ChibiOS): services send messages to service ids, the session
manager puts them on a stream, a transport carries them to a task of the same
controller, over CAN or over a UART, and the receiving side calls back the
service registered for the destination id. The modules below are translated
from the C code; TLC checks them on small instances, and TLAPS proves the most
important properties for every value of the constants.

## 1. Inventory

Two builds exist. `CMakeLists.txt` (FreeRTOS) compiles `cancom_transport.c`,
`selfcom_transport.c`, `session_manager.c`, the streams, Micro CDR and
`ping.c`; `dds.mk` (ChibiOS) takes `cancom_tp.c` for the CAN transport and no
`ping.c`. `session.c`, `write_access.c`, `read_access.c` and the
`create_entities_*.c` are in neither: the session manager uses the streams
directly.

| Component (source) | State | Operations | What is hard | What makes it correct |
|---|---|---|---|---|
| **lqueue** (`lqueue.c`) | a byte ring, write index, read index, message count | init, empty, push, pop, pop without reading, front, back, sizes, search | frames wrap anywhere, a header of 1 to 3 bytes; the critical-section macros are empty | frames stay whole, in order, and are accounted for by the count; pop returns what push stored |
| **CAN transport, FreeRTOS** (`cancom_transport.c`) | two lqueues, notification bits, callbacks; in the controller three mailboxes and two receive FIFOs | send, receive, transport task, interrupt callbacks, error restart, registration | interrupts switched off and on around a drain, notifications that merge, full mailboxes, bus errors, start-up order | no wake-up lost, no frame forgotten, one delivery per frame |
| **CAN transport, ChibiOS** (`cancom_tp.c`) | the same, with ChibiOS mutexes and events | the same | pushes without the lock, a mutex released by a task that does not own it, merged events | as above |
| **Self transport** (`selfcom_transport.c`) | one lqueue, a receive buffer, a notification bit | send, receive, transport task, init, close | one pop per notification, notifications merge, push and pop unlocked | every message is delivered, in order |
| **Session manager** (`session_manager.c`, `session_manager_config.c`) | a descriptor per session, streams, the callback table | init, set callback, send, rx confirmation | locks around transport calls, callbacks that send | a message reaches the callback of its destination id, unchanged |
| **Stream storage, best-effort streams** (`stream_storage.c`, `*_best_effort_stream.c`) | arrays of streams, a writer's buffer and sequence number | add, get, reset, prepare, receive | no bound on additions | streams stay distinct, numbers grow |
| **Reliable streams** (`*_reliable_stream.c`) | history slots, last written / sent / acknowledged / handled / announced | prepare, send, heartbeat, acknack, receive, fragments | lost, duplicated, delayed datagrams; wrap at 2^16; slot reuse | delivery once and in order |
| **Sequence numbers** (`seq_num.c`) | none | add, sub, cmp modulo 2^16 | wrap and half range | a strict order inside any window |
| **Session loop** (`session.c`, `session_info.c`, `ping.c`, `time.c`) | session info, request and status lists, time-outs | create, delete, run until, flush, sync, ping | time-outs against a clock that stands still, retries, request ids that wrap | a status is given to the request it answers |
| **Write and read access** (`write_access.c`, `read_access.c`) | stream buffer, continuous-write arguments | prepare, fragment, continue | locks kept over calls | the stream is released |
| **Micro CDR** (`CDR/`) | buffer iterator, offset, error flag, full-buffer callback | init, align, serialise, deserialise | moving to the next fragment in the middle of an array | no access outside the buffer; what is read is what was written |
| Locks (`multithread.c`), headers and ids, entity creation, topic matching, generated XRCE types | none of their own | conversions, forwarding to the RTOS | - | - |

How they interact: `session_manager_send` locks the output stream, builds the
message in its buffer and calls `send_msg` of the transport, which pushes it on
an lqueue and notifies the transport task. That task, or an interrupt callback
before it, brings received frames to an lqueue and calls
`session_manager_rx_confirmation`, which calls back into `recv_msg` for one
message and dispatches it through the callback table.

The hazards, with their lines, are the list `hazards` of `PROJECT.json`; each
names the properties that cover it or says why none does.

## 2. Modules

| Module | Models | Proofs |
|---|---|---|
| `MsgFifo` | what lqueue promises: a FIFO of whole messages, accounted in bytes | |
| `LQueue` | `lqueue.c`, one call at a time; implements `MsgFifo` | `LQueueProofs` |
| `LQueueRace` | `lqueue_push` and `lqueue_pop` of several tasks, load by load and store by store | `LQueueRaceProofs` |
| `CanTransport` | `cancom_transport.c` with the controller, its interrupts and the senders | `CanTransportProofs` |
| `CanTp` | `cancom_tp.c`, the transport of the ChibiOS build | `CanTpProofs` |
| `SelfSession` | `session_manager.c` over `selfcom_transport.c`, from a send to the callback of its destination | `SelfSessionProofs` |
| `SeqNum` | `seq_num.c` | `ReliableLinkProofs` |
| `ReliableChannel` | what a pair of reliable streams promises | |
| `ReliableLink` | both reliable streams and the network between them; uses `SeqNum`, implements `ReliableChannel` | `ReliableLinkProofs` |
| `Session` | the session of a client with its agent: `session.c`, `session_info.c`, `ping.c` | `SessionProofs` |
| `Cdr` | the buffers of Micro CDR | `XrceCodecProofs` |
| `XrceTypes` | the wire form of every type of `xrce_types.c` | `XrceCodecProofs` |
| `XrceCodec` | every call that writes or reads a message; uses `Cdr` and `XrceTypes` | `XrceCodecProofs` |

The `MC` modules (`MCLQueue`, `MCLQueueRace`, `MCSelfSession`, `MCReliableLink`,
`MCSession`, `MCXrceCodec`) hold the values of constants that a `.cfg` cannot
write; the CAN modules need none.

### MsgFifo and LQueue

`LQueue` keeps the context block as it is: `buffer`, `writeIndex`, `readIndex`,
`msgCnt`. `result` is the return code and the output buffer of the last call.
`queued` is a history of the messages stored, each with its distance from
`readIndex`; no action reads it.

* `PushStored`, `PushRefused` are `lqueue_push`, with `HeaderSize` and
  `EncodeLength` for `encodeLength` and `calcFreeSpace` for the macro.
* `PopTaken`, `PopTooSmall`, `PopEmpty` are `lqueue_pop`, with `DecodeLength`
  for `decodeLength`; `PopNoread` is `lqueue_pop_noread`.
* `Empty` and `ReInit` are `lqueue_empty` and a second `lqueue_init`.
* `Front`, `Back` and `ElementExists` are the calls that only read; `Front`
  also stands for `lqueue_fsize`, `FreeSpace` for `lqueue_bfree`.

A byte is a number below `4 * Short`, two command bits and `Short` values; the
code has `Short = 64`. A smaller `Short` gives headers of all three sizes on a
ring TLC can explore; the proofs leave it open. The null-pointer checks are
left out: every caller passes its own static context block and buffers.

`MsgFifo` is the abstract specification. The refinement maps `queue` to the
messages of `queued` and `used` to the distance of the indices.

### LQueueRace

Each task runs its call as a sequence of steps (`pc`) over cached local
variables (`cached`), as the C code does. `Guarded` names the calls that the
callers put in a critical section: `cancom_transport.c` does it for both,
`selfcom_transport.c` for neither. All frames have the same size, so pop does
not decode a length. `msgCnt++` is a load (`PushLoad`) and a store
(`PushStore`); pop stores its cached count minus one (`PopStore`). `pushed` and
`popped` are histories.

### CanTransport

A queue call is one step here, because every one is inside
`portENTER_CRITICAL`; `LQueueRace` shows that this is what the section gives.
`QueueRoom` is the number of frames a queue of 64 bytes holds (all frames have
the size of a full CAN frame).

* `SendPush`, `SendNotify` are `send_can_msg`: the push, and the notification
  after the critical section. A full queue changes nothing and is no step.
* `Arrive`, `RxPending`, `TxComplete`, `BusFails` are the controller and its
  interrupt callbacks. Each RX callback switches its own interrupt off.
* `Wake` is `xTaskNotifyWait`, which takes all the bits at once; the task then
  goes through them in the order of the `if`s in `can_tpTask` (`First`).
* `TxPop`, `TxDone` are the loop of `request2send`; `TxMail`, `TxNoMailbox`,
  `TxResetError`, `TxRestart` are `send_message`, with the second of
  `vTaskDelay` between the last two, in which everything else may run.
* `RxRead`, `RxDrained` are the loop of `process_rx_fifo`, `RxConfirm` is the
  call back through the session manager into `recv_can_msg`, `RxRearm` is
  `HAL_CAN_ActivateNotification`.
* `Register` is the registration by `session_manager_init`, which comes after
  `can_transport_init` has created the task and started the controller.

`accepted`, `mailed`, `dropped`, `arrived`, `errors` and `early` are histories
and bounds. What the controller and the HAL do is external: a restart may or
may not forget the mailboxes, and may fail, in which case the error is set.
`RxRearm` always succeeds: that the HAL refuses `HAL_CAN_ActivateNotification`
and `HAL_CAN_GetRxFifoFillLevel` (`cancom_transport.c:270`, `275`) while it is in
error after a restart that failed is not modelled, so the receive properties say
nothing of a controller that never starts again.

### CanTp

The ChibiOS transport differs from the FreeRTOS one where it is interesting: a
sender pushes without a lock, and its task has a low priority, so a push can
fall between any two steps of the task's pop. `PopCache`, `PopFrame` and
`PopCount` are that pop, with the count it caches and stores; `Send` is
`send_can_msg` with its event, one step because the senders run above the task
and the session manager lets only one of them send at a time. `can_tx_mtx` is
taken by nobody but the task and so excludes nobody. `Receive` and
`ReceiveSignal` are `receive_can_frame`, `RxConfirm` the call back into
`recv_can_msg`; `can_rx_mtx` makes their queue calls one step each. The events
`TX_CONFIRM_EVENT` and the FIFO events are never signalled and have no action.
`overwritten`, `merged` and `unheard` count, as histories, what makes frames
stay behind.

### SelfSession

A send runs through `SendCall`, `LockStream`, `Build`, `Push`, `Count`, `Notify`
and `UnlockStream`: the lock of the output stream, the message built in its
buffer, the push on `self_com_queue`, the update of its count, the notification
and the unlock. `Wake`, `Pop`, `PopCount`, `Deliver` and `CallbackReturns` are
`selfcom_func`, `recv_self_com_msg` and `session_manager_rx_confirmation`. A
callback may send in turn, on the transport's task. `Runs` is the scheduler: of
the ready tasks one of the highest priority runs. The queue calls are outside of
critical sections in this transport, so push and pop have their count in a step
of its own; `LQueueRace` has them finer.

`session_manager_rx_confirmation` reads two bytes of length into a variable of
one byte. `clobbered` is where the compiler put what the second byte falls on:
padding, the source or the destination. A message the full queue refuses is
reported as sent. The lock of the input stream is left out: only the
transport's task takes it. `session_set_on_topic` may come at any time, as
services start in any order.

### SeqNum, ReliableLink and ReliableChannel

`out` and `in` are the slots of the two streams, a slot with the messages and
pieces it holds. `Write` is `uxr_prepare_reliable_buffer_to_write` with its
three places for a message: behind others in the current slot (`WriteCurrent`),
in a new one (`WriteNew`), in fragments (`WriteFragments`). `Flush` sends what
has not been sent, `ArmHeartbeat` and `SendHeartbeat` are the heartbeat of an
output stream with unacknowledged slots, `HeartbeatDue` its condition, `Arrive`
is `read_message` for a datagram or a heartbeat, with the ACKNACK it makes, and
`ProcessAckNack` its processing with the retransmission it asks for. The network
is external: it loses and duplicates what the writer sends, delivers it in any
order and loses ACKNACKs. It keeps the order of the ACKNACKs, as a CAN bus or a
serial line does.

Each wait for a message moves the time of the next heartbeat to a full interval
from its beginning (`output_reliable_stream.c:212`), so a heartbeat is sent only
when a single wait took that long, and by the clock of this repository, which
stands still (`time.c:74`), never. How long a wait takes is not modelled: with
`ClockRuns` a heartbeat may be due at any wait or at none, for ever. That
includes every behaviour of the clock that stands still, so what is shown with
`ClockRuns = TRUE` holds for it too; no heartbeat is ever promised.

A datagram carries the stream and its number, for which the streams are built,
although the headers of this repository (`xrce_header.c`) leave both out. The
same holds for the header of a fragment, which `FragmentHeaders` switches:
`reliable_fragments` has it as the code is. In `reliable_link` lengths are such
that no fragmented message begins in a slot that holds a whole one, where the
reader would not find it. A piece carries whether it
is the first of its message (`begins`): put together from the first on, the
pieces are the message, and anything else that is read from them is `Garbage`.

`ReliableChannel` is the abstract specification: messages written and not yet
read, each read once, whole and in order. The refinement maps `pending` to the
messages that end in the slots from the reader's number on, each slot taken from
the reader once it is acknowledged and from the writer before that.

### Session

One action per function of the session: `BufferRequest` stands for the
`uxr_buffer_*` functions, the calls of the loop set the flags they wait for and
`Listen` and `ListenTimesOut` are one turn of `listen_message_reliably`, with
the reading of the datagram (`read_submessage`), the condition of the loop
(`Done`), the next attempt and the return (`Step`, `Return`). A call waits with
`call`, the function and its attempts; the callbacks that may run while it
listens write requests of their own. What reliable streams do about losses is
left to `ReliableLink`: here a number is read once and in order. A datagram that
is never read is a lost one, and retries make duplicates. The agent is external;
it acts only while a call runs, which loses nothing as nothing reads before.

Two constants say how far the code is what its documentation describes.
`HeaderHasStream = FALSE` is the message header of this repository, which has no
stream: every datagram goes to `read_custom_data` and no status is ever
processed. The run has the stream the session was written for; the same goes for
the request ids, which `xrce_types.c:1610` no longer writes. `ClockRuns = FALSE`
is `time.c` as it is built here: the clock stands still and no deadline
(`Deadlines`) is ever over, so that a call whose answer is lost never returns.
With `ClockRuns = TRUE`, as in the run, a deadline may be over after any round or
after none, for ever; that includes every behaviour of the clock that stands
still, and nothing is promised that needs a deadline.

`Callbacks` are those that are registered: data is passed on, and
`on_data_flag` set, only for these (`Noted`), and only from these a request can
be written. `Publications` is what the agent has data for. The run registers the
callbacks of a reply and of a status and not that of a topic.

`ambiguous` and `quiet` are histories that name what the properties exclude:
a request whose id an older request still had (after `UINT16_MAX` ids, or after
a login started the ids anew), and a login or logout that began while datagrams
of an earlier one were still on their way.

### Cdr, XrceTypes and XrceCodec

A `ucdrBuffer` is a record: the slots of memory, the slot and the place of the
iterator, the offset alignment is computed from, the size of the last access,
the error and the callback of a full slot. Bytes are not modelled, but where
each operation puts them or takes them from: `ValuePlaces`, `ArrayPlaces`. A
value read is the value written if it was taken from the same places and in the
same byte order. The functions for the sizes, byte orders and types that macros
generate are one definition each, with the size as parameter.

`XrceTypes` has the serialised form of every type as a sequence of nodes: a
number, raw bytes, a sequence with the capacity of the receiver, an optional
field, a tagged union, a list. Where the serialising function of a type and its
deserialising function differ (object ids, request ids, the properties of the
agent) `Only` says which does what.

`XrceCodec` interprets the forms. `BeginBuffered`, `BeginOwnBuffer`, `BeginBlob`
and `EndBlob` are the calls of the client with the values they write and the
bytes they reserve; the stream cuts the slots to that (`StreamBuffers`).
`BeginReceived` is a message of the agent, with any lengths, options, formats,
also such that do not fit the client's structures. The `Put` and `Get` actions
write and read the node at hand; a value that no longer fits its buffer sets the
error and is not written, so it does not appear in `written`. An agent whose
message has no room left does not start another buffer behind the error
(`AlignOrRebase`): its message does not arrive.

`foreign` is the byte order of the buffer, when it is not the machine's. The
agent chooses it for each submessage, `SetOrder` is what
`uxr_read_submessage_header` makes of the flag. It does not last: a buffer that
goes on in the next slot is initialised anew, in the machine's order
(`on_full_input_buffer`, `StillForeign`), and so are the buffers each callback
gets for its data. Where a value is split, most functions look the order up
after that and so read its bytes in the wrong order, the right places. Those for
sequences and strings were given it before, and take the length byte by byte
from the end, but in the first slot one byte more than there is and in the next
one from where the value would have begun (`basic.c:206-219`, `SwappedPlaces`).
`Trusting` names what is left to count on: the machine's order in all slots, or
the other one in the first. The sample identity and the data of a user are taken
to be in the machine's order, as the code reads them so whatever the flag says.
Two branches are never reached and not modelled: writing in the other order
(`basic.c:86-98`), since no caller sets it, and the arrays that are converted
element by element (`array.c:101-107`, `142-148`), since those of XRCE are of
bytes.

What the session does with data depends on the object they are for
(`read_format_data`). `TOPIC`, `REQUEST` and `REPLY` of `AgentCalls` are what the
callback of a reader, a replier and a requester reads, in its own buffer.
`DataHeartbeat` and `ReplyHeartbeat` are what the session itself does: it advances
by the length of the data, and if they are for a requester by that length twice
(`read_access.c:241` and `253`, `Jumped`), so that the heartbeat behind a reply
is not found where it is. `Trusting` leaves that case out, as the code gets it
wrong. What the session goes on to do with the bytes it takes for a submessage is
not followed beyond that. The two skips are modelled for one datagram; the first of
them moves the iterator without looking for the end of a slot.

The constants are what the code
takes for granted: an array of a user's type has a byte, and no message is as long
as a size that has wrapped (`BlocksAssumption`).

## 3. Runs

| Run | Question | Instance | Result |
|---|---|---|---|
| `lqueue` | Do frames stay whole and in order, do the readers agree, is it a FIFO? | 20 bytes, `Short = 2`, messages of 0, 1, 15, 16 and 64 bytes, read buffers of 2 and 16 | holds |
| `lqueue_back` | Does `lqueue_back` read the last message? | the same | violated |
| `lqueue_guarded` | Are critical sections enough for two pushers and a popper? | 5 bytes, frames of 2, 5 messages | holds |
| `lqueue_unguarded` | Are they unnecessary for one pusher and one popper? | the same, one pusher | violated |
| `can_transport` | Is every wake-up kept, every frame accounted for, do the queues always empty? | 2 senders, queues of 2, FIFOs and mailboxes of 1, 2 frames out and 3 in, one bus error | holds |
| `can_mailbox` | Do frames wait for a free mailbox? | the sizes of the target: queue of 5, three mailboxes, 4 frames | violated |
| `can_tp` | Which frames does the ChibiOS transport leave behind, and does it lose any? | queues of 4, 6 frames out and 5 in | holds |
| `self_session` | Do messages between tasks arrive, in order and how late? Is every lock granted? | services of priority 1 and 5 below the transport's 10, payloads of 26, 58 and 253 bytes, a stream of 256, a queue of 64, 3 sends | holds |
| `reliable_link` | Do the reliable streams deliver each message once, whole and in order, whatever is lost? | numbers that wrap at 8, two slots of 12 bytes, messages of 8 and 16 bytes, 2 faults, one ACKNACK in flight, heartbeats at any time or never | holds |
| `reliable_fragments` | Is a fragmented message put together again? | the same, without fragment headers | violated |
| `session` | Is each call answered by what belongs to it, and does an answered call return? | 2 calls, 2 requests with ids 3 and 4, 2 attempts, one publication, one datagram late, deadlines at any time or never | holds |
| `codec` | Do the bytes reserved suffice, is what is read what was written, is nothing read beyond its room? | strings and samples of none, 3 and 4 bytes, the last too long; lists of one; first slots of 1, 4 and 14 bytes, then of 8 or 9; both byte orders; data of 5 bytes | holds |

Why the bounds are enough. On the 20-byte ring the frames take 2, 17 and 19
bytes, with headers of one, two and three bytes: 19 fills the ring to its last
usable byte, and the mixture of even and odd sizes puts the indices on every
offset, so that every header and every message wraps at every place. 64 bytes
have no encoding, 15 and 16 do not fit the smaller read buffer. Five bytes and
frames of two make frames wrap in their middle, and five messages let the
indices go round twice.

In `can_transport` two early frames fill the receive queue and a third finds it
full; a frame in the only mailbox makes it busy while another one follows; a bus
error can come at any of them. Its safety properties are proved for all sizes.
In `can_tp` six frames are enough for a push into each step of a pop, with
frames before and behind it, and five for two merged events and two early ones;
the property is proved for all sizes as well. In `self_session` two frames of 26
bytes fit the queue, a frame of 58 fills it and a third message finds it full;
253 bytes of payload make a message that the stream does not take with its
header. In `reliable_link` eight numbers wrap within a behaviour that fills the
slots several times; writing is not bounded. A message of 16 bytes takes both
slots. Two faults are a loss and the loss of what repairs it. In `session` a
login between two requests starts the ids anew, so the second gets the id of the
first; the wrap behind the last id, which does the same, would take a third
request. Two calls are a call and one that finds what the first has left behind.
In `codec` the first slot has room for four bytes, for one or for fourteen, and
the blocks of eight and nine put the border of two slots at every place of a
value, aligned and not; fourteen bytes hold whole values in the other byte order
and then a length that is split. Five bytes of data put what follows them at an
offset that is not aligned, and a second skip of as many into the middle of it.

Deadlock is checked for the queues and for `reliable_link`. It is not for the
others, which rightly stop when the bounded sends, arrivals and calls are used
up, or the message is complete.

Fairness. In `can_transport` the transport task has priority 11, above the self
transport's, and blocks only in `xTaskNotifyWait` and `vTaskDelay`, so it goes
on when it can (`TaskStep`); an active pending interrupt is served
(`RxPending`); a sender that pushed returns from its critical section and
notifies (`SendNotify`). Nothing is assumed of the bus: frames need not arrive,
mailboxes need not become free, and the registration need not come. Arrivals are
bounded by `MaxRx`; on a bus that never pauses `process_rx_fifo(0)` need not
end, and `FifoDrained` says nothing of that case. In `self_session` the task the
scheduler runs takes its next step, and callbacks return. In `reliable_link`
the peers go on calling the run loop, so that what has arrived is read
(`ProcessAckNack`), and the network does not pass over its oldest datagram for
ever. Nothing is assumed of the heartbeats, for the reasons above: a writer that
never sends one is a fair behaviour. Faults are bounded, losses of ACKNACKs
included. In `session` the running call goes on listening (`ListenSome`), what is
on its way arrives, and the agent takes it (`AgentStep`); the clock need not
advance, so no deadline need ever come.

### What the properties say

* `FramesInOrder`, `FramesIntact`: the frames of the queued messages follow
  each other from `readIndex` to `writeIndex` without gap or overlap, as many as
  `msgCnt` says, with the bytes that were pushed.
* `ReadersAgree`: `lqueue_front` and `lqueue_check_element_exists`, each with
  index arithmetic of its own, find what is stored.
* `FifoSpec`: every step is a step of `MsgFifo`.
* `FramesCounted`, `PopsInOrder`: with no call under way the count equals the
  frames between the indices; pops hand out what was pushed, in order, once.
* `RxWakeupPending`: the pending interrupt of a FIFO is active, or an event for
  that FIFO is pending or under way. `TxWakeupPending`: the same for a frame in
  the transmit queue and its notification.
* `TxAccounted`: the frames not yet mailed are the last ones accepted, in order;
  those before them were mailed or dropped, never both.
* `RxLag`: the receive queue holds exactly the frames that came before the
  registration, and one more during a confirmation. So each delivery is that
  many frames late; with a queue full of early frames no frame is received any
  more. In return `recv_can_msg` never finds the queue empty, the case in which
  it would report a negative length as a success.
* `FifoDrained`, `TxDrained`: receive FIFOs and transmit queue empty again.
* `Accounted` (`can_tp`): no frame is lost between `send_can_msg` and
  `canTransmit`, nor between `receive_can_frame` and the session manager. One
  frame stays behind for each push whose count a pop stored over, and one for
  each receive event that merged with another or came before the registration;
  these go out or come in only behind later frames.
* `CountExact`: push and pop of the self queue never overlap, though only the
  priorities of the tasks and the stream's lock keep them apart. A sender above
  the transport's priority breaks it: the CAN task, at 11, is one if its
  callback sends to a service of its own controller. `PrioritiesAssumption`
  excludes that, and `lqueue_unguarded` shows what would happen.
* `Backlog`: the queue holds one message for each notification that found the
  bit set. Each message is delivered that many messages late.
* `HandledInOrder`: the callbacks get the messages in the order in which the
  queue took them, with their source, destination and length.
* `LockGranted`, `DrainsToBacklog`: who waits for the stream gets it; the queue
  empties to the backlog.
* `Window`: the numbers of both ends stay close enough for `seq_num_cmp`.
  `Retransmittable`: what is sent and not acknowledged is kept as it was sent.
  `AckedIsKept`: what is acknowledged and not yet read is in the reader's slots.
* `ChannelSpec`: the streams implement `ReliableChannel`. `Progress`: one
  datagram repairs all that was lost before it. When no more faults come and the
  last number sent is on its way to the reader, in a datagram or a heartbeat, or
  an ACKNACK of a reader that has heard of it to the writer (`Informed`), then
  `last_acknown` moves on: the bitmap names what is missing, it is sent again, and
  a slot that was reused, or a whole message taken past its slot, does not stop
  it. Without such a datagram only a heartbeat would help, and none is promised.
* `SessionAgreed`, `StatusesBelong`: a login or logout that returns true has the
  agent's agreement, `uxr_run_session_until_all_status` its grant of each
  request of the list, and no left-over answer is taken for it. `HeardInCall`:
  no flag of an earlier call makes a call return true. `ListOnlyLent`: the
  caller's list is written only while its call runs. `AnsweredReturns`:
  login, synchronisation and ping, which the agent always answers, return without
  the help of a deadline when nothing is lost, whatever else arrives and whatever
  the callbacks send; the logout does unless a callback has buffered a request
  meanwhile, which makes `uxr_read_delete_session_status` ignore the answer
  (`AnswerDue`).
  Nothing is said of the other calls, nor of a lost answer: by the clock of this
  build they wait for ever.
* `ValuesAligned`: every value lies at a multiple of its size, though padding is
  left out after larger accesses. `FitsReservation`: the bytes computed by hand
  in each call suffice. `ReadsBack`: as long as no function has failed, what is
  read is what was written, in the machine's order from slot to slot, in the other
  order up to the end of the first slot, and but for what follows a requester's
  data. `NothingBeyondCapacity`: no
  array of the client is written behind its end, whatever length arrives.
  `ReadsAll`: a message whose sequences fit is read to its end, under the same
  conditions (`Trusting`).

### What the violations show

* `BackReadsLast`: the skip loop of `readInternal` wraps with `>`, the copy loop
  with `>=`. When the message before the last one ends on the last byte of the
  ring, `lqueue_back` decodes a header one byte behind the buffer.
* `FramesCounted` without critical sections: `lqueue.c` says they are not
  necessary for one queuing and one dequeuing thread; the count is shared by
  both, and an update gets lost.
* `TxWaitsForMailbox`: the transport task is to check on each TX confirmation
  for data waiting to be sent, but `request2send` pops and drops what finds no
  free mailbox.
* `PiecesPutTogether`: `uxr_buffer_submessage_header` writes no header, so the
  pieces of a fragmented message carry nothing that says so, and the reader
  takes the first one for a message. With the headers the same happens to a message whose
  first piece was put behind a whole one: the reader looks at the first submessage
  of a slot (`on_get_fragmentation_info`), and `read_submessage` knows no piece. In
  the configuration of this run, four slots of 20 bytes and `MCLengthBehind` show
  it with `FragmentHeaders` set.

Smaller differences between code and comments, met on the way and visible in the
modules: `uxr_run_session_time` always returns true; `uxr_run_session_until_one_status`
returns true for any status, where `session.h:521` asks for a good one; the ping
with a session makes as many attempts as it is given; `can_transport_init` of
the ChibiOS build always returns false.

## 4. Proofs

Each theorem is `Spec => []P` or `Spec => [][A]_vars` by an inductive invariant:
it holds initially, every action keeps it (a lemma per action), and it implies
the property. What follows names the invariant and says why it is needed.

`LQueueProofs`, from the assumptions that the ring length and `Short` are
positive, messages are byte strings and read buffers are not empty:

* `RingIntact`, `RingTiled`, `RingTyped`: `FramesIntact`, `FramesInOrder`,
  `TypeOK`. The inductive invariant is `RingInv`, which adds that only messages
  with an encoding are stored: without it the header of a stored message need
  not decode to its length, and the read index after a pop would be unknown. The
  argument: encoding and decoding are inverse (`HeaderSizes`, `EncodedBytes`,
  `Decoded`, from lemmas on division), so the front frame is decoded as it was
  pushed; a push writes only the bytes in the free space, which no queued frame
  covers; a removal moves the origin of all distances by the size of the front
  frame.
* `ReadersRight`: `ReadersAgree`, from the same invariant. `lqueue_front` and
  the search walk the ring from frame to frame; that the walk stands at the
  frames one after the other is an induction over the walk, taken through the
  least step at which it would not (`WFMin`), as the recursive function is
  unfolded only once.
* `RingIsFifo`: `Spec => FifoSpec`, the refinement: every call maps to an action
  of `MsgFifo` with the same result.

`LQueueRaceProofs`, for any number of tasks, any ring and any size of frame,
with both calls in critical sections (`Guarded = {"push", "pop"}`):

* `GuardedCounts`, `GuardedPopsInOrder`, `GuardedTypes`: `FramesCounted`,
  `PopsInOrder`, `TypeOK`. `RaceInv` gives every byte that ever goes through the
  ring a position of its own: the indices are the remainders of such positions
  (`Placed`), the ring holds what was pushed at those between them (`Stored`),
  one task is in a call (`Alone`), and each local copy is still what was loaded
  (`Local`), which is what a second task in the call would break.

`CanTransportProofs`, for any number of senders, positive sizes and any bounds:

* `NoWakeupLost`, `NoSendForgotten`, `EveryFrameAccounted`, `ReceiveQueueLags`,
  `RoomKept`: `RxWakeupPending`, `TxWakeupPending`, `TxAccounted`, `RxLag`,
  `TypeOK`. Their conjunction is inductive once `HeldInDelay` is added (the task
  has its frame in hand while it waits for the restart). The interesting lemmas
  are `WakeHolds` (taking all events keeps each in `todo`), `TxDoneHolds` (only
  an empty queue ends a transmit event) and `RxRearmHolds` (the event ends in
  the step that switches the interrupt on).

`CanTpProofs`, for queues of any size and any number of frames:

* `NothingLost`: `TypeOK` and `Accounted`. `InSend` is added: where the task is
  in `request2send`, that it holds a frame exactly between its pop and
  `canTransmit`, and that the count it has cached is positive and at most the
  count of the queue. A push in between raises only the latter, which is why the
  store of the pop can lose counts and never invent them.

`SelfSessionProofs`, for any senders of priorities below the transport's:

* `CountKept`, `BacklogKept`, `RoomKept`: `CountExact`, `Backlog`, `TypeOK`. The
  inductive invariant `SelfInv` says who can be where: what is between lock and
  unlock holds the mutex (`Holds`); while a service is on its way to its
  notification the transport's task waits and no notification is pending, since
  the task would run first (`Waits`); so at most one task is at work on the
  queue (`OneAtWork`), and the count it has loaded is the count as it is
  (`Loaded`). `Counted` and `Late` are the properties themselves, with "how many
  tasks" replaced by "whether one".
* `OrderKept`: `HandledInOrder`, while the stream is shorter than 256 bytes of
  payload and a header. The hypothesis is what the code needs: the length is
  read back into one byte.

`ReliableLinkProofs`, for every width of the numbers, every history, capacity
and set of messages, and any number of writes, with a history of at most a
quarter of the numbers (`HistoryAssumption`; in the code sixteen slots, the
width of the bitmap of an ACKNACK, of 65536 numbers):

* `SubUndoesAdd`, `CmpOrdersWindow`, `CmpAntisymmetric`, the laws of
  `seq_num.c`: subtraction undoes addition, the comparison orders the numbers of
  any window of less than half the modulus as their distance does, and it is
  antisymmetric except at half the modulus, where each number is greater than
  the other.
* `NumbersComparable`, `SentIsKept`, `AckedNotLost`: `Window`, `Retransmittable`,
  `AckedIsKept`. None of them is inductive, as a number says nothing of the
  round it is from. `IInv` puts four counters without end behind the remainders
  (acknowledged, sent, filled, handled) and one content behind each number
  (`LinkInv`): every copy of a slot, in the writer, in the network and in the
  reader, holds that content; a datagram on its way is less than half the
  numbers old; the ACKNACKs on their way confirm, in their order, what the
  reader has (`Confirmed`); and a slot the reader holds back really waits for
  one that is missing (`Waiting`). With a history of more than a quarter an old
  duplicate can meet the number it looks like, and the invariant fails.
* `LinkTypeCorrect`: `TypeOK`, from `IInv` and what each step adds to the
  counters (`Counters`).
* `LinkIsChannel`: `ChannelSpec`, the refinement of `ReliableChannel`. `Pending`
  joins the messages of up to a history of slots, some kept by the reader, some
  by the writer, and changes its place with every step. The proof puts one total
  behind each number, all messages that end up to it (`Story`), and shows that
  what is pending is the difference between the totals of the last filled
  number and of the last handled one (`Balance`): a write extends the last total
  by its message (`PendingGrows`), reading moves the first one by what is read
  (`Told`, along the slots in `ReadSoFarStep`), and everything else leaves both
  alone (`SamePending`), whichever end keeps the slot. So that reading ends
  between two messages, each first piece is followed by further ones up to a
  last one (`Continued`), and the reader never stands behind a first or a middle
  one (`AtStart`). The hypothesis, `[][FragmentsAlone]_vars`, says that pieces
  have their headers and that a first piece goes into a slot that holds nothing
  else; without either the refinement is false (see `PiecesPutTogether`
  in section 3), and every behaviour of `reliable_link` satisfies it.
* `WholeMessagesChannel`: the same without that hypothesis, where no message is
  longer than a slot.

`SessionProofs`, for any number of ids, attempts, calls and requests:

* `SessionTyped`, `StatusesOwn`, `FlagsFresh`, `ListTakenBack`, `LoginsAgreed`:
  `TypeOK`, `StatusesBelong`, `HeardInCall`, `ListOnlyLent`, `SessionAgreed`.
  `IInv` says what everything that outlives a call may hold: the datagrams on
  their way and the buffered requests have the id their request was given
  (`Requested`), and a request is marked ambiguous when another one that could
  still be answered had its id; a list is lent only in the calls that wait for
  statuses (`Lent`); the flag a call waits for is down between two rounds
  (`Heard`), so whatever raises it arrived in the call; and a login or logout
  that began undisturbed meets only datagrams of its own attempts (`Agreed`).

`XrceCodecProofs`, for any lengths of texts and representations, any blocks and
maxima of the type definitions:

* `ValueAligned`, `ArrayAligned`, `AlignmentKept`, `ErrorSticks`, `SequenceFits`,
  for buffers of any slots. What keeps the left-out padding right is that the
  offset is a multiple of the size of the last access, which values, arrays,
  alignment and sequence headers keep; after an error nothing is touched any
  more; and the elements of a sequence that are read are never more than there
  is room for.
* `CodecTyped`, `CodecAligned`, `NeverBeyond`: `TypeOK`, `ValuesAligned`,
  `NothingBeyondCapacity`. They need what may still be written or read to be well
  formed. Forms are nested, and an induction over data is out of reach; instead a
  `Form` takes its nodes from a set that is closed under what they contain, so
  it stays one when a node is taken, and every form of `XrceTypes` is one. A reader that has met a length that is too long still has
  the bytes of that sequence before it (`TooLong`), and is behind an error.
* `RoomEnough`: `FitsReservation`, for every call of the client. `Run` follows the
  message a call writes, value by value, from an offset to its end, with the
  padding each value may need; for each call the end is shown to be within the
  reserved bytes, from any place `uxr_prepare_stream_to_write_submessage` may
  begin at (`FitsIn`). `Snug` says the buffer is where the run is, also in the
  middle of a split value. Two hypotheses are needed. `BlobsHold`: the structures
  that are first written into `UXR_BINARY_SEQUENCE_MAX` bytes fit there
  (5 texts with their lengths and padding); the code writes them without a
  reservation. `BlocksHold`: a block of a fragmented message has 8 bytes or more;
  the rest of a split value is put into the next slot whatever its size, so it
  has to fit there. The instance of the run satisfies both.

The inductive invariant `IInv` is their conjunction: the phase and the call agree
(`Phased`), the buffer is regular and its padding sound (`BufferWell`), the
entries written and read are well (`WrittenWell`, `GotWell`), and what is left of
the message is well formed (`OutWell`, `InWell`).

* `ReadsWhatWasWritten`, `ReadsToTheEnd`: `ReadsBack` and `ReadsAll`, for every type
  of the user and every cut of the slots, under the conditions of `Trusting`. The
  reader's buffer is not the
  writer's: its slots are those that arrived, the last one is shorter, and another
  callback leads from one to the next. `Arrived(b, f)` is the reader's buffer where
  the writer had `b`, of a message that ends with `f`; the lemmas `ValueAlike`,
  `ArrayAlike`, `AlignToAlike` and `RebaseAlike` say that an operation on it touches
  the same places and leads to what `Arrived` makes of the writer's next buffer.
  The invariant `LInv` keeps the writer's past: a set of snapshots, each a buffer,
  the nodes left and the values written so far, of which each leads to another by
  one node (`Tracked`, `Wrote`). Nothing in the state records it, so it is
  quantified (`\E R`), and `Put` extends it (`TrackNext`). The reader is at one of the
  snapshots (`ReadTo`), so its next node is the one that was written there. That a
  value is found by its places needs that no two values begin at the same one
  (`Firsts`): the iterator only goes forward (`NotAfter`) and a value begins where it
  had not been (`Mark`). A reader that has reported a failure has met a sequence that
  did not fit (`Unfit`); one that has not can only stop at the last snapshot.
  A snapshot also has the byte order the writer was in, and of that the reader has
  what `Follows` says: the same in the first slot, the machine's after it. So a
  value is looked for in its own order as long as `Trusting` holds, and a state in
  which it no longer holds never leads back to one in which it does (`TrustBack`);
  the invariant therefore asks the reader to be at a snapshot (`Matching`) only
  while it holds.

Only model-checked:

* All liveness (`FifoDrained`, `TxDrained`, `LockGranted`, `DrainsToBacklog`,
  `Progress`, `AnsweredReturns`), as TLAPS has no liveness under fairness.

## 5. Plan

What is left, in the order of what it would add:

1. The continuous writes of `write_access.c`: the lock they keep over calls and
   the alignment each fragment starts anew.
2. ACKNACKs that arrive out of order: `Window` fails at once without their
   order, since `uxr_process_acknack` subtracts without comparing.
3. `uxr_ping_agent_attempts` and the session lock, should `session.c` return to
   a build.

## 6. Not modelled

* Topic matching: a comparison of names that nothing calls. `object_id.c`: two
  numbers packed into two bytes.
* The UART session: its descriptor has no transport in the code.
* `can_transport_close`, `self_com_transport_close` and a second
  initialisation: nothing calls them.
* Continuous writes, performance messages, the clock offset computed from a
  time stamp, `uxr_ping_agent_attempts`.
* The additions of streams, made once at start-up; the check of their number is
  missing, and no caller reaches the limit.
* The lock of `session.c`: one task calls the session, and neither build
  compiles the file.
* How long anything takes: a heartbeat, a deadline or a time-out comes at any
  time or never. Waiting with the whole time-out again after each message
  (`session.c:519`) and listening more often than heartbeats become due make no
  difference there.
* Byte order: writing in another one than the machine's, and arrays of larger
  elements than bytes; no caller does either. What the client makes of the bytes
  behind a requester's data, which it reads from the wrong place, and of values in
  the other order behind the first slot: both are read, and nothing is promised of
  them.
* A controller whose restart failed and whose HAL refuses to re-arm its
  interrupts.
* What ChibiOS does about a mutex released by a thread that does not own it,
  beyond that it excludes nobody.

The RTOS, the HAL, the CAN controller, the network and the agent appear only as
what the code relies on, and are marked external in `PROJECT.json`.
