---------------------------- MODULE XrceCodec ----------------------------
(* Writing and reading XRCE messages: the calls of the client that put a   *)
(* message into a stream or into a buffer of their own (create_entities_*, *)
(* write_access.c, read_access.c, session_info.c, session.c, ping.c), and  *)
(* the reading of what the agent sends.                                    *)
(*                                                                         *)
(* The client computes the room a message needs by hand before it is       *)
(* written, and the slots of the stream are cut to that length: Begin      *)
(* chooses a call and the slots, the other actions write the message node  *)
(* by node, as the form of its type in XrceTypes says.  A message of the   *)
(* agent is written the same way by the agent, which has the choice of     *)
(* lengths, options, formats and byte order, and then read by the client,  *)
(* that knows the form and nothing else: what it reads is found by place,  *)
(* and is what was written only if it is read in the order it has.         *)
EXTENDS Cdr, XrceTypes

CONSTANTS
  Lengths,            \* bytes of the strings and sequences considered
  Blocks,             \* <<first, block>>: rooms of the slots of a fragmented message
  UserTopic,          \* the form of a user's type
  DataLength          \* bytes of data that another submessage follows

ASSUME LengthsAssumption == Lengths \subseteq Nat
\* No message is as long as a room that has wrapped.
ASSUME BlocksAssumption ==
  Blocks \subseteq Nat \X (Nat \ {0}) /\ \A b \in Blocks : b[1] + 40 * b[2] <= Wrapped
\* A user's type is a structure of values, arrays of bytes and sequences.
ASSUME UserTopicAssumption ==
  /\ UserTopic \in Seq([k : {"int"}, n : DataSizes] \cup [k : {"raw"}, n : Nat \ {0}, cap : Nat]
                       \cup [k : {"bytes"}, least : {0, 1}, cap : Nat])
  /\ \A i \in DOMAIN UserTopic : UserTopic[i].k = "raw" => UserTopic[i].n <= UserTopic[i].cap
\* Twice as many bytes are still in the datagram, whatever follows them.
ASSUME DataLengthAssumption == DataLength \in 1..8

CREATE_SESSION_MAX_MSG_SIZE == 8 + 4 + 16
DELETE_SESSION_MAX_MSG_SIZE == 8 + 4 + 4
HEARTBEAT_MAX_MSG_SIZE == 8 + 4 + 5
ACKNACK_MAX_MSG_SIZE == 8 + 4 + 5
TIMESTAMP_MAX_MSG_SIZE == 8 + 4 + 8
UXR_PING_BUF == 16
INFO_MAX_MSG_SIZE == 12
WRITE_DATA_PAYLOAD_SIZE == 4
SAMPLE_IDENTITY_SIZE == 24

VARIABLES
  phase,      \* "idle", "blob", "write", "read", "done"
  call,       \* what is being written: whether by the client, and its name
  ub,         \* the buffer
  foreign,    \* its byte order (ub->endianness) is not the machine's
  todo,       \* the nodes left
  script,     \* the client's values for the nodes that have a choice
  written,    \* the values written: their length, alignment, place, order and value
  got,        \* the values read: which of those written, how many bytes, room for them
  ok          \* the conjunction of the results of the reading functions

vars == <<phase, call, ub, foreign, todo, script, written, got, ok>>

---------------------------------------------------------------------------
(* The calls.  A call of the client is the form of the message, the values *)
(* of its choices in order, and the bytes it reserves.                     *)

Flags == {0, 1}                      \* a bool: whether an optional field is there

Kinds == {"PARTICIPANT", "TOPIC", "PUBLISHER", "SUBSCRIBER", "DATAWRITER", "DATAREADER",
          "REQUESTER", "REPLIER"}

\* What uxr_common_create_entity reserves for a representation of len bytes.
CreateReserved(kind, len) ==
  LET before == 4 + 1 + 1 + 2 + 4 + len
      pad == IF kind = "PARTICIPANT" /\ before % 2 # 0 THEN 1 ELSE 0
  IN  before + pad + 2

CreateCall(kind, format, len) ==
  [dir |-> "out", form |-> CREATE_Payload, script |-> <<kind, format, len>>,
   reserved |-> CreateReserved(kind, len)]

CreateXml == {CreateCall(kind, "XML", len) : kind \in Kinds, len \in Lengths \ {0}}
CreateRef ==
  {CreateCall(kind, "REFERENCE", len) :
     kind \in Kinds \ {"PUBLISHER", "SUBSCRIBER"}, len \in Lengths \ {0}}

\* The create functions that write a structure into the representation first, each with
\* the values it gives the structure.
Bin(kind, blob, scripts) ==
  {[dir |-> "out", form |-> blob, script |-> s, kind |-> kind] : s \in scripts}
SomeText == Lengths \ {0}
QosScript(depth) == <<depth, 0, 0, 0>>

CreateParticipantBin ==
  Bin("PARTICIPANT", OBJK_DomainParticipant_Binary,
      {<<0, 0>>} \cup {<<0, 1, l>> : l \in SomeText})
CreateTopicBin ==
  Bin("TOPIC", OBJK_Topic_Binary, {<<l, 0, 1, m>> : l \in SomeText, m \in SomeText})
CreatePublisherBin == Bin("PUBLISHER", OBJK_Publisher_Binary, {<<0, 0>>})
CreateSubscriberBin == Bin("SUBSCRIBER", OBJK_Subscriber_Binary, {<<0, 0>>})
CreateDataWriterBin ==
  Bin("DATAWRITER", OBJK_DataWriter_Binary,
      {<<1>> \o QosScript(depth) \o <<0>> : depth \in Flags})
CreateDataReaderBin ==
  Bin("DATAREADER", OBJK_DataReader_Binary,
      {<<1>> \o QosScript(depth) \o <<0, 0>> : depth \in Flags})
CreateRequesterBin ==
  Bin("REQUESTER", OBJK_Requester_Binary,
      {<<l, m, l, 1, m, 1, l>> : l \in SomeText, m \in SomeText})
CreateReplierBin ==
  Bin("REPLIER", OBJK_Replier_Binary,
      {<<l, m, l, 1, m, 1, l>> : l \in SomeText, m \in SomeText})

CreateBin ==
  UNION {CreateParticipantBin, CreateTopicBin, CreatePublisherBin, CreateSubscriberBin,
         CreateDataWriterBin, CreateDataReaderBin, CreateRequesterBin, CreateReplierBin}

Buffered(form, values, reserved) ==
  [dir |-> "out", form |-> form, script |-> values, reserved |-> reserved]

DeleteEntity == {Buffered(DELETE_Payload, <<>>, 4)}
RequestData ==
  {Buffered(READ_DATA_Payload, <<0, control>>, 4 + 4 + IF control = 1 THEN 8 ELSE 0) :
     control \in Flags}
BufferTopic ==
  {Buffered(WRITE_DATA_Payload_Data \o Raw(len), <<>>, WRITE_DATA_PAYLOAD_SIZE + len) :
     len \in Lengths \ {0}}
BufferReplyShort ==
  {Buffered(WRITE_DATA_Payload_Data \o SampleIdentity \o Raw(len), <<>>,
            SAMPLE_IDENTITY_SIZE + len) : len \in Lengths \ {0}}
BufferReply ==
  {Buffered(WRITE_DATA_Payload_Data \o SampleIdentity \o Raw(len), <<>>,
            WRITE_DATA_PAYLOAD_SIZE + SAMPLE_IDENTITY_SIZE + len) : len \in Lengths \ {0}}

BufferedCalls ==
  CreateXml \cup CreateRef \cup DeleteEntity \cup RequestData \cup BufferTopic \cup BufferReply

\* Messages with a buffer of their own.  Nothing precedes their payload but, in a ping,
\* the session id.
OwnBufferCalls ==
  {Buffered(CREATE_CLIENT_Payload, <<0>>, CREATE_SESSION_MAX_MSG_SIZE),
   Buffered(DELETE_Payload, <<>>, DELETE_SESSION_MAX_MSG_SIZE),
   Buffered(HEARTBEAT_Payload, <<>>, HEARTBEAT_MAX_MSG_SIZE),
   Buffered(ACKNACK_Payload, <<>>, ACKNACK_MAX_MSG_SIZE),
   Buffered(TIMESTAMP_Payload, <<>>, TIMESTAMP_MAX_MSG_SIZE),
   Buffered(Uint(1) \o GET_INFO_Payload, <<>>, UXR_PING_BUF),
   Buffered(INFO_Payload, <<0, 0>>, INFO_MAX_MSG_SIZE)}

\* What the client reads, by name: the submessages of the agent; behind a data header, what
\* a reader, a replier and a requester make of the data, each with a buffer of its own; and
\* the types the reading functions exist for.
AgentCalls ==
  [STATUS_AGENT |-> STATUS_AGENT_Payload, STATUS |-> STATUS_Payload, INFO |-> INFO_Payload,
   GET_INFO |-> GET_INFO_Payload,
   TOPIC |-> DATA_Payload_Data \o Rebase \o UserTopic,
   REQUEST |-> DATA_Payload_Data \o Rebase \o SampleIdentity \o Rebase \o UserTopic,
   REPLY |-> DATA_Payload_Data \o Rebase \o BaseObjectRequest \o Rebase \o UserTopic,
   SAMPLE |-> DATA_Payload_Sample, DATA_SEQ |-> DATA_Payload_DataSeq,
   SAMPLE_SEQ |-> DATA_Payload_SampleSeq, PACKED_SAMPLES |-> DATA_Payload_PackedSamples,
   ACKNACK |-> ACKNACK_Payload, HEARTBEAT |-> HEARTBEAT_Payload,
   TIMESTAMP_REPLY |-> TIMESTAMP_REPLY_Payload, PERFORMANCE |-> PERFORMANCE_Payload]
TypeCalls ==
  [DomainParticipant |-> OBJK_DomainParticipant_Binary, Topic |-> OBJK_Topic_Binary,
   Publisher |-> OBJK_Publisher_Binary, Subscriber |-> OBJK_Subscriber_Binary,
   DataWriter |-> OBJK_DataWriter_Binary, DataReader |-> OBJK_DataReader_Binary,
   Requester |-> OBJK_Requester_Binary, Domain |-> OBJK_DOMAIN_Representation,
   Data |-> DataRepresentation, Packed |-> SamplePackedSeq, Read |-> ReadSpecification,
   CreateClient |-> CREATE_CLIENT_Payload, WriteSample |-> WRITE_DATA_Payload_Sample,
   WriteDataSeq |-> WRITE_DATA_Payload_DataSeq,
   WriteSampleSeq |-> WRITE_DATA_Payload_SampleSeq,
   WritePacked |-> WRITE_DATA_Payload_PackedSamples,
   Creation |-> ObjectPrefix \o CreationMode]
\* Two submessages in one datagram: the one named, then a heartbeat.  Of data the session
\* only takes the length, of a reply as of any other.
PairCalls ==
  [AcknackHeartbeat |-> ACKNACK_Payload, StatusHeartbeat |-> STATUS_Payload,
   DataSeqHeartbeat |-> DATA_Payload_DataSeq,
   DataHeartbeat |-> DATA_Payload_Data \o Data(DataLength),
   ReplyHeartbeat |-> DATA_Payload_Data \o Data(DataLength)]

WithHeader(form) == SubmessageHeader \o form
ReceivedForms ==
  [c \in DOMAIN TypeCalls \cup DOMAIN AgentCalls \cup DOMAIN PairCalls |->
     CASE c \in DOMAIN TypeCalls  -> TypeCalls[c]
       [] c \in DOMAIN AgentCalls -> WithHeader(AgentCalls[c])
       [] c \in DOMAIN PairCalls  -> WithHeader(PairCalls[c]) \o WithHeader(HEARTBEAT_Payload)]

---------------------------------------------------------------------------
(* The slots.                                                              *)

\* The slots of a fragmented message: the first one, as many whole blocks as fit, and
\* what is left, which is a whole block if it divides.
FragmentEnds(length, first, block) ==
  LET rest == length - first
      last == IF rest % block = 0 THEN block ELSE rest % block
      whole == (rest - last) \div block
  IN  [i \in 1..(whole + 2) |-> IF i = whole + 2 THEN length ELSE first + (i - 1) * block]

\* A best-effort stream holds the message behind what is buffered already, and the
\* session id in the first of the reserved bytes; a reliable one in a slot that is new
\* or in use, or in fragments.
StreamBuffers(reserved) ==
       {[ub |-> InitBuffer(<<at + reserved>>, at, "none"), header |-> header] :
          at \in {0, 4}, header \in {Uint(1), <<>>}}
  \cup {[ub |-> InitBuffer(FragmentEnds(reserved, b[1], b[2]), 0, "out"), header |-> <<>>] :
          b \in {b \in Blocks : b[1] < reserved}}

\* The agent's buffers: one datagram behind the headers, or fragments.
AgentBuffers ==
  LET plenty == 400 IN
       {InitBuffer(<<plenty>>, 4, "none")}
  \cup {InitBuffer([i \in 1..41 |-> b[1] + (i - 1) * b[2]], 0, "out") : b \in Blocks}

\* What arrives: the slots written, the last one cut where the message ends.
ArrivedEnds(b) ==
  [s \in 1..b.slot |-> IF s < b.slot THEN b.ends[s] ELSE Begins(b, s) + b.at]

---------------------------------------------------------------------------
\* Once begun, only the direction of a call and its name are needed.
Written(kind) == [dir |-> "out", name |-> kind]
Started ==
  /\ phase' = "write" /\ foreign' = FALSE /\ got' = <<>> /\ ok' = TRUE /\ written' = <<>>

BeginBuffered ==
  /\ phase = "idle"
  /\ \E c \in BufferedCalls : \E b \in StreamBuffers(c.reserved) :
       script' = c.script /\ ub' = b.ub /\ todo' = b.header \o c.form
  /\ call' = Written("message")
  /\ Started

BeginOwnBuffer ==
  /\ phase = "idle"
  /\ \E c \in OwnBufferCalls :
       script' = c.script /\ todo' = c.form /\ ub' = InitBuffer(<<c.reserved>>, 0, "none")
  /\ call' = Written("message")
  /\ Started

BeginReceived ==
  /\ phase = "idle"
  /\ \E name \in DOMAIN ReceivedForms, b \in AgentBuffers :
       /\ name \in DOMAIN PairCalls => b.full = "none"
       /\ call' = [dir |-> "in", name |-> name]
       /\ todo' = ReceivedForms[name] /\ ub' = b
  /\ script' = <<>>
  /\ Started

BeginBlob ==
  /\ phase = "idle"
  /\ \E c \in CreateBin : call' = Written(c.kind) /\ script' = c.script /\ todo' = c.form
  /\ ub' = InitBuffer(<<UXR_BINARY_SEQUENCE_MAX>>, 0, "none")
  /\ phase' = "blob" /\ foreign' = FALSE /\ got' = <<>> /\ ok' = TRUE /\ written' = <<>>

\* The structure is the representation of a CREATE: ub.offset is its length.
EndBlob ==
  /\ phase = "blob" /\ todo = <<>>
  /\ LET c == CreateCall(call.name, "BINARY", ub.offset) IN
       \E b \in StreamBuffers(c.reserved) :
         script' = c.script /\ ub' = b.ub /\ todo' = b.header \o c.form
  /\ call' = Written("message")
  /\ Started

---------------------------------------------------------------------------
(* Writing.                                                                *)

Writing == phase \in {"blob", "write"} /\ todo # <<>>
Reading == phase = "read" /\ todo # <<>>
Node == Head(todo)

\* The values a writer may give the node at hand: the client has one, the agent any.
Options(all) == IF call.dir = "out" THEN {Head(script)} ELSE all
ScriptMoves == IF call.dir = "out" THEN script' = Tail(script) ELSE script' = script

Item(b, n, value, fits) ==
  [k |-> Node.k, v |-> value, n |-> n, fits |-> fits, offset |-> Value(b, n).offset - n,
   places |-> ValuePlaces(b, n), foreign |-> n > 1 /\ foreign]
RawItem(b, n) ==
  [k |-> "raw", v |-> 0, n |-> 1, fits |-> TRUE, offset |-> b.offset,
   places |-> ArrayPlaces(b, n, 1), foreign |-> FALSE]

Repeated(s, count) == [i \in 1..(count * Len(s)) |-> s[1 + ((i - 1) % Len(s))]]

Put(n, value, fits, then) ==
  /\ written' = IF Value(ub, n).error THEN written ELSE Append(written, Item(ub, n, value, fits))
  /\ ub' = Value(ub, n)
  /\ todo' = then \o Tail(todo)
  /\ UNCHANGED <<phase, call, foreign, got, ok>>

PutInt == Writing /\ Node.k = "int" /\ Put(Node.n, 0, TRUE, <<>>) /\ UNCHANGED script

PutRaw ==
  /\ Writing /\ Node.k \in {"raw", "data"}
  /\ written' = IF Array(ub, Node.n, 1).error THEN written
                ELSE Append(written, RawItem(ub, Node.n))
  /\ ub' = Array(ub, Node.n, 1)
  /\ todo' = Tail(todo)
  /\ UNCHANGED <<phase, call, foreign, script, got, ok>>

\* A sequence: its length, then its bytes unless there are none.
Elements(len, cap) == IF len = 0 THEN <<>> ELSE <<[k |-> "raw", n |-> len, cap |-> cap]>>
PutBytes ==
  /\ Writing /\ Node.k = "bytes"
  /\ \E len \in Options({l \in Lengths : l >= Node.least}) :
       Put(4, len, len <= Node.cap, Elements(len, Node.cap))
  /\ ScriptMoves

PutOpt ==
  /\ Writing /\ Node.k = "opt"
  /\ \E flag \in Options(Flags) : Put(1, flag, TRUE, IF flag = 1 THEN Node.s ELSE <<>>)
  /\ ScriptMoves

PutTag ==
  /\ Writing /\ Node.k = "tag"
  /\ \E tag \in Options(DOMAIN Node.alt) : Put(Node.n, tag, TRUE, Node.alt[tag])
  /\ ScriptMoves

PutList ==
  /\ Writing /\ Node.k = "list"
  /\ \E count \in Options(0..(Node.cap + 1)) :
       Put(4, count, count <= Node.cap, Repeated(Node.s, count))
  /\ ScriptMoves

\* Nodes that are the same for the writer and the reader.  Data of the user begin a buffer
\* anew, in the order of the machine; a writer only does so while it has room.
SkipOther ==
  /\ phase \in {"blob", "write", "read"} /\ todo # <<>> /\ Node.k = "only"
  /\ todo' = (IF Node.dir = call.dir THEN Node.s ELSE <<>>) \o Tail(todo)
  /\ UNCHANGED <<phase, call, ub, foreign, script, written, got, ok>>

AlignOrRebase ==
  /\ phase \in {"blob", "write", "read"} /\ todo # <<>> /\ Node.k \in {"align", "rebase"}
  /\ Node.k = "rebase" /\ phase # "read" => ~ub.error
  /\ ub' = IF Node.k = "align" THEN AlignTo(ub, Node.n) ELSE RebasedBuffer(ub)
  /\ foreign' = (foreign /\ Node.k = "align")
  /\ todo' = Tail(todo)
  /\ UNCHANGED <<phase, call, script, written, got, ok>>

SetOrder ==
  /\ phase \in {"blob", "write", "read"} /\ todo # <<>> /\ Node.k = "endian"
  /\ foreign' = Node.other
  /\ todo' = Tail(todo)
  /\ UNCHANGED <<phase, call, ub, script, written, got, ok>>

\* The client's message is complete, or the agent's arrives, had it room for all of it.
EndWriting ==
  /\ phase = "write" /\ todo = <<>>
  /\ \/ call.dir = "out" /\ phase' = "done" /\ UNCHANGED <<ub, foreign, todo>>
     \/ /\ call.dir = "in" /\ ~ub.error /\ ub.slot \in DOMAIN ub.ends
        /\ phase' = "read" /\ foreign' = FALSE /\ todo' = ReceivedForms[call.name]
        /\ ub' = IF ub.full = "none"
                 THEN InitBuffer(<<ub.at>>, 4, "none")
                 ELSE InitBuffer(ArrivedEnds(ub), 0, "in")
  /\ UNCHANGED <<call, script, written, got, ok>>

---------------------------------------------------------------------------
(* Reading.                                                                *)

\* A slot that is full is left for one in the machine's order.
StillForeign(b) == foreign /\ b.slot = ub.slot

\* Where and in which order a value of n bytes is read.  Most functions look the order up
\* once they have left a slot that was full; those for sequences and strings are given it
\* before, and split a length in the other order in a way of their own.
LooksAt(n) ==
  IF foreign /\ Node.k = "bytes" THEN SwappedPlaces(ub, n) ELSE ValuePlaces(ub, n)
AsForeign(n) ==
  n > 1 /\ IF Node.k = "bytes" THEN foreign ELSE StillForeign(Value(ub, n))

\* The value written at the places read and in that order, or 0: bytes of several values,
\* of one in the wrong order, or padding.
Found(places, other) ==
  LET those == {i \in DOMAIN written : written[i].places = places /\ written[i].foreign = other}
  IN  IF those = {} THEN 0 ELSE CHOOSE i \in those : TRUE

Taken(places, cap, other) == [item |-> Found(places, other), n |-> Len(places), cap |-> cap]

\* The value of the node at hand: the one written, or any if something else was read.
ReadValues(n, all) ==
  LET i == Found(LooksAt(n), AsForeign(n))
  IN  IF i # 0 /\ ~Value(ub, n).error /\ written[i].k = Node.k THEN {written[i].v} ELSE all

\* A value of n bytes is read and leaves the buffer b.
Get(n, b, then) ==
  /\ got' = IF Value(ub, n).error THEN got
            ELSE Append(got, Taken(LooksAt(n), n, AsForeign(n)))
  /\ ub' = b
  /\ foreign' = StillForeign(b)
  /\ ok' = (ok /\ ~b.error)
  /\ todo' = then \o Tail(todo)
  /\ UNCHANGED <<phase, call, script, written>>

GetInt == Reading /\ Node.k = "int" /\ Get(Node.n, Value(ub, Node.n), <<>>)

\* The bytes of an array are taken one by one, in any order, and leave the buffer b.
GetArray(b) ==
  /\ got' = Append(got, Taken(ArrayPlaces(ub, Node.n, 1), Node.cap, FALSE))
  /\ ub' = b
  /\ foreign' = StillForeign(b)
  /\ ok' = (ok /\ ~b.error)
  /\ todo' = Tail(todo)
  /\ UNCHANGED <<phase, call, script, written>>

GetRaw == Reading /\ Node.k = "raw" /\ GetArray(Array(ub, Node.n, 1))

\* The data go to a callback that has a buffer of its own; the session's own advances by
\* their length, and for a requester by that length before.
Jumped(b) == IF call.name = "ReplyHeartbeat" THEN [b EXCEPT !.at = @ + Node.n] ELSE b
GetData == Reading /\ Node.k = "data" /\ GetArray(Array(Jumped(ub), Node.n, 1))

GetBytes ==
  /\ Reading /\ Node.k = "bytes"
  /\ \E len \in ReadValues(4, {0, Node.cap + 1}) :
       Get(4, SequenceHeader(ub, len, Node.cap), Elements(len, Node.cap))

GetOpt ==
  /\ Reading /\ Node.k = "opt"
  /\ \E flag \in ReadValues(1, Flags) :
       Get(1, Value(ub, 1), IF flag = 1 THEN Node.s ELSE <<>>)

\* Without a tag, or with one that has no case, nothing is chosen.
Chosen(alt, tag) == IF tag \in DOMAIN alt THEN alt[tag] ELSE Other
GetTag ==
  /\ Reading /\ Node.k = "tag"
  /\ \E tag \in ReadValues(Node.n, DOMAIN Node.alt) :
       Get(Node.n, Value(ub, Node.n),
           IF Value(ub, Node.n).error THEN <<>> ELSE Chosen(Node.alt, tag))

\* A list that is too long is an error and left unread, and what follows it fails.
ListFitsShort(count, cap) == count < cap
ListFits(count, cap) == count <= cap
GetList ==
  /\ Reading /\ Node.k = "list"
  /\ \E count \in ReadValues(4, {0, Node.cap + 1}) :
       Get(4, SequenceHeader(ub, count, Node.cap),
           IF ListFits(count, Node.cap) THEN Repeated(Node.s, count) ELSE <<>>)

EndReading ==
  /\ phase = "read" /\ todo = <<>>
  /\ phase' = "done"
  /\ UNCHANGED <<call, ub, foreign, todo, script, written, got, ok>>

---------------------------------------------------------------------------
Init ==
  /\ phase = "idle" /\ call = [dir |-> "none", name |-> "none"] /\ todo = <<>> /\ script = <<>>
  /\ ub = InitBuffer(<<1>>, 0, "none") /\ foreign = FALSE
  /\ written = <<>> /\ got = <<>> /\ ok = TRUE

Next ==
  \/ BeginBuffered \/ BeginOwnBuffer \/ BeginReceived \/ BeginBlob \/ EndBlob
  \/ PutInt \/ PutRaw \/ PutBytes \/ PutOpt \/ PutTag \/ PutList
  \/ SkipOther \/ AlignOrRebase \/ SetOrder \/ EndWriting
  \/ GetInt \/ GetRaw \/ GetData \/ GetBytes \/ GetOpt \/ GetTag \/ GetList \/ EndReading

Spec == Init /\ [][Next]_vars

---------------------------------------------------------------------------
\* The buffer stays a buffer: its iterator in its slots, its alignment one of the sizes.
TypeOK ==
  /\ phase \in {"idle", "blob", "write", "read", "done"}
  /\ ub \in Buffers /\ ub.at \in Nat /\ foreign \in BOOLEAN /\ ok \in BOOLEAN
  /\ \A i \in DOMAIN written : written[i].n \in DataSizes
  /\ \A i \in DOMAIN got : got[i].item \in 0..Len(written)

\* Every value is written at an offset that is a multiple of its size, though the
\* padding is left out whenever the last access was at least as large
\* (ucdr_buffer_alignment).
ValuesAligned == \A i \in DOMAIN written : written[i].offset % written[i].n = 0

\* The room computed by hand is enough: the client's message, its padding and the session
\* id included, never runs out of the slots cut for it, in one piece or in fragments
\* (uxr_common_create_entity, uxr_buffer_request_data, write_access.c, session.c).
FitsReservation ==
  call.dir = "out" =>
    ~ub.error /\ ub.slot <= Len(ub.ends) /\ ub.at <= SlotSize(ub)

\* What the client may count on: it keeps the order it was told only within the first slot,
\* and behind a requester's data it is in the wrong place.
Trusting ==
  /\ ub.slot = 1 \/ \A i \in DOMAIN written : ~written[i].foreign
  /\ call.name # "ReplyHeartbeat"

\* The values read are the values written, one by one and in order, as long as no function
\* has reported a failure: in any number of slots when they are in the machine's order, in
\* the first slot in either, and but for what follows a requester's data (the alignment of
\* reader and writer across slots, on_full_input_buffer, read_format_data).
ReadsBack ==
  ok /\ Trusting => \A i \in DOMAIN got : got[i].item = i

\* The reader never copies more elements than the array of the structure has, whatever
\* length the message announces (ucdr_deserialize_sequence_header).
NothingBeyondCapacity == \A i \in DOMAIN got : got[i].n <= got[i].cap

\* A message whose sequences fit, and whose order is the machine's or which is in one slot,
\* is read to its end without a failure, unless a requester's data come before.
ReadsAll ==
  (phase = "done" /\ call.dir = "in" /\ Trusting /\ \A i \in DOMAIN written : written[i].fits)
    => ok /\ Len(got) = Len(written)
=============================================================================
