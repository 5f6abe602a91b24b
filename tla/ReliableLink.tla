---------------------------- MODULE ReliableLink ----------------------------
(***************************************************************************)
(* A reliable output stream (output_reliable_stream.c), the network, and   *)
(* the reliable input stream of the peer (input_reliable_stream.c), with   *)
(* the parts of session.c that send, receive and acknowledge.              *)
(*                                                                         *)
(* The network loses, duplicates and reorders what the writer sends, and   *)
(* loses ACKNACKs but keeps their order.  A datagram carries the number    *)
(* of its slot, as the streams are built for; the headers of this          *)
(* repository leave it out.                                                *)
(***************************************************************************)
EXTENDS SeqNum, Sequences, SequencesExt

CONSTANTS
  MessageIds,       \* what is written
  Length,           \* bytes of each message
  Garbage,          \* what is read out of a piece of a message
  History,          \* slots of either stream, a power of two
  Capacity,         \* bytes of a slot
  FragmentHeaders,  \* whether uxr_buffer_submessage_header writes a header
  ClockRuns,        \* whether uxr_millis advances
  MaxFaults,        \* bound on losses, duplicates and late datagrams
  MaxAcks           \* bound on ACKNACKs in flight

ASSUME HistoryAssumption ==
  /\ History \in Nat \ {0} /\ 2 * History <= SEQ_NUM_MIDSIZE
  /\ SEQ_NUM_SIZE % History = 0
ASSUME SlotsAssumption ==
  /\ Capacity \in Nat /\ Length \in [MessageIds -> Nat \ {0}]
  /\ Garbage \notin MessageIds
  /\ FragmentHeaders \in BOOLEAN /\ ClockRuns \in BOOLEAN /\ MaxFaults \in Nat /\ MaxAcks \in Nat

VARIABLES
  out,             \* the slots of the writer
  last_written, last_sent, last_acknown,
  tries,           \* whether next_heartbeat_tries is not 0
  in,              \* the slots of the reader, <<>> for length 0
  last_handled, last_announced,
  net,             \* datagrams on their way to the reader
  acks,            \* ACKNACKs on their way to the writer
  got,             \* what the last step has read
  faults           \* losses, duplicates and late datagrams so far

writer == <<out, last_written, last_sent, last_acknown, tries>>
reader == <<in, last_handled, last_announced>>
vars == <<writer, reader, net, acks, got, faults>>

SUBHEADER_SIZE == 4
header_offset == 0          \* uxr_session_header_offset
Slots == 0 .. History - 1
Slot(s) == s % History
Block == Capacity - (header_offset + SUBHEADER_SIZE)
Aligned(size) == size + ((4 - (size % 4)) % 4)

(* A slot holds whole messages and fragments; in the first fragment of a   *)
(* message is its beginning, the submessage header.                        *)
Items == [msg : MessageIds, frag : {"whole", "part", "last"}, begins : BOOLEAN]
Item(m, frag, begins) == [msg |-> m, frag |-> frag, begins |-> begins]
EmptySlot == [size |-> header_offset, items |-> <<>>]

Init ==
  /\ out = [i \in Slots |-> EmptySlot]
  /\ last_written = 0 /\ last_sent = SEQ_NUM_MAX /\ last_acknown = SEQ_NUM_MAX
  /\ tries = FALSE
  /\ in = [i \in Slots |-> <<>>]
  /\ last_handled = SEQ_NUM_MAX /\ last_announced = SEQ_NUM_MAX
  /\ net = {} /\ acks = <<>> /\ got = <<>> /\ faults = 0

-----------------------------------------------------------------------------
(* uxr_prepare_reliable_buffer_to_write: three places for a message.       *)

Room(s) == seq_num_cmp(s, seq_num_add(last_acknown, History)) <= 0
FreeSlots == {i \in Slots : out[i].size = header_offset}
Current == out[Slot(last_written)]

FitsCurrent(m) == Aligned(Current.size) + Length[m] <= Capacity

(* Mutant (not the code's, a mistake the properties must notice): any      *)
(* message goes into a new slot.                                           *)
FitsNewUnchecked(m) == Length[m] > 0
FitsNew(m) == header_offset + Length[m] <= Capacity
FitsFragments(m) == Length[m] <= Block * Cardinality(FreeSlots)

WriteCurrent(m) ==
  /\ FitsCurrent(m)
  /\ Room(last_written)
  /\ out' = [out EXCEPT ![Slot(last_written)] =
               [size |-> Aligned(@.size) + Length[m],
                items |-> Append(@.items, Item(m, "whole", TRUE))]]
  /\ UNCHANGED last_written

WriteNew(m) ==
  /\ ~ FitsCurrent(m) /\ FitsNew(m)
  /\ LET s == seq_num_add(last_written, 1) IN
     /\ Room(s)
     /\ out' = [out EXCEPT ![Slot(s)] =
                  [size |-> header_offset + Length[m], items |-> <<Item(m, "whole", TRUE)>>]]
     /\ last_written' = s

(* The first fragment goes behind what the current slot holds if a header  *)
(* and a byte fit there; complete slots follow, and the rest.              *)
WriteFragments(m) ==
  /\ ~ FitsCurrent(m) /\ ~ FitsNew(m) /\ FitsFragments(m)
  /\ LET tight == Aligned(Current.size) + SUBHEADER_SIZE >= Capacity
         first == IF tight THEN seq_num_add(last_written, 1) ELSE last_written
         used == IF tight THEN out[Slot(first)].size ELSE Aligned(Current.size)
         rest == Length[m] - (Capacity - (used + SUBHEADER_SIZE))
         lastSize == IF rest % Block = 0 THEN Block ELSE rest % Block
         complete == (rest \div Block) + (IF rest % Block = 0 THEN 0 ELSE 1)
         last == seq_num_add(first, complete)
     IN /\ complete <= Cardinality(FreeSlots)
        /\ out' = [i \in Slots |->
             IF \E k \in 0 .. complete - 1 : i = Slot(seq_num_add(first, k))
             THEN [size |-> Capacity,
                   items |-> Append(out[i].items, Item(m, "part", i = Slot(first)))]
             ELSE IF i = Slot(last)
             THEN [size |-> header_offset + SUBHEADER_SIZE + lastSize,
                   items |-> Append(out[i].items, Item(m, "last", FALSE))]
             ELSE out[i]]
        /\ last_written' = last

Write(m) ==
  /\ WriteCurrent(m) \/ WriteNew(m) \/ WriteFragments(m)
  /\ got' = <<>>
  /\ UNCHANGED <<last_sent, last_acknown, tries, reader, net, acks, faults>>

-----------------------------------------------------------------------------
(* The network.                                                            *)

Datagram(s) == [seq |-> s, items |-> out[Slot(s)].items]
Heartbeat(s) == [seq |-> s, items |-> <<>>]

(* What of `sent` is lost is counted.  No datagram is so old that the      *)
(* writer has sent half the numbers since.                                 *)
Transmit(sent, rest, last, late) ==
  /\ \E lost \in SUBSET sent :
       /\ faults' = faults + Cardinality(lost) + late
       /\ faults' <= MaxFaults
       /\ net' = rest \cup (sent \ lost)
  /\ \A d \in rest : seq_num_sub(last, d.seq) < SEQ_NUM_MIDSIZE

-----------------------------------------------------------------------------
(* uxr_flash_output_streams on the stream: uxr_prepare_next_reliable_      *)
(* buffer_to_send until there is nothing to send.                          *)

(* Mutant: no look at how many slots wait for an acknowledgement.          *)
SendableUnbounded(k) ==
  LET s == seq_num_add(last_sent, k) IN
  /\ seq_num_cmp(s, last_written) <= 0
  /\ out[Slot(s)].size > header_offset

Sendable(k) ==
  LET s == seq_num_add(last_sent, k) IN
  /\ seq_num_cmp(s, last_written) <= 0
  /\ out[Slot(s)].size > header_offset
  /\ seq_num_sub(seq_num_add(last_sent, k - 1), last_acknown) # History

Burst == CHOOSE n \in 0 .. History : (\A k \in 1 .. n : Sendable(k)) /\ ~ Sendable(n + 1)

Flush ==
  /\ Burst > 0
  /\ last_sent' = seq_num_add(last_sent, Burst)
  /\ last_written' = IF last_sent' = last_written THEN seq_num_add(last_written, 1)
                     ELSE last_written
  /\ Transmit({Datagram(seq_num_add(last_sent, k)) : k \in 1 .. Burst}, net, last_sent', 0)
  /\ got' = <<>>
  /\ UNCHANGED <<out, last_acknown, tries, reader, acks>>

(* uxr_update_output_stream_heartbeat_timestamp, called before every wait  *)
(* for a message.  The first call after an ACKNACK only sets the time.     *)
Unconfirmed == seq_num_cmp(last_acknown, last_sent) < 0

ArmHeartbeat ==
  /\ Unconfirmed /\ ~ tries
  /\ tries' = TRUE
  /\ got' = <<>>
  /\ UNCHANGED <<out, last_written, last_sent, last_acknown, reader, net, acks, faults>>

(* Every wait puts the time of the heartbeat off to an interval from now,  *)
(* so that it has come only if the wait before began that long ago: by a   *)
(* clock that runs either may be, by one that stands still it never has.   *)
HeartbeatDue == IF ClockRuns THEN BOOLEAN ELSE {FALSE}

(* A wait at whose beginning the time has come; any other leaves all as it *)
(* is.  A datagram still on its way is late: it took longer than the       *)
(* interval of the heartbeats.                                             *)
SendHeartbeat ==
  /\ Unconfirmed /\ tries
  /\ \E due \in HeartbeatDue : due
  /\ Transmit({Heartbeat(last_sent)}, net, last_sent,
              IF net = {} /\ acks = <<>> THEN 0 ELSE 1)
  /\ got' = <<>>
  /\ UNCHANGED <<writer, reader, acks>>

-----------------------------------------------------------------------------
(* The reader.                                                             *)

Looks(items) == IF FragmentHeaders THEN Head(items).frag ELSE "whole"

(* check_last_fragment: the distance of the last fragment from `handled`,  *)
(* 0 if it is not found.                                                   *)
LastFragment(slots, handled) ==
  LET at(k) == slots[Slot(seq_num_add(handled, k))]
      found == {k \in 1 .. History :
                  /\ at(k) # <<>> /\ Looks(at(k)) = "last"
                  /\ \A j \in 1 .. k - 1 : at(j) # <<>> /\ Looks(at(j)) = "part"}
  IN IF found = {} THEN 0 ELSE CHOOSE k \in found : TRUE

(* read_submessage_list.  read_submessage has no case for a fragment: its  *)
(* header is passed over, and the piece is taken for a message.            *)
ReadItems(items) ==
  [k \in DOMAIN items |-> IF items[k].frag = "whole" THEN items[k].msg ELSE Garbage]

(* A fragmented message, read on from slot to slot, with its beginning or  *)
(* without.                                                                *)
PutTogether(piece) == IF piece.begins THEN piece.msg ELSE Garbage

(* Mutant: only the first slot of a fragmented message is cleared.         *)
ClearedFirst(r, n) == [r.in EXCEPT ![Slot(seq_num_add(r.handled, 1))] = <<>>]

(* The slots of a fragmented message are cleared as read_format_data goes  *)
(* through it.                                                             *)
Cleared(r, n) ==
  [i \in Slots |->
     IF \E k \in 1 .. n : i = Slot(seq_num_add(r.handled, k)) THEN <<>> ELSE r.in[i]]

(* uxr_next_input_reliable_buffer_available and the reading of what it     *)
(* gives.                                                                  *)
ReadNext(r) ==
  LET next == seq_num_add(r.handled, 1)
      items == r.in[Slot(next)]
      n == LastFragment(r.in, r.handled)
      last == seq_num_add(r.handled, n)
  IN IF items = <<>> THEN r
     ELSE IF Looks(items) = "whole"
     THEN [in |-> Cleared(r, 1), handled |-> next,
           read |-> r.read \o ReadItems(items)]
     ELSE IF n = 0 THEN r
     ELSE [in |-> Cleared(r, n), handled |-> last,
           read |-> r.read \o <<PutTogether(Head(items))>>
                           \o ReadItems(Tail(r.in[Slot(last)]))]

ReadAll(r) ==
  LET f[k \in 0 .. History] == IF k = 0 THEN r ELSE ReadNext(f[k - 1]) IN f[History]

(* uxr_get_first_unacked: the first number whose slot is empty.            *)

(* Mutant: the last number whose slot is empty.                            *)
FirstUnackedLast(slots, handled) ==
  LET empty == {k \in 1 .. History : slots[Slot(seq_num_add(handled, k))] = <<>>}
  IN IF empty = {} THEN handled
     ELSE seq_num_add(handled, CHOOSE k \in empty : \A j \in empty : k >= j)

FirstUnacked(slots, handled) ==
  LET empty == {k \in 1 .. History : slots[Slot(seq_num_add(handled, k))] = <<>>}
  IN IF empty = {} THEN handled
     ELSE seq_num_add(handled, CHOOSE k \in empty : \A j \in empty : k <= j)

(* uxr_compute_acknack: what is missing of the announced numbers, in a     *)
(* bitmap of sixteen; the writer only asks whether it is 0.                *)
AckNack(slots, handled, announced) ==
  LET from == FirstUnacked(slots, handled)
      count == seq_num_sub(announced, seq_num_sub(from, 1))
  IN [from |-> from,
      nack |-> \E i \in 0 .. 15 : i < count /\ slots[Slot(seq_num_add(from, i))] = <<>>]

Announced(s) == IF seq_num_cmp(last_announced, s) < 0 THEN s ELSE last_announced

(* write_submessage_acknack, for the reader's new state.                   *)
Acknowledge == acks' = Append(acks, AckNack(in', last_handled', last_announced'))

Valid(s) ==
  /\ seq_num_cmp(last_handled, s) < 0
  /\ seq_num_cmp(seq_num_add(last_handled, History), s) >= 0

(* read_stream on a datagram: uxr_receive_reliable_message, then whatever  *)
(* can be read.  A message in its turn is read from the datagram itself,   *)
(* any other is stored if its slot is empty.                               *)
Receive(d) ==
  LET next == seq_num_add(last_handled, 1)
      valid == Valid(d.seq)
      direct == valid /\ Looks(d.items) = "whole" /\ d.seq = next
      stored == valid /\ ~ direct /\ in[Slot(d.seq)] = <<>>
      slots == IF stored THEN [in EXCEPT ![Slot(d.seq)] = d.items] ELSE in
      ready == \/ direct
               \/ stored /\ Looks(d.items) # "whole" /\ LastFragment(slots, last_handled) > 0
      start == [in |-> slots,
                handled |-> IF direct THEN next ELSE last_handled,
                read |-> IF direct THEN ReadItems(d.items) ELSE <<>>]
      done == IF ready THEN ReadAll(start) ELSE start
  IN /\ d.items # <<>>
     /\ in' = done.in /\ last_handled' = done.handled /\ got' = done.read
     /\ last_announced' = Announced(d.seq)

(* Mutant: the heartbeat is acknowledged and not looked at.                *)
HeartbeatIgnored(d) ==
  /\ d.items = <<>>
  /\ got' = <<>>
  /\ UNCHANGED reader

(* read_submessage_heartbeat.                                              *)
ReceiveHeartbeat(d) ==
  /\ d.items = <<>>
  /\ last_announced' = Announced(d.seq)
  /\ got' = <<>>
  /\ UNCHANGED <<in, last_handled>>

(* A datagram arrives, and may arrive again.  Either kind is acknowledged. *)
Arrive(d) ==
  /\ Len(acks) < MaxAcks
  /\ Receive(d) \/ ReceiveHeartbeat(d)
  /\ Acknowledge
  /\ \/ net' = net \ {d} /\ UNCHANGED faults
     \/ faults < MaxFaults /\ faults' = faults + 1 /\ UNCHANGED net
  /\ UNCHANGED writer

LoseAck ==
  /\ acks # <<>> /\ faults < MaxFaults
  /\ acks' = Tail(acks) /\ faults' = faults + 1
  /\ got' = <<>>
  /\ UNCHANGED <<writer, reader, net>>

-----------------------------------------------------------------------------
(* Mutant: the first number that is not acknowledged is taken for one that *)
(* is.                                                                     *)
AckedOneMore(ack) == ack.from

Acked(ack) == seq_num_sub(ack.from, 1)

(* read_submessage_acknack: uxr_process_acknack clears the slots of what   *)
(* is acknowledged, and if anything is missing, all that is not            *)
(* acknowledged is sent again.                                             *)
ProcessAckNack ==
  /\ acks # <<>>
  /\ LET ack == Head(acks)
         acked == Acked(ack)
         toClean == seq_num_sub(acked, last_acknown)
         unacked == IF ~ ack.nack \/ seq_num_cmp(seq_num_add(acked, 1), last_sent) > 0 THEN {}
                    ELSE {seq_num_add(acked, k) : k \in 1 .. seq_num_sub(last_sent, acked)}
         again == {s \in unacked : out'[Slot(s)].size # header_offset}
     IN /\ last_acknown' = acked
        /\ out' = [i \in Slots |->
             IF \E k \in 1 .. toClean : i = Slot(seq_num_add(last_acknown, k))
             THEN EmptySlot ELSE out[i]]
        /\ tries' = FALSE
        /\ Transmit({[seq |-> s, items |-> out'[Slot(s)].items] : s \in again}, net, last_sent, 0)
  /\ acks' = Tail(acks)
  /\ got' = <<>>
  /\ UNCHANGED <<last_written, last_sent, reader>>

-----------------------------------------------------------------------------
Next ==
  \/ \E m \in MessageIds : Write(m)
  \/ Flush \/ ArmHeartbeat \/ SendHeartbeat
  \/ \E d \in net : Arrive(d)
  \/ LoseAck \/ ProcessAckNack

Spec == Init /\ [][Next]_vars

(* The peers go on waiting for messages, and the network does not pass     *)
(* over its oldest datagram for ever (a strong fairness with its enabling  *)
(* condition written out).  Nothing is asked of the heartbeats.            *)
Oldest(d) == \A e \in net : seq_num_cmp(d.seq, e.seq) <= 0
ArriveOldest == \E d \in net : Oldest(d) /\ Arrive(d)

FairSpec ==
  /\ Spec
  /\ []<>(net # {} /\ Len(acks) < MaxAcks) => []<><<ArriveOldest>>_vars
  /\ WF_vars(ProcessAckNack)

-----------------------------------------------------------------------------
(* Properties.                                                             *)

(* Type invariant: no slot holds more than its capacity.                   *)
TypeOK ==
  /\ out \in [Slots -> [size : 0 .. Capacity, items : Seq(Items)]]
  /\ last_written \in SeqNums /\ last_sent \in SeqNums /\ last_acknown \in SeqNums
  /\ tries \in BOOLEAN
  /\ in \in [Slots -> Seq(Items)]
  /\ last_handled \in SeqNums /\ last_announced \in SeqNums
  /\ net \subseteq [seq : SeqNums, items : Seq(Items)]
  /\ acks \in Seq([from : SeqNums, nack : BOOLEAN])
  /\ got \in Seq(MessageIds \cup {Garbage})
  /\ faults \in 0 .. MaxFaults

Dist(a, b) == seq_num_sub(b, a)
Between(a, b) == {seq_num_add(a, k) : k \in 1 .. Dist(a, b)}

(* The numbers of the two ends stay close enough for seq_num_cmp to order  *)
(* them, through any wrap: the writer is never more than a history ahead   *)
(* of its acknowledgements, writes at most into the slot behind them, and  *)
(* stays less than half the numbers ahead of the reader, although an       *)
(* ACKNACK may run ahead of what the reader has read.                      *)
Window ==
  /\ Dist(last_acknown, last_sent) <= History
  /\ Dist(last_sent, last_written) \in 1 .. History
  /\ Dist(last_acknown, last_written) <= History + 1
  /\ Dist(last_handled, last_sent) < SEQ_NUM_MIDSIZE

(* Whatever is sent and not acknowledged can be sent again, and as it was: *)
(* its slot is neither cleared nor written over, so every copy of it on    *)
(* its way holds the same.                                                 *)
Retransmittable ==
  \A s \in Between(last_acknown, last_sent) :
    /\ out[Slot(s)].items # <<>>
    /\ \A d \in net : d.seq = s /\ d.items # <<>> => d.items = out[Slot(s)].items

(* The writer forgets nothing the reader does not have: what is            *)
(* acknowledged and not yet read (fragments that wait for the rest) is in  *)
(* the reader's slots.                                                     *)
AckedIsKept ==
  seq_num_cmp(last_handled, last_acknown) < 0 =>
    \A s \in Between(last_handled, last_acknown) : in[Slot(s)] # <<>>

(* The streams are a reliable channel: what is written and not read is the *)
(* content of the slots from the reader's number on, wherever each is      *)
(* kept, and the reader reads it in order, once, fragments put together.   *)
Kept(s) == IF seq_num_cmp(s, last_acknown) <= 0 THEN in[Slot(s)] ELSE out[Slot(s)].items
LastFilled == IF Room(last_written) THEN last_written ELSE last_sent

(* The messages that end in a slot.  A part of one fills its slot, so that *)
(* nothing follows it.                                                     *)
Ends(items) ==
  LET ended == IF items # <<>> /\ Last(items).frag = "part" THEN Front(items) ELSE items
  IN [k \in DOMAIN ended |-> ended[k].msg]

Pending ==
  LET n == Dist(last_handled, LastFilled)
      f[k \in 0 .. n] ==
        IF k = 0 THEN <<>> ELSE f[k - 1] \o Ends(Kept(seq_num_add(last_handled, k)))
  IN f[n]

Channel == INSTANCE ReliableChannel WITH Messages <- MessageIds, pending <- Pending

ChannelSpec == Channel!Spec

(* One datagram repairs all that was lost before it: when nothing more is  *)
(* lost, and the last one that was sent, again or as a heartbeat, is on    *)
(* its way to the reader, or an ACKNACK of a reader that has heard of it   *)
(* to the writer, then the writer does not stay where it is.  Without such *)
(* a datagram only a heartbeat helps, and none is promised.                *)
Informed ==
  \/ \E d \in net : d.seq = last_sent
  \/ last_announced = last_sent /\ acks # <<>>

Progress ==
  \A s \in SeqNums :
    (Unconfirmed /\ Informed /\ last_acknown = s /\ faults = MaxFaults)
      ~> last_acknown # s

(* The output stream splits a message that fits in no slot ("Check if the  *)
(* message fit in a fragmented message", output_reliable_stream.c:100), so *)
(* that the peer can put it together: no piece is read as a message.       *)
PiecesPutTogether == \A i \in DOMAIN got : got[i] # Garbage
=============================================================================
