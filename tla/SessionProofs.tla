---------------------------- MODULE SessionProofs ----------------------------
(***************************************************************************)
(* Proofs about Session, for any number of request ids, attempts, calls    *)
(* and requests.                                                           *)
(*                                                                         *)
(* The inductive invariant says what each of the parts that outlive a call *)
(* may hold: every datagram and buffered request has the id its request    *)
(* was given, a list is lent only while its call runs, the flag a call     *)
(* waits for is down between two rounds, and a login or logout that began  *)
(* undisturbed meets only its own datagrams.                               *)
(***************************************************************************)
EXTENDS Session, WellFoundedInduction, TLAPS

-----------------------------------------------------------------------------
(* The inductive invariant.                                                *)

Unsent == [id : Ids, req : Nat]
Streams == [unsent : Seq(Unsent), last_sent : Nat, last_acknown : Nat, last_handled : Nat]
RequestIds == {UXR_REQUEST_LOGIN, UXR_REQUEST_LOGOUT, RESERVED_REQUESTS_ID} \cup Ids
Sessions ==
  [last_request_id : RequestIds, last_requested_status : Statuses,
   request_list : Seq(Nat), request_status_list_size : Nat, status_list : Seq(Statuses),
   on_data_flag : BOOLEAN, on_pong_flag : Pongs, synchronized : BOOLEAN,
   streams : Streams]
Kinds == SessionKinds \cup {"request", "status", "acknack", "get_info", "info",
                            "timestamp", "timestamp_reply", "topic"} \cup DataKinds
Msgs == [kind : Kinds, id : Nat, req : Nat, seq : Nat, result : Results]

(* A list that is lent, and the statuses that go with it.                  *)
ListRight(s) ==
  /\ Len(s.status_list) = Len(s.request_list)
  /\ s.request_status_list_size <= Len(s.request_list)

Typed ==
  /\ session \in Sessions /\ ListRight(session)
  /\ call \in [op : Calls \cup {"idle"}, left : 0 .. Attempts]
  /\ toAgent \subseteq Msgs /\ toClient \subseteq Msgs
  /\ agent \in [connected : BOOLEAN, sent : Nat, read : Nat, granted : SUBSET Nat]
  /\ ids \in Seq(Ids) /\ ambiguous \subseteq DOMAIN ids /\ quiet \in BOOLEAN

(* A datagram or a buffered request carries the id its request was given.  *)
OfRequest(given, id, req) == req \in DOMAIN given /\ id = given[req]

UnsentRight(given, s) ==
  \A i \in DOMAIN s.streams.unsent :
    OfRequest(given, s.streams.unsent[i].id, s.streams.unsent[i].req)
SentRight(given, m) == m.req # 0 \/ m.kind = "request" => OfRequest(given, m.id, m.req)
AnswerRight(given, granted, m) ==
  /\ m.req # 0 \/ m.kind \in {"status"} \cup DataKinds => OfRequest(given, m.id, m.req)
  /\ m.kind \in DataKinds \/ (m.kind = "status" /\ m.result = "OK") => m.req \in granted

(* A status of the list is one of a request with that id.                  *)
StatusesRight(given, granted, s) ==
  \A i \in DOMAIN s.status_list :
    s.status_list[i] = "OK" => \E q \in granted : given[q] = s.request_list[i]

(* Requests that may still be answered.                                    *)
Live(s, flight, granted) ==
  {s.streams.unsent[i].req : i \in DOMAIN s.streams.unsent}
    \cup {m.req : m \in flight} \cup granted

(* A request whose id one of these had before it is ambiguous.             *)
Marked(given, live, marked) ==
  \A q, r \in DOMAIN given : q < r /\ given[q] = given[r] /\ q \in live => r \in marked

RequestsRight(s, out, in, granted, given, marked) ==
  /\ granted \subseteq DOMAIN given
  /\ UnsentRight(given, s) /\ StatusesRight(given, granted, s)
  /\ \A m \in out : SentRight(given, m)
  /\ \A m \in in : AnswerRight(given, granted, m)
  /\ Marked(given, Live(s, out \cup in, granted), marked)

Requested == RequestsRight(session, toAgent, toClient, agent.granted, ids, ambiguous)

Lent == call.op \notin StatusCalls => session.request_status_list_size = 0

Heard == call.op \in {"data", "sync", "ping"} \cup Logins => ~Done(session)

(* The datagrams of a login or logout that began undisturbed.              *)
Agreed ==
  quiet =>
    /\ call.op = "create" =>
         /\ \A m \in toAgent : m.kind # "delete"
         /\ \A m \in toClient : /\ m.kind # "logout"
                                /\ m.kind = "status_agent" /\ m.result = "OK" => agent.connected
    /\ call.op = "delete" =>
         /\ \A m \in toAgent : m.kind # "create"
         /\ \A m \in toClient : /\ m.kind # "status_agent"
                                /\ m.kind = "logout" => ~agent.connected

IInv == Typed /\ Requested /\ Lent /\ Heard /\ Agreed

-----------------------------------------------------------------------------
(* What the functions of the session do to it.                             *)

(* The list is left alone.                                                 *)
ListKept(s, t) ==
  /\ t.request_list = s.request_list /\ t.status_list = s.status_list
  /\ t.request_status_list_size = s.request_status_list_size

(* A session that keeps its list, and of what is buffered all or nothing.  *)
Kept(s, t) ==
  /\ t \in Sessions /\ ListKept(s, t)
  /\ t.streams.unsent = s.streams.unsent \/ t.streams.unsent = <<>>

LEMMA KeptTwice ==
  ASSUME NEW s, NEW t, NEW u, Kept(s, t), Kept(t, u)
  PROVE  Kept(s, u)
  BY DEF Kept, ListKept

LEMMA IdsGenerated ==
  ASSUME NEW last \in RequestIds
  PROVE  generate_request_id(last) \in Ids
<1>1. RESERVED_REQUESTS_ID \in Nat /\ UINT16_MAX \in Nat /\ RESERVED_REQUESTS_ID < UINT16_MAX
  BY IdsAssumption
<1>2. last \in Nat /\ last <= UINT16_MAX
  BY <1>1, IdsAssumption DEF RequestIds, Ids, UXR_REQUEST_LOGIN, UXR_REQUEST_LOGOUT
<1> QED
  BY <1>1, <1>2 DEF generate_request_id, Ids

LEMMA IdsAreNumbers ==
  Ids \subseteq Nat /\ {UXR_REQUEST_LOGIN, UXR_REQUEST_LOGOUT, RESERVED_REQUESTS_ID} \subseteq Nat
  BY IdsAssumption DEF Ids, UXR_REQUEST_LOGIN, UXR_REQUEST_LOGOUT

LEMMA StreamsFlushed ==
  ASSUME NEW r \in Streams, NEW e \in Seq(Unsent), NEW n \in Nat
  PROVE  [r EXCEPT !.unsent = e, !.last_sent = n] \in Streams
  BY DEF Streams

LEMMA FlashKeeps ==
  ASSUME NEW s \in Sessions
  PROVE  /\ Kept(s, flash_output_streams(s)) /\ flash_output_streams(s).streams.unsent = <<>>
         /\ flash_output_streams(s).last_requested_status = s.last_requested_status
<1> DEFINE n == s.streams.last_sent + Len(s.streams.unsent)
<1>1. s.streams \in Streams
  BY DEF Sessions
<1>2. Len(s.streams.unsent) \in Nat /\ s.streams.last_sent \in Nat
  BY <1>1 DEF Streams
<1>3. n \in Nat
  BY <1>2
<1>4. flash_output_streams(s) =
        [s EXCEPT !.streams = [s.streams EXCEPT !.unsent = <<>>, !.last_sent = n]]
  BY <1>1 DEF flash_output_streams, Sessions, Streams
<1> HIDE DEF n
<1>5. [s.streams EXCEPT !.unsent = <<>>, !.last_sent = n] \in Streams
  <2>1. <<>> \in Seq(Unsent)
    OBVIOUS
  <2> QED
    BY <1>1, <1>3, <2>1, StreamsFlushed
<1> QED
  BY <1>1, <1>4, <1>5 DEF Sessions, Streams, Kept, ListKept

LEMMA ResetKeeps ==
  ASSUME NEW s \in Sessions
  PROVE  /\ Kept(s, reset_stream_storage(s)) /\ reset_stream_storage(s).streams.unsent = <<>>
         /\ reset_stream_storage(s).last_requested_status = s.last_requested_status
<1>1. NoStreams \in Streams /\ NoStreams.unsent = <<>>
  BY DEF NoStreams, Streams
<1> QED
  BY <1>1 DEF reset_stream_storage, Sessions, Kept, ListKept

LEMMA TakenBack ==
  ASSUME NEW s \in Sessions, ListRight(s)
  PROVE  /\ AtReturn(s) \in Sessions /\ ListRight(AtReturn(s))
         /\ AtReturn(s).request_list = s.request_list
         /\ AtReturn(s).status_list = s.status_list
         /\ AtReturn(s).request_status_list_size = 0
         /\ AtReturn(s).last_requested_status = s.last_requested_status
         /\ AtReturn(s).streams.unsent = s.streams.unsent \/ AtReturn(s).streams.unsent = <<>>
<1>1. ASSUME NEW t \in Sessions, ListKept(s, t)
      PROVE  /\ TakeBack(t) \in Sessions /\ ListRight(TakeBack(t))
             /\ TakeBack(t).request_list = s.request_list
             /\ TakeBack(t).status_list = s.status_list
             /\ TakeBack(t).request_status_list_size = 0
             /\ TakeBack(t).last_requested_status = t.last_requested_status
             /\ TakeBack(t).streams = t.streams
  <2>1. Len(s.request_list) \in Nat
    BY DEF Sessions
  <2> QED
    BY <1>1, <2>1 DEF TakeBack, Sessions, ListRight, ListKept
<1>2. /\ ListKept(s, s)
      /\ ListKept(s, reset_stream_storage(s)) /\ reset_stream_storage(s) \in Sessions
      /\ reset_stream_storage(s).streams.unsent = <<>>
      /\ reset_stream_storage(s).last_requested_status = s.last_requested_status
  BY ResetKeeps DEF Kept, ListKept
<1> QED
  BY <1>1, <1>2 DEF AtReturn

(* A request takes the next id, and the last place in the stream.          *)
LEMMA BufferedKeeps ==
  ASSUME NEW s \in Sessions, Len(ids) \in Nat
  PROVE  LET id == generate_request_id(s.last_request_id) IN
         /\ id \in Ids
         /\ Buffered(s) \in Sessions /\ ListKept(s, Buffered(s))
         /\ Buffered(s).streams.unsent =
              Append(s.streams.unsent, [id |-> id, req |-> Len(ids) + 1])
         /\ s.streams.unsent \in Seq(Unsent)
         /\ Buffered(s).last_requested_status = s.last_requested_status
         /\ Buffered(s).on_data_flag = s.on_data_flag
         /\ Buffered(s).on_pong_flag = s.on_pong_flag
         /\ Buffered(s).synchronized = s.synchronized
<1> DEFINE id == generate_request_id(s.last_request_id)
           n == Len(ids) + 1
           e == Append(s.streams.unsent, [id |-> id, req |-> n])
<1>1. id \in Ids /\ id \in RequestIds
  BY IdsGenerated DEF Sessions, RequestIds
<1>2. n \in Nat
  OBVIOUS
<1>3. s.streams \in Streams /\ s.streams.unsent \in Seq(Unsent)
  BY DEF Sessions, Streams
<1>4. Buffered(s) = [s EXCEPT !.last_request_id = id,
                              !.streams = [s.streams EXCEPT !.unsent = e]]
  BY <1>3 DEF Buffered, Sessions, Streams
<1> HIDE DEF id, n
<1>5. [id |-> id, req |-> n] \in Unsent
  BY <1>1, <1>2 DEF Unsent
<1>6. e \in Seq(Unsent)
  BY <1>3, <1>5
<1> HIDE DEF e
<1>7. [s.streams EXCEPT !.unsent = e] \in Streams
  BY <1>3, <1>6 DEF Streams
<1>8. Buffered(s) \in Sessions
  BY <1>1, <1>4, <1>7 DEF Sessions
<1>9. /\ ListKept(s, Buffered(s)) /\ Buffered(s).streams.unsent = e
      /\ Buffered(s).last_requested_status = s.last_requested_status
      /\ Buffered(s).on_data_flag = s.on_data_flag
      /\ Buffered(s).on_pong_flag = s.on_pong_flag
      /\ Buffered(s).synchronized = s.synchronized
  BY <1>3, <1>4 DEF Sessions, Streams, ListKept
<1> QED
  BY <1>1, <1>3, <1>8, <1>9 DEF id, n, e

LEMMA Lending ==
  ASSUME NEW s \in Sessions, NEW list \in Seq(Nat)
  PROVE  /\ Lend(s, list) \in Sessions /\ ListRight(Lend(s, list))
         /\ Lend(s, list).streams = s.streams
         /\ \A i \in DOMAIN Lend(s, list).status_list : Lend(s, list).status_list[i] = "NONE"
<1> DEFINE c == ClearStatuses(s, list)
           n == Len(list)
<1>1. c \in Seq(Statuses) /\ Len(c) = n /\ n \in Nat
      /\ \A i \in DOMAIN c : c[i] = "NONE"
  <2>1. c = [i \in 1 .. Len(list) |-> "NONE"] /\ "NONE" \in Statuses /\ Len(list) \in Nat
    BY DEF ClearStatuses, Statuses
  <2> HIDE DEF c
  <2> QED
    BY <2>1
<1>2. Lend(s, list) = [s EXCEPT !.request_list = list, !.status_list = c,
                                !.request_status_list_size = n]
  BY DEF Lend
<1> HIDE DEF c, n
<1>3. Lend(s, list) \in Sessions
  BY <1>1, <1>2 DEF Sessions
<1>4. /\ Lend(s, list).request_list = list /\ Lend(s, list).status_list = c
      /\ Lend(s, list).request_status_list_size = n /\ Lend(s, list).streams = s.streams
  BY <1>2 DEF Sessions
<1>5. n = Len(list)
  BY DEF n
<1> QED
  BY <1>1, <1>3, <1>4, <1>5 DEF ListRight

-----------------------------------------------------------------------------
(* Reading a datagram.                                                     *)

(* A status that is written is the one of the datagram, at its request.    *)
Processed(s, t, id, result) ==
  /\ t \in Sessions /\ t.request_list = s.request_list
  /\ t.request_status_list_size = s.request_status_list_size
  /\ Len(t.status_list) = Len(s.status_list)
  /\ \A i \in DOMAIN t.status_list :
       t.status_list[i] # s.status_list[i] => t.status_list[i] = result /\ s.request_list[i] = id
  /\ s.request_status_list_size = 0 => t.status_list = s.status_list
  /\ t.streams = s.streams /\ t.last_requested_status = s.last_requested_status

(* A non-empty set of places has a first one.                              *)
LEMMA Least ==
  ASSUME NEW T \in SUBSET Nat, T # {}
  PROVE  \E x \in T : \A y \in T : x <= y
<1>1. IsWellFoundedOn(OpToRel(<, Nat), Nat)
  BY NatLessThanWellFounded
<1>2. PICK x \in T : \A y \in T : <<y, x>> \notin OpToRel(<, Nat)
  BY <1>1, WFMin
<1>3. \A y \in T : ~(y < x)
  BY <1>2 DEF OpToRel
<1> QED
  BY <1>3

LEMMA StatusProcessed ==
  ASSUME NEW s \in Sessions, ListRight(s), NEW id \in Nat, NEW result \in Results
  PROVE  Processed(s, process_status(s, id, result), id, result)
<1> DEFINE places == {i \in 1 .. s.request_status_list_size : s.request_list[i] = id}
           p == CHOOSE i \in places : \A j \in places : i <= j
           to == [s.status_list EXCEPT ![p] = result]
<1>1. CASE places = {}
  BY <1>1 DEF process_status, Processed
<1>2. CASE places # {}
  <2>1. places \subseteq Nat
    BY DEF Sessions
  <2>2. p \in places
    <3>1. \E i \in places : \A j \in places : i <= j
      BY <1>2, <2>1, Least
    <3> QED
      BY <3>1
  <2>3. process_status(s, id, result) = [s EXCEPT !.status_list = to]
    BY <1>2 DEF process_status, Sessions
  <2>4. /\ s.request_list \in Seq(Nat) /\ s.status_list \in Seq(Statuses)
        /\ s.request_status_list_size \in Nat
    BY DEF Sessions
  <2>5. p \in 1 .. Len(s.status_list) /\ s.request_list[p] = id
        /\ s.request_status_list_size # 0
    BY <2>2, <2>4 DEF ListRight
  <2> HIDE DEF p
  <2>6. /\ to \in Seq(Statuses) /\ Len(to) = Len(s.status_list)
        /\ \A i \in DOMAIN to : to[i] # s.status_list[i] => to[i] = result /\ i = p
    BY <2>4, <2>5 DEF Statuses
  <2> HIDE DEF to
  <2> QED
    BY <2>3, <2>5, <2>6 DEF Processed, Sessions
<1> QED
  BY <1>1, <1>2

(* What a datagram may do to the session: grant a request of the list that *)
(* is lent, and bring the status of a login or a logout.                   *)
After(s, t, m) ==
  /\ t \in Sessions /\ t.request_list = s.request_list
  /\ t.request_status_list_size = s.request_status_list_size
  /\ Len(t.status_list) = Len(s.status_list)
  /\ \A i \in DOMAIN t.status_list :
       t.status_list[i] # s.status_list[i] /\ t.status_list[i] = "OK" =>
         /\ s.request_list[i] = m.id
         /\ m.kind \in DataKinds \/ (m.kind = "status" /\ m.result = "OK")
  /\ s.request_status_list_size = 0 => t.status_list = s.status_list
  /\ t.streams.unsent = s.streams.unsent
  /\ t.last_requested_status # s.last_requested_status =>
       t.last_requested_status = m.result /\ m.kind \in {"status_agent", "logout"}

LEMMA SubmessageRead ==
  ASSUME NEW s \in Sessions, ListRight(s), NEW m \in Msgs
  PROVE  After(s, read_submessage(s, m), m)
<1>1. /\ m.id \in Nat /\ m.seq \in Nat /\ m.result \in Results
      /\ "OK" \in Results /\ m.result \in Statuses
  BY DEF Msgs, Results, Statuses
<1>2. CASE m.kind = "status_agent"
  <2>1. read_submessage(s, m) = [s EXCEPT !.last_requested_status = m.result]
    BY <1>2 DEF read_submessage, uxr_read_create_session_status, DataKinds
  <2> QED
    BY <1>1, <1>2, <2>1 DEF After, Sessions
<1>3. CASE m.kind = "logout"
  <2>1. \/ read_submessage(s, m) = [s EXCEPT !.last_requested_status = m.result]
        \/ read_submessage(s, m) = s
    BY <1>3 DEF read_submessage, uxr_read_delete_session_status, DataKinds
  <2>2. After(s, [s EXCEPT !.last_requested_status = m.result], m)
    BY <1>1, <1>3 DEF After, Sessions
  <2>3. After(s, s, m)
    BY DEF After
  <2> QED
    BY <2>1, <2>2, <2>3
<1>4. CASE m.kind = "status"
  <2>1. read_submessage(s, m) = process_status(s, m.id, m.result)
    BY <1>4 DEF read_submessage, DataKinds
  <2> QED
    BY <1>1, <1>4, <2>1, StatusProcessed DEF After, Processed
<1>5. CASE m.kind \in DataKinds
  <2> DEFINE t == process_status(s, m.id, "OK")
  <2>1. read_submessage(s, m) = Noted(t, m.kind)
    BY <1>5 DEF read_submessage, read_submessage_data, DataKinds
  <2>2. Processed(s, t, m.id, "OK")
    BY <1>1, StatusProcessed
  <2> HIDE DEF t
  <2> DEFINE u == Noted(t, m.kind)
  <2>3. t \in Sessions
    BY <2>2 DEF Processed
  <2>4. /\ u \in Sessions /\ u.request_list = t.request_list
        /\ u.request_status_list_size = t.request_status_list_size
        /\ u.status_list = t.status_list /\ u.streams = t.streams
        /\ u.last_requested_status = t.last_requested_status
    BY <2>3 DEF Sessions, Noted
  <2> HIDE DEF u
  <2>5. After(s, u, m)
    BY <1>5, <2>2, <2>4 DEF After, Processed
  <2> QED
    BY <2>1, <2>5 DEF u
<1>6. CASE m.kind = "acknack"
  <2> DEFINE r == [s.streams EXCEPT !.last_acknown = m.seq]
  <2>1. s.streams \in Streams
    BY DEF Sessions
  <2>2. read_submessage(s, m) = [s EXCEPT !.streams = r]
    BY <1>6 DEF read_submessage
  <2>3. r \in Streams /\ r.unsent = s.streams.unsent
    BY <1>1, <2>1 DEF Streams
  <2> HIDE DEF r
  <2> QED
    BY <1>6, <2>2, <2>3 DEF After, Sessions
<1>7. CASE m.kind = "timestamp_reply"
  BY <1>7 DEF read_submessage, After, Sessions, DataKinds
<1>8. CASE m.kind = "info"
  <2>1. \E pong \in Pongs : read_submessage(s, m) = [s EXCEPT !.on_pong_flag = pong]
    BY <1>8 DEF read_submessage, read_submessage_info, Pongs
  <2> QED
    BY <2>1 DEF After, Sessions
<1>9. CASE m.kind \notin {"status_agent", "logout", "status", "acknack",
                          "timestamp_reply", "info"} \cup DataKinds
  <2>1. read_submessage(s, m) = s
    BY <1>9 DEF read_submessage
  <2> QED
    BY <2>1 DEF After
<1> QED
  BY <1>2, <1>3, <1>4, <1>5, <1>6, <1>7, <1>8, <1>9

LEMMA StreamRead ==
  ASSUME NEW s \in Sessions, ListRight(s), NEW m \in Msgs
  PROVE  After(s, read_stream(s, m), m)
<1>1. CASE StreamType(m) = "best_effort"
  <2>1. read_stream(s, m) = Noted(s, "on_topic")
    BY <1>1 DEF read_stream
  <2> QED
    BY <2>1 DEF After, Sessions, Noted
<1>2. CASE StreamType(m) # "best_effort" /\ StreamType(m) = "none"
  <2>1. read_stream(s, m) = read_submessage(s, m)
    BY <1>2 DEF read_stream
  <2> QED
    BY <2>1, SubmessageRead
<1>3. CASE StreamType(m) # "best_effort" /\ StreamType(m) # "none"
  <2> DEFINE r == [s.streams EXCEPT !.last_handled = m.seq]
             u == [s EXCEPT !.streams = r]
  <2>1. s.streams \in Streams /\ m.seq \in Nat
    BY DEF Sessions, Msgs
  <2>2. r \in Streams /\ r.unsent = s.streams.unsent
    BY <2>1 DEF Streams
  <2>3. read_stream(s, m) = IF IsNext(s, m) THEN read_submessage(u, m) ELSE s
    BY <1>3 DEF read_stream
  <2> HIDE DEF r
  <2>4. /\ u \in Sessions /\ ListRight(u) /\ u.request_list = s.request_list
        /\ u.request_status_list_size = s.request_status_list_size
        /\ u.status_list = s.status_list /\ u.streams.unsent = s.streams.unsent
        /\ u.last_requested_status = s.last_requested_status
    BY <2>2 DEF Sessions, ListRight
  <2> HIDE DEF u
  <2>5. After(u, read_submessage(u, m), m)
    BY <2>4, SubmessageRead
  <2>6. After(s, read_submessage(u, m), m)
    BY <2>4, <2>5 DEF After
  <2>7. After(s, s, m)
    BY DEF After
  <2> QED
    BY <2>3, <2>6, <2>7
<1> QED
  BY <1>1, <1>2, <1>3

-----------------------------------------------------------------------------
(* The requests, their ids and who may still answer them.                  *)

LEMMA RequestsKept ==
  ASSUME NEW s, NEW t, NEW out, NEW in, NEW out2, NEW in2,
         NEW granted, NEW given \in Seq(Ids), NEW marked,
         RequestsRight(s, out, in, granted, given, marked),
         UnsentRight(given, t), StatusesRight(given, granted, t),
         \A m \in out2 : SentRight(given, m), \A m \in in2 : AnswerRight(given, granted, m),
         Live(t, out2 \cup in2, granted) \subseteq Live(s, out \cup in, granted) \cup {0}
  PROVE  RequestsRight(t, out2, in2, granted, given, marked)
<1>1. 0 \notin DOMAIN given
  OBVIOUS
<1>2. Marked(given, Live(t, out2 \cup in2, granted), marked)
  BY <1>1 DEF RequestsRight, Marked
<1> QED
  BY <1>2 DEF RequestsRight

LEMMA FlushedRight ==
  ASSUME NEW s \in Sessions, NEW m \in Flushed(s)
  PROVE  /\ m \in Msgs /\ m.kind = "request"
         /\ \E i \in DOMAIN s.streams.unsent :
              m.id = s.streams.unsent[i].id /\ m.req = s.streams.unsent[i].req
<1> DEFINE out == s.streams.unsent
<1>1. s.streams \in Streams
  BY DEF Sessions
<1>2. out \in Seq(Unsent) /\ s.streams.last_sent \in Nat
  BY <1>1 DEF Streams
<1>3. PICK i \in DOMAIN out :
        m = [kind |-> "request", id |-> out[i].id, req |-> out[i].req,
             seq |-> s.streams.last_sent + i, result |-> "OK"]
  BY DEF Flushed, Msg
<1>4. i \in Nat /\ out[i] \in Unsent
  BY <1>2, <1>3
<1>5. s.streams.last_sent + i \in Nat
  BY <1>2, <1>4
<1>6. out[i].id \in Nat /\ out[i].req \in Nat
  BY <1>4, IdsAreNumbers DEF Unsent
<1>7. \A id, req, seq \in Nat :
        [kind |-> "request", id |-> id, req |-> req, seq |-> seq, result |-> "OK"] \in Msgs
  BY DEF Msgs, Results, Kinds
<1>8. m \in Msgs
  BY <1>3, <1>5, <1>6, <1>7
<1>9. m.kind = "request" /\ m.id = out[i].id /\ m.req = out[i].req
  BY <1>3
<1> QED
  BY <1>8, <1>9

(* A datagram that is about no request.                                    *)
NoRequest(m) == m.req = 0 /\ m.kind \notin {"request", "status"} \cup DataKinds

(* The client sends what was buffered, and datagrams about no request.     *)
LEMMA Sending ==
  ASSUME NEW s \in Sessions, NEW t, NEW out, NEW in, NEW out2, NEW in2,
         NEW granted, NEW given \in Seq(Ids), NEW marked,
         RequestsRight(s, out, in, granted, given, marked),
         t.streams.unsent = s.streams.unsent \/ t.streams.unsent = <<>>,
         StatusesRight(given, granted, t),
         \A m \in out2 : m \in out \/ m \in Flushed(s) \/ NoRequest(m),
         in2 \subseteq in
  PROVE  RequestsRight(t, out2, in2, granted, given, marked)
<1>1. UnsentRight(given, s) /\ \A m \in out : SentRight(given, m)
  BY DEF RequestsRight
<1>2. UnsentRight(given, t)
  BY <1>1 DEF UnsentRight
<1>3. \A m \in out2 : SentRight(given, m)
  <2> SUFFICES ASSUME NEW m \in out2 PROVE SentRight(given, m)
    OBVIOUS
  <2>1. CASE m \in Flushed(s)
    BY <1>1, <2>1, FlushedRight DEF UnsentRight, SentRight
  <2>2. CASE m \in out \/ NoRequest(m)
    BY <1>1, <2>2 DEF SentRight, NoRequest
  <2> QED
    BY <2>1, <2>2
<1>4. \A m \in in2 : AnswerRight(given, granted, m)
  BY DEF RequestsRight
<1>5. Live(t, out2 \cup in2, granted) \subseteq Live(s, out \cup in, granted) \cup {0}
  <2>1. \A i \in DOMAIN t.streams.unsent :
          t.streams.unsent[i].req \in Live(s, out \cup in, granted)
    BY DEF Live
  <2>2. \A m \in out2 : m.req \in Live(s, out \cup in, granted) \cup {0}
    <3> SUFFICES ASSUME NEW m \in out2
                 PROVE m.req \in Live(s, out \cup in, granted) \cup {0}
      OBVIOUS
    <3>1. CASE m \in Flushed(s)
      BY <3>1, FlushedRight DEF Live
    <3>2. CASE m \in out \/ NoRequest(m)
      BY <3>2 DEF Live, NoRequest
    <3> QED
      BY <3>1, <3>2
  <2>3. \A m \in in2 : m.req \in Live(s, out \cup in, granted)
    BY DEF Live
  <2>4. granted \subseteq Live(s, out \cup in, granted)
    BY DEF Live
  <2>5. ASSUME NEW q \in Live(t, out2 \cup in2, granted)
        PROVE  \/ \E i \in DOMAIN t.streams.unsent : q = t.streams.unsent[i].req
               \/ \E m \in out2 \cup in2 : q = m.req
               \/ q \in granted
    BY DEF Live
  <2> HIDE DEF Live
  <2> QED
    BY <2>1, <2>2, <2>3, <2>4, <2>5
<1> QED
  BY <1>2, <1>3, <1>4, <1>5, RequestsKept

(* A new request is ambiguous when another has its id.                     *)
LEMMA Remembering ==
  ASSUME NEW s \in Sessions, ids \in Seq(Ids), ambiguous \subseteq DOMAIN ids,
         RequestsRight(s, toAgent, toClient, agent.granted, ids, ambiguous),
         Remember(s)
  PROVE  /\ ids' \in Seq(Ids) /\ ambiguous' \subseteq DOMAIN ids'
         /\ RequestsRight(Buffered(s), toAgent, toClient, agent.granted, ids', ambiguous')
<1> DEFINE id == generate_request_id(s.last_request_id)
           n == Len(ids) + 1
           u == s.streams.unsent
           inUse == Live(s, InFlight, agent.granted)
<1>1. /\ id \in Ids /\ u \in Seq(Unsent) /\ Len(ids) \in Nat
      /\ Buffered(s).streams.unsent = Append(u, [id |-> id, req |-> n])
      /\ ListKept(s, Buffered(s))
  BY BufferedKeeps
<1>2. /\ ids' = Append(ids, id)
      /\ ambiguous' = IF \E r \in inUse \ {0} : ids[r] = id
                        THEN ambiguous \cup {n} ELSE ambiguous
  BY DEF Remember, Live, InFlight
<1> HIDE DEF id
<1>3. /\ ids' \in Seq(Ids) /\ DOMAIN ids' = DOMAIN ids \cup {n} /\ ids'[n] = id
      /\ \A q \in DOMAIN ids : ids'[q] = ids[q] /\ q < n /\ q # 0
      /\ n \in Nat /\ n # 0
  BY <1>1, <1>2
<1>4. ambiguous' \subseteq DOMAIN ids'
  BY <1>2, <1>3
<1>5. /\ agent.granted \subseteq DOMAIN ids
      /\ UnsentRight(ids, s) /\ StatusesRight(ids, agent.granted, s)
      /\ \A m \in toAgent : SentRight(ids, m)
      /\ \A m \in toClient : AnswerRight(ids, agent.granted, m)
      /\ Marked(ids, inUse, ambiguous)
  BY DEF RequestsRight, InFlight
<1> HIDE DEF n
<1> DEFINE e == [id |-> id, req |-> n]
<1>6. /\ DOMAIN Append(u, e) = DOMAIN u \cup {Len(u) + 1}
      /\ Append(u, e)[Len(u) + 1] = e /\ e.id = id /\ e.req = n
      /\ \A i \in DOMAIN u : Append(u, e)[i] = u[i]
  BY <1>1
<1> HIDE DEF e
<1>7. UnsentRight(ids', Buffered(s))
  BY <1>1, <1>3, <1>5, <1>6 DEF UnsentRight, OfRequest, e
<1>8. StatusesRight(ids', agent.granted, Buffered(s))
  BY <1>1, <1>3, <1>5 DEF StatusesRight, ListKept
<1>9. \A m \in toAgent : SentRight(ids', m)
  BY <1>3, <1>5 DEF SentRight, OfRequest
<1>10. \A m \in toClient : AnswerRight(ids', agent.granted, m)
  BY <1>3, <1>5 DEF AnswerRight, OfRequest
<1>11. Live(Buffered(s), InFlight, agent.granted) \subseteq inUse \cup {n}
  BY <1>1, <1>6 DEF Live, e
<1> HIDE DEF inUse
<1>12. Marked(ids', Live(Buffered(s), InFlight, agent.granted), ambiguous')
  <2> SUFFICES ASSUME NEW q \in DOMAIN ids', NEW r \in DOMAIN ids',
                      q < r, ids'[q] = ids'[r],
                      q \in Live(Buffered(s), InFlight, agent.granted)
               PROVE  r \in ambiguous'
    BY DEF Marked
  <2>1. q # n /\ q \in DOMAIN ids
    BY <1>3
  <2>2. q \in inUse
    BY <1>11, <2>1
  <2>3. CASE r = n
    <3>1. q \in inUse \ {0} /\ ids[q] = id
      BY <1>3, <2>1, <2>2, <2>3
    <3> QED
      BY <1>2, <2>3, <3>1
  <2>4. CASE r # n
    <3>1. r \in DOMAIN ids /\ ids[q] = ids[r]
      BY <1>3, <2>1, <2>4
    <3>2. r \in ambiguous
      BY <1>5, <2>1, <2>2, <3>1 DEF Marked
    <3> QED
      BY <1>2, <3>2
  <2> QED
    BY <2>3, <2>4
<1>13. agent.granted \subseteq DOMAIN ids'
  BY <1>3, <1>5
<1> QED
  BY <1>3, <1>4, <1>7, <1>8, <1>9, <1>10, <1>12, <1>13 DEF RequestsRight, InFlight

-----------------------------------------------------------------------------
(* The invariant holds at first, and every call begins with it.            *)

LEMMA Initial == Init => IInv
<1> SUFFICES ASSUME Init PROVE IInv
  OBVIOUS
<1>1. call.op = "idle" /\ call \in [op : Calls \cup {"idle"}, left : 0 .. Attempts]
  BY BoundsAssumption DEF Init, NoCall
<1>2. uxr_init_session \in Sessions /\ LoggedIn \in Sessions
  <2>1. /\ NoStreams \in Streams /\ <<>> \in Seq(Nat) /\ <<>> \in Seq(Statuses)
        /\ {RESERVED_REQUESTS_ID, UXR_REQUEST_LOGIN} \subseteq RequestIds
        /\ {"NONE", "OK"} \subseteq Statuses /\ "NO_PONG" \in Pongs
    BY DEF NoStreams, Streams, Statuses, Results, Pongs, RequestIds
  <2>2. uxr_init_session \in Sessions
    BY <2>1 DEF uxr_init_session, Sessions
  <2> QED
    BY <2>1, <2>2 DEF LoggedIn, Sessions
<1>3. /\ session.request_list = <<>> /\ session.status_list = <<>>
      /\ session.request_status_list_size = 0 /\ session.streams.unsent = <<>>
  <2>3. /\ uxr_init_session.request_list = <<>> /\ uxr_init_session.status_list = <<>>
        /\ uxr_init_session.request_status_list_size = 0
        /\ uxr_init_session.streams = NoStreams
    BY DEF uxr_init_session
  <2>4. ListKept(uxr_init_session, LoggedIn) /\ LoggedIn.streams = uxr_init_session.streams
    BY <1>2 DEF LoggedIn, Sessions, ListKept
  <2>1. \A s \in {uxr_init_session, LoggedIn} :
          /\ s.request_list = <<>> /\ s.status_list = <<>>
          /\ s.request_status_list_size = 0 /\ s.streams = NoStreams
    BY <2>3, <2>4 DEF ListKept
  <2>2. NoStreams.unsent = <<>>
    BY DEF NoStreams
  <2> QED
    BY <2>1, <2>2 DEF Init
<1>4. Typed
  <2>1. session \in Sessions
    BY <1>2 DEF Init
  <2>2. ListRight(session)
    BY <1>3 DEF ListRight
  <2>3. agent \in [connected : BOOLEAN, sent : Nat, read : Nat, granted : SUBSET Nat]
    BY DEF Init
  <2> QED
    BY <1>1, <2>1, <2>2, <2>3 DEF Init, Typed
<1>5. Requested
  BY <1>3 DEF Init, Requested, RequestsRight, UnsentRight, StatusesRight, Marked
<1> QED
  BY <1>1, <1>3, <1>4, <1>5 DEF IInv, Lent, Heard, Agreed, Logins

(* A call that begins keeps the list or lends one, and sends what was      *)
(* buffered or datagrams about no request.                                 *)
LEMMA Begun ==
  ASSUME IInv, NEW op \in Calls, NEW attempts \in 0 .. Attempts, Begin(op, attempts),
         session' \in Sessions, ListRight(session'),
         \/ session'.streams.unsent = session.streams.unsent
         \/ session'.streams.unsent = <<>>,
         \/ session'.status_list = session.status_list
              /\ session'.request_list = session.request_list
         \/ \A i \in DOMAIN session'.status_list : session'.status_list[i] = "NONE",
         NEW new \in SUBSET Msgs, toAgent' = toAgent \cup new,
         \A m \in new : m \in Flushed(session) \/ NoRequest(m),
         op = "create" => \A m \in new : m.kind # "delete",
         op = "delete" => \A m \in new : m.kind # "create",
         Lent', Heard'
  PROVE  IInv'
<1>1. /\ call' = [op |-> op, left |-> attempts]
      /\ quiet' = (op \in Logins => \A m \in InFlight : m.kind \notin SessionKinds)
      /\ UNCHANGED <<toClient, agent, ids, ambiguous, topics>>
  BY DEF Begin, Called
<1>2. Typed /\ Requested
  BY DEF IInv
<1>3. Typed'
  <2>1. call' \in [op : Calls \cup {"idle"}, left : 0 .. Attempts]
    BY <1>1
  <2>2. toAgent' \subseteq Msgs
    BY <1>2 DEF Typed
  <2>3. quiet' \in BOOLEAN
    BY <1>1
  <2>4. ListRight(session)'
    BY DEF ListRight
  <2> QED
    BY <1>1, <1>2, <2>1, <2>2, <2>3, <2>4 DEF Typed
<1>4. Requested'
  <2>1. RequestsRight(session, toAgent, toClient, agent.granted, ids, ambiguous)
        /\ session \in Sessions /\ ids \in Seq(Ids)
    BY <1>2 DEF Requested, Typed
  <2>2. StatusesRight(ids, agent.granted, session')
    BY <2>1 DEF RequestsRight, StatusesRight
  <2>3. RequestsRight(session', toAgent', toClient, agent.granted, ids, ambiguous)
    BY <2>1, <2>2, Sending
  <2> QED
    BY <1>1, <2>3 DEF Requested
<1>5. Agreed'
  BY <1>1 DEF Agreed, SessionKinds, Logins, InFlight
<1> QED
  BY <1>3, <1>4, <1>5 DEF IInv

(* Nothing runs in an idle session: no list is lent.                       *)
LEMMA IdleFacts ==
  ASSUME IInv, call = NoCall
  PROVE  /\ session \in Sessions /\ ListRight(session)
         /\ session.request_status_list_size = 0
  BY DEF IInv, Typed, Lent, NoCall, StatusCalls

LEMMA AttemptsRange == 0 \in 0 .. Attempts /\ Attempts \in 0 .. Attempts
  BY BoundsAssumption

(* The datagrams a call sends of its own.                                  *)
LEMMA PlainRight ==
  /\ \A kind \in Kinds : Plain(kind) \in Msgs /\ Plain(kind).kind = kind /\ Plain(kind).req = 0
  /\ \A result \in Results :
       /\ Msg("delete", UXR_REQUEST_LOGOUT, 0, 0, result) \in Msgs
       /\ NoRequest(Msg("delete", UXR_REQUEST_LOGOUT, 0, 0, result))
<1>1. UXR_REQUEST_LOGOUT \in Nat /\ "OK" \in Results /\ "delete" \in Kinds
  BY DEF UXR_REQUEST_LOGOUT, Results, Kinds, SessionKinds
<1> QED
  BY <1>1 DEF Plain, Msg, Msgs, NoRequest, DataKinds

LEMMA ListStaysRight ==
  ASSUME NEW s, NEW t, ListRight(s), ListKept(s, t)
  PROVE  ListRight(t)
  BY DEF ListRight, ListKept

LEMMA LoginWaits ==
  ASSUME NEW s \in Sessions, NEW id \in RequestIds
  PROVE  /\ Waiting([s EXCEPT !.last_request_id = id]) \in Sessions
         /\ ListKept(s, Waiting([s EXCEPT !.last_request_id = id]))
         /\ Waiting([s EXCEPT !.last_request_id = id]).streams = s.streams
         /\ Waiting([s EXCEPT !.last_request_id = id]).last_requested_status = "NONE"
<1> DEFINE t == [s EXCEPT !.last_request_id = id]
<1>1. t \in Sessions /\ ListKept(s, t) /\ t.streams = s.streams
  BY DEF Sessions, ListKept
<1> HIDE DEF t
<1>2. "NONE" \in Statuses
  BY DEF Statuses
<1>3. /\ Waiting(t) \in Sessions /\ ListKept(s, Waiting(t)) /\ Waiting(t).streams = s.streams
      /\ Waiting(t).last_requested_status = "NONE"
  BY <1>1, <1>2 DEF Waiting, Sessions, ListKept
<1> QED
  BY <1>3 DEF t

LEMMA CreateBegins ==
  ASSUME IInv, CreateSession
  PROVE  IInv'
<1>1. call = NoCall /\ Begin("create", Attempts) /\ "create" \in Calls
  BY DEF CreateSession, Begin, Called, Calls, Logins
<1>2. call'.op = "create"
  BY <1>1 DEF Begin
<1>3. /\ session \in Sessions /\ ListRight(session) /\ session.request_status_list_size = 0
  BY <1>1, IdleFacts
<1> DEFINE s == reset_stream_storage(session)
<1>4. s \in Sessions /\ ListKept(session, s) /\ s.streams.unsent = <<>>
  BY <1>3, ResetKeeps DEF Kept
<1>5. session' = Waiting([s EXCEPT !.last_request_id = UXR_REQUEST_LOGIN])
      /\ UXR_REQUEST_LOGIN \in RequestIds
  BY DEF CreateSession, RequestIds
<1> HIDE DEF s
<1>6. /\ session' \in Sessions /\ ListKept(s, session') /\ session'.streams = s.streams
      /\ session'.last_requested_status = "NONE"
  BY <1>4, <1>5, LoginWaits
<1>7. ListKept(session, session') /\ ListRight(session')
  BY <1>3, <1>4, <1>6, ListStaysRight DEF ListKept
<1>8. Lent' /\ Heard'
  BY <1>2, <1>3, <1>6, <1>7 DEF Lent, Heard, Done, Logins, ListKept
<1> DEFINE new == {Plain("create")}
<1>9. /\ new \in SUBSET Msgs /\ toAgent' = toAgent \cup new
      /\ \A m \in new : NoRequest(m) /\ m.kind # "delete"
  BY PlainRight DEF CreateSession, NoRequest, Kinds, SessionKinds, DataKinds
<1> HIDE DEF new
<1> QED
  BY <1>1, <1>4, <1>6, <1>7, <1>8, <1>9, AttemptsRange, Begun DEF ListKept

LEMMA DeleteBegins ==
  ASSUME IInv, DeleteSession
  PROVE  IInv'
<1>1. call = NoCall /\ Begin("delete", Attempts) /\ "delete" \in Calls
  BY DEF DeleteSession, Begin, Called, Calls, Logins
<1>2. call'.op = "delete"
  BY <1>1 DEF Begin
<1>3. /\ session \in Sessions /\ ListRight(session) /\ session.request_status_list_size = 0
  BY <1>1, IdleFacts
<1>4. session' = Waiting([session EXCEPT !.last_request_id = UXR_REQUEST_LOGOUT])
      /\ UXR_REQUEST_LOGOUT \in RequestIds
  BY DEF DeleteSession, RequestIds
<1>5. /\ session' \in Sessions /\ ListKept(session, session')
      /\ session'.streams = session.streams /\ session'.last_requested_status = "NONE"
  BY <1>3, <1>4, LoginWaits
<1>6. ListRight(session')
  BY <1>3, <1>5, ListStaysRight
<1>7. Lent' /\ Heard'
  BY <1>2, <1>3, <1>5 DEF Lent, Heard, Done, Logins, ListKept
<1> DEFINE new == {Msg("delete", UXR_REQUEST_LOGOUT, 0, 0, "OK")}
<1>8. /\ new \in SUBSET Msgs /\ toAgent' = toAgent \cup new
      /\ \A m \in new : NoRequest(m) /\ m.kind # "create"
  BY PlainRight DEF DeleteSession, Results, Msg
<1> HIDE DEF new
<1> QED
  BY <1>1, <1>5, <1>6, <1>7, <1>8, AttemptsRange, Begun DEF ListKept

LEMMA SyncBegins ==
  ASSUME IInv, SyncSession
  PROVE  IInv'
<1>1. call = NoCall /\ Begin("sync", 0) /\ "sync" \in Calls
  BY DEF SyncSession, Begin, Called, Calls, Loops
<1>2. call'.op = "sync"
  BY <1>1 DEF Begin
<1>3. /\ session \in Sessions /\ ListRight(session) /\ session.request_status_list_size = 0
  BY <1>1, IdleFacts
<1>4. /\ session' \in Sessions /\ ListKept(session, session')
      /\ session'.streams = session.streams /\ session'.synchronized = FALSE
  BY <1>3 DEF SyncSession, Sessions, ListKept
<1>5. ListRight(session')
  BY <1>3, <1>4, ListStaysRight
<1>6. Lent' /\ Heard'
  BY <1>2, <1>3, <1>4 DEF Lent, Heard, Done, Logins, ListKept
<1> DEFINE new == {Plain("timestamp")}
<1>7. /\ new \in SUBSET Msgs /\ toAgent' = toAgent \cup new /\ \A m \in new : NoRequest(m)
  BY PlainRight DEF SyncSession, NoRequest, Kinds, SessionKinds, DataKinds
<1> HIDE DEF new
<1> QED
  BY <1>1, <1>4, <1>5, <1>6, <1>7, AttemptsRange, Begun DEF ListKept

(* The run functions flush the streams.                                    *)
LEMMA RunBegins ==
  ASSUME IInv, NEW op \in Calls \ Logins, NEW attempts \in 0 .. Attempts,
         Begin(op, attempts), NEW s, session' = s,
         s \in Sessions, ListRight(s), s.streams.unsent = <<>>,
         \/ ListKept(session, s)
         \/ \A i \in DOMAIN s.status_list : s.status_list[i] = "NONE",
         NEW own \in SUBSET Msgs, \A m \in own : NoRequest(m),
         toAgent' = toAgent \cup (own \cup Flushed(session)),
         Lent', Heard'
  PROVE  IInv'
<1>1. session \in Sessions
  BY DEF IInv, Typed
<1>2. own \cup Flushed(session) \in SUBSET Msgs
  BY <1>1, FlushedRight
<1>3. op # "create" /\ op # "delete"
  BY DEF Logins
<1> QED
  BY <1>2, <1>3, Begun DEF ListKept

(* What every run function finds when it has flushed the streams.          *)
LEMMA FlushedSession ==
  ASSUME IInv, call = NoCall
  PROVE  LET s == flash_output_streams(session) IN
         /\ s \in Sessions /\ ListRight(s) /\ s.streams.unsent = <<>>
         /\ ListKept(session, s) /\ s.request_status_list_size = 0
<1> DEFINE s == flash_output_streams(session)
<1>1. /\ session \in Sessions /\ ListRight(session) /\ session.request_status_list_size = 0
  BY IdleFacts
<1>2. s \in Sessions /\ ListKept(session, s) /\ s.streams.unsent = <<>>
  BY <1>1, FlashKeeps DEF Kept
<1> HIDE DEF s
<1>3. ListRight(s) /\ s.request_status_list_size = 0
  BY <1>1, <1>2, ListStaysRight DEF ListKept
<1> QED
  BY <1>2, <1>3 DEF s

LEMMA FlushOnlyBegins ==
  ASSUME IInv, NEW op \in Once \cup {"timeout", "confirm"},
         Run(op, flash_output_streams(session))
  PROVE  IInv'
<1> DEFINE s == flash_output_streams(session)
           own == {}
<1>1. /\ call = NoCall /\ Begin(op, 0) /\ session' = s
      /\ toAgent' = toAgent \cup (own \cup Flushed(session))
  BY DEF Run, Begin, Called
<1>2. op \in Calls \ Logins /\ call'.op = op /\ call'.op \notin {"data", "sync", "ping"} \cup Logins
  BY <1>1 DEF Begin, Calls, Logins, Loops, Once
<1>3. /\ s \in Sessions /\ ListRight(s) /\ s.streams.unsent = <<>>
      /\ ListKept(session, s) /\ s.request_status_list_size = 0
  BY <1>1, FlushedSession
<1>4. Lent' /\ Heard'
  BY <1>1, <1>2, <1>3 DEF Lent, Heard
<1> HIDE DEF s
<1>5. own \in SUBSET Msgs /\ \A m \in own : NoRequest(m)
  OBVIOUS
<1> HIDE DEF own
<1> QED
  BY <1>1, <1>2, <1>3, <1>4, <1>5, AttemptsRange, RunBegins

LEMMA DataBegins ==
  ASSUME IInv, RunSessionUntilData
  PROVE  IInv'
<1> DEFINE s == flash_output_streams(session)
           t == ClearData(s)
           own == {}
<1>1. /\ call = NoCall /\ Begin("data", 0) /\ session' = t
      /\ toAgent' = toAgent \cup (own \cup Flushed(session))
  BY DEF RunSessionUntilData, Run, Begin, Called
<1>2. "data" \in Calls \ Logins /\ call'.op = "data"
  BY <1>1 DEF Begin, Calls, Logins, Loops
<1>3. /\ s \in Sessions /\ ListRight(s) /\ s.streams.unsent = <<>>
      /\ ListKept(session, s) /\ s.request_status_list_size = 0
  BY <1>1, FlushedSession
<1> HIDE DEF s
<1>4. /\ t \in Sessions /\ ListKept(s, t) /\ t.streams = s.streams /\ t.on_data_flag = FALSE
  BY <1>3 DEF ClearData, Sessions, ListKept
<1> HIDE DEF t
<1>5. ListKept(session, t) /\ ListRight(t) /\ t.request_status_list_size = 0
  BY <1>3, <1>4, ListStaysRight DEF ListKept
<1>6. Lent' /\ Heard'
  BY <1>1, <1>2, <1>4, <1>5 DEF Lent, Heard, Done, Logins
<1>7. own \in SUBSET Msgs /\ \A m \in own : NoRequest(m)
  OBVIOUS
<1> HIDE DEF own
<1> QED
  BY <1>1, <1>2, <1>3, <1>4, <1>5, <1>6, <1>7, AttemptsRange, RunBegins

LEMMA PingBegins ==
  ASSUME IInv, PingAgentSession
  PROVE  IInv'
<1> DEFINE s == flash_output_streams(session)
           t == ClearPong(s)
           own == {Plain("get_info")}
<1>1. /\ call = NoCall /\ Begin("ping", Attempts) /\ session' = t
      /\ toAgent' = toAgent \cup (own \cup Flushed(session))
  BY DEF PingAgentSession, PingDatagrams, Begin, Called
<1>2. "ping" \in Calls \ Logins /\ call'.op = "ping"
  BY <1>1 DEF Begin, Calls, Logins, Loops
<1>3. /\ s \in Sessions /\ ListRight(s) /\ s.streams.unsent = <<>>
      /\ ListKept(session, s) /\ s.request_status_list_size = 0
  BY <1>1, FlushedSession
<1> HIDE DEF s
<1>4. /\ t \in Sessions /\ ListKept(s, t) /\ t.streams = s.streams /\ t.on_pong_flag = "NO_PONG"
  BY <1>3 DEF ClearPong, Sessions, ListKept, Pongs
<1> HIDE DEF t
<1>5. ListKept(session, t) /\ ListRight(t) /\ t.request_status_list_size = 0
  BY <1>3, <1>4, ListStaysRight DEF ListKept
<1>6. Lent' /\ Heard'
  BY <1>1, <1>2, <1>4, <1>5 DEF Lent, Heard, Done, Logins
<1>7. own \in SUBSET Msgs /\ \A m \in own : NoRequest(m)
  BY PlainRight DEF NoRequest, Kinds, SessionKinds, DataKinds
<1> HIDE DEF own
<1> QED
  BY <1>1, <1>2, <1>3, <1>4, <1>5, <1>6, <1>7, AttemptsRange, RunBegins

LEMMA ListsTyped ==
  ASSUME IInv
  PROVE  Lists \subseteq Seq(Nat)
<1> DEFINE known == {ids[r] : r \in DOMAIN ids}
<1>1. known \subseteq Nat
  <2>1. ids \in Seq(Ids)
    BY DEF IInv, Typed
  <2>2. \A r \in DOMAIN ids : ids[r] \in Ids
    BY <2>1
  <2>3. Ids \subseteq Nat
    BY IdsAreNumbers
  <2> QED
    BY <2>2, <2>3
<1>2. Lists = {<<id>> : id \in known} \cup {<<UXR_INVALID_REQUEST_ID, id>> : id \in known}
                \cup {list \in known \X known : list[1] < list[2]}
  BY DEF Lists
<1> HIDE DEF known
<1>3. \A id \in known : <<id>> \in Seq(Nat)
  BY <1>1
<1>4. \A id \in known : <<UXR_INVALID_REQUEST_ID, id>> \in Seq(Nat)
  BY <1>1 DEF UXR_INVALID_REQUEST_ID
<1>5. \A list \in known \X known : list \in Seq(Nat)
  <2> SUFFICES ASSUME NEW list \in known \X known PROVE list \in Seq(Nat)
    OBVIOUS
  <2>1. PICK i \in known, j \in known : list = <<i, j>>
    OBVIOUS
  <2>2. <<i, j>> \in Seq(Nat)
    BY <1>1
  <2> QED
    BY <2>1, <2>2
<1> QED
  BY <1>2, <1>3, <1>4, <1>5

LEMMA StatusBegins ==
  ASSUME IInv, NEW op \in StatusCalls, NEW list \in Lists,
         Run(op, Lend(flash_output_streams(session), list))
  PROVE  IInv'
<1> DEFINE s == flash_output_streams(session)
           t == Lend(s, list)
           own == {}
<1>1. /\ call = NoCall /\ Begin(op, 0) /\ session' = t
      /\ toAgent' = toAgent \cup (own \cup Flushed(session))
  BY DEF Run, Begin, Called
<1>2. op \in Calls \ Logins /\ call'.op = op /\ call'.op \notin {"data", "sync", "ping"} \cup Logins
  BY <1>1 DEF Begin, Calls, Logins, Loops, StatusCalls
<1>3. s \in Sessions /\ s.streams.unsent = <<>>
  BY <1>1, FlushedSession
<1>4. list \in Seq(Nat)
  BY ListsTyped
<1> HIDE DEF s
<1>5. /\ t \in Sessions /\ ListRight(t) /\ t.streams = s.streams
      /\ \A i \in DOMAIN t.status_list : t.status_list[i] = "NONE"
  BY <1>3, <1>4, Lending
<1>6. Lent' /\ Heard'
  BY <1>2 DEF Lent, Heard
<1> HIDE DEF t
<1>7. own \in SUBSET Msgs /\ \A m \in own : NoRequest(m)
  OBVIOUS
<1> HIDE DEF own
<1> QED
  BY <1>1, <1>2, <1>3, <1>5, <1>6, <1>7, AttemptsRange, RunBegins

(* With nothing to confirm the call returns at once.                       *)
LEMMA NothingToConfirm ==
  ASSUME IInv, Called, session' = flash_output_streams(session),
         UNCHANGED <<call, toAgent, quiet>>
  PROVE  IInv'
<1> DEFINE s == flash_output_streams(session)
<1>1. /\ call = NoCall /\ call' = NoCall
      /\ UNCHANGED <<call, toAgent, quiet, toClient, agent, ids, ambiguous>>
  BY DEF Called
<1>2. /\ s \in Sessions /\ ListRight(s) /\ s.streams.unsent = <<>>
      /\ ListKept(session, s) /\ s.request_status_list_size = 0
  BY <1>1, FlushedSession
<1> HIDE DEF s
<1>3. Typed /\ Requested /\ session' = s
  BY DEF IInv, s
<1>4. Typed'
  BY <1>1, <1>2, <1>3 DEF Typed, ListRight
<1>5. Requested'
  <2>1. RequestsRight(session, toAgent, toClient, agent.granted, ids, ambiguous)
        /\ session \in Sessions /\ ids \in Seq(Ids)
    BY <1>3 DEF Requested, Typed
  <2>2. StatusesRight(ids, agent.granted, s)
    BY <1>2, <2>1 DEF RequestsRight, StatusesRight, ListKept
  <2>3. RequestsRight(s, toAgent, toClient, agent.granted, ids, ambiguous)
    BY <1>2, <2>1, <2>2, Sending
  <2> QED
    BY <1>1, <1>3, <2>3 DEF Requested
<1>6. Lent' /\ Heard' /\ Agreed'
  BY <1>1, <1>2, <1>3 DEF Lent, Heard, Agreed, NoCall, Logins
<1> QED
  BY <1>4, <1>5, <1>6 DEF IInv

(* A request is buffered between two calls.                                *)
LEMMA Buffering ==
  ASSUME IInv, BufferRequest
  PROVE  IInv'
<1>1. /\ call.op = "idle" /\ session' = Buffered(session) /\ Remember(session)
      /\ UNCHANGED <<call, toAgent, toClient, agent, quiet>>
  BY DEF BufferRequest, net
<1>2. Typed /\ Requested /\ Lent
  BY DEF IInv
<1>3. /\ session \in Sessions /\ ListRight(session) /\ ids \in Seq(Ids) /\ Len(ids) \in Nat
      /\ ambiguous \subseteq DOMAIN ids
      /\ RequestsRight(session, toAgent, toClient, agent.granted, ids, ambiguous)
  BY <1>2 DEF Typed, Requested
<1>4. /\ ids' \in Seq(Ids) /\ ambiguous' \subseteq DOMAIN ids'
      /\ RequestsRight(session', toAgent, toClient, agent.granted, ids', ambiguous')
  BY <1>1, <1>3, Remembering
<1>5. session' \in Sessions /\ ListKept(session, session')
  BY <1>1, <1>3, BufferedKeeps
<1>6. ListRight(session)'
  BY <1>3, <1>5 DEF ListRight, ListKept
<1>7. Typed'
  BY <1>1, <1>2, <1>4, <1>5, <1>6 DEF Typed
<1>8. Requested'
  BY <1>1, <1>4 DEF Requested
<1>9. Lent' /\ Heard' /\ Agreed'
  BY <1>1, <1>2, <1>5 DEF Lent, Heard, Agreed, Logins, ListKept
<1> QED
  BY <1>7, <1>8, <1>9 DEF IInv

-----------------------------------------------------------------------------
(* A round of the loop: the call goes on, tries again or returns.          *)

LEMMA ResentRight ==
  ASSUME NEW t \in Sessions, call.op \in {"create", "delete", "ping"}, NEW m \in Resent(t)
  PROVE  /\ m \in Msgs /\ (m \in Flushed(t) \/ NoRequest(m))
         /\ call.op = "create" => m.kind # "delete"
         /\ call.op = "delete" => m.kind # "create"
<1>1. CASE call.op = "create"
  <2>1. m = Plain("create")
    BY <1>1 DEF Resent
  <2> QED
    BY <1>1, <2>1, PlainRight DEF NoRequest, Kinds, SessionKinds, DataKinds
<1>2. CASE call.op = "delete"
  <2>1. m = Msg("delete", UXR_REQUEST_LOGOUT, 0, 0, "OK") /\ m.kind = "delete"
    BY <1>2 DEF Resent, Msg
  <2> QED
    BY <1>2, <2>1, PlainRight DEF Results
<1>3. CASE call.op = "ping"
  <2>1. m = Plain("get_info") \/ m \in Flushed(t)
    BY <1>3 DEF Resent, PingDatagrams
  <2> QED
    BY <1>3, <2>1, PlainRight, FlushedRight DEF NoRequest, Kinds, SessionKinds, DataKinds
<1> QED
  BY <1>1, <1>2, <1>3

LEMMA PongCleared ==
  ASSUME NEW s \in Sessions
  PROVE  /\ ClearPong(s) \in Sessions /\ ListKept(s, ClearPong(s))
         /\ ClearPong(s).streams = s.streams /\ ClearPong(s).on_pong_flag = "NO_PONG"
  BY DEF ClearPong, Sessions, ListKept, Pongs

(* What the session is after the round.                                    *)
LEMMA Stepped ==
  ASSUME call \in [op : Calls \cup {"idle"}, left : 0 .. Attempts],
         NEW t \in Sessions, ListRight(t), NEW late, Step(t, late)
  PROVE  /\ session' \in Sessions /\ ListRight(session')
         /\ session'.request_list = t.request_list /\ session'.status_list = t.status_list
         /\ session'.streams.unsent = t.streams.unsent \/ session'.streams.unsent = <<>>
         /\ \/ /\ call' = NoCall /\ session'.request_status_list_size = 0
               /\ session'.last_requested_status = t.last_requested_status
            \/ /\ call'.op = call.op /\ call'.left \in 0 .. Attempts
               /\ call' \in [op : Calls \cup {"idle"}, left : 0 .. Attempts]
               /\ session'.request_status_list_size = t.request_status_list_size
               /\ call.op \in {"data", "sync", "ping"} \cup Logins => ~Done(session)'
<1>1. CASE MayRetry(t, late)
  <2>1. /\ call.op \in Logins \cup {"ping"} /\ call.left > 1 /\ ~Satisfied(t)
        /\ call' = [call EXCEPT !.left = call.left - 1]
        /\ session' = IF call.op = "ping" THEN ClearPong(flash_output_streams(t)) ELSE t
    BY <1>1 DEF MayRetry, Step, Retry
  <2>2. /\ call'.op = call.op /\ call'.left \in 0 .. Attempts
        /\ call' \in [op : Calls \cup {"idle"}, left : 0 .. Attempts]
    <3>1. call.left - 1 \in 0 .. Attempts
      BY <2>1, BoundsAssumption
    <3> QED
      BY <2>1, <3>1
  <2>3. CASE call.op = "ping"
    <3> DEFINE u == flash_output_streams(t)
    <3>1. u \in Sessions /\ ListKept(t, u) /\ u.streams.unsent = <<>>
      BY FlashKeeps DEF Kept
    <3>2. session' = ClearPong(u)
      BY <2>1, <2>3
    <3> HIDE DEF u
    <3>3. /\ session' \in Sessions /\ ListKept(u, session') /\ session'.streams = u.streams
          /\ session'.on_pong_flag = "NO_PONG"
      BY <3>1, <3>2, PongCleared
    <3>4. ListKept(t, session') /\ ListRight(session')
      BY <3>1, <3>3, ListStaysRight DEF ListKept
    <3>5. ~Done(session)'
      BY <2>2, <2>3, <3>3 DEF Done, Logins
    <3> QED
      BY <2>2, <3>1, <3>3, <3>4, <3>5 DEF ListKept
  <2>4. CASE call.op # "ping"
    <3>1. session' = t /\ call.op \in Logins
      BY <2>1, <2>4
    <3>2. ~Done(session)'
      BY <2>1, <2>2, <2>4, <3>1 DEF Satisfied, Done
    <3> QED
      BY <2>2, <3>1, <3>2
  <2> QED
    BY <2>3, <2>4
<1>2. CASE ~MayRetry(t, late) /\ (call.op \in Once \/ Done(t) \/ late)
  <2>1. session' = AtReturn(t) /\ call' = NoCall
    BY <1>2 DEF Step, Return
  <2> QED
    BY <2>1, TakenBack
<1>3. CASE ~MayRetry(t, late) /\ ~(call.op \in Once \/ Done(t) \/ late)
  <2>1. session' = t /\ call' = call /\ ~Done(t)
    BY <1>3 DEF Step, GoOn
  <2>2. ~Done(session)'
    BY <2>1 DEF Done
  <2> QED
    BY <2>1, <2>2
<1> QED
  BY <1>1, <1>2, <1>3

(* What is right of the session before the round is right after it.        *)
LEMMA Stepping ==
  ASSUME IInv, call.op # "idle", NEW t \in Sessions, ListRight(t),
         ids' \in Seq(Ids), ambiguous' \subseteq DOMAIN ids',
         RequestsRight(t, toAgent, toClient, agent.granted, ids', ambiguous'),
         call.op \notin StatusCalls => t.request_status_list_size = 0,
         NEW late, Step(t, late), NEW answer \in SUBSET Msgs,
         \A m \in answer : NoRequest(m) /\ m.kind \notin SessionKinds,
         toAgent' = toAgent \cup answer \cup (IF MayRetry(t, late) THEN Resent(t) ELSE {}),
         toClient' \subseteq toClient, UNCHANGED <<agent, quiet>>
  PROVE  IInv'
<1> DEFINE sent == IF MayRetry(t, late) THEN Resent(t) ELSE {}
<1>1. Typed /\ Agreed /\ call \in [op : Calls \cup {"idle"}, left : 0 .. Attempts]
  BY DEF IInv, Typed
<1>2. /\ session' \in Sessions /\ ListRight(session')
      /\ session'.request_list = t.request_list /\ session'.status_list = t.status_list
      /\ session'.streams.unsent = t.streams.unsent \/ session'.streams.unsent = <<>>
      /\ \/ call' = NoCall /\ session'.request_status_list_size = 0
         \/ /\ call'.op = call.op
            /\ call' \in [op : Calls \cup {"idle"}, left : 0 .. Attempts]
            /\ session'.request_status_list_size = t.request_status_list_size
            /\ call.op \in {"data", "sync", "ping"} \cup Logins => ~Done(session)'
  BY <1>1, Stepped
<1>3. \A m \in sent : /\ m \in Msgs /\ (m \in Flushed(t) \/ NoRequest(m))
                      /\ call.op = "create" => m.kind # "delete"
                      /\ call.op = "delete" => m.kind # "create"
  <2>1. MayRetry(t, late) => call.op \in {"create", "delete", "ping"}
    BY DEF MayRetry, Logins
  <2> QED
    BY <2>1, ResentRight
<1>4. toAgent' = toAgent \cup answer \cup sent
  OBVIOUS
<1> HIDE DEF sent
<1>5. Typed'
  <2>1. call' \in [op : Calls \cup {"idle"}, left : 0 .. Attempts]
    BY <1>2, BoundsAssumption DEF NoCall
  <2>2. toAgent' \subseteq Msgs /\ toClient' \subseteq Msgs
    BY <1>1, <1>3, <1>4 DEF Typed
  <2>3. ListRight(session)'
    BY <1>2 DEF ListRight
  <2> QED
    BY <1>1, <1>2, <2>1, <2>2, <2>3 DEF Typed
<1>6. Requested'
  <2>1. StatusesRight(ids', agent.granted, session')
    BY <1>2 DEF RequestsRight, StatusesRight
  <2>2. \A m \in toAgent' : m \in toAgent \/ m \in Flushed(t) \/ NoRequest(m)
    BY <1>3, <1>4
  <2>3. RequestsRight(session', toAgent', toClient', agent.granted, ids', ambiguous')
    BY <1>2, <2>1, <2>2, Sending
  <2> QED
    BY <2>3 DEF Requested
<1>7. Lent'
  BY <1>2 DEF Lent
<1>8. Heard'
  BY <1>2 DEF Heard, NoCall, Logins
<1>9. Agreed'
  <2>1. call'.op \in {call.op, "idle"}
    BY <1>2 DEF NoCall
  <2>2. \A m \in answer : m.kind # "create" /\ m.kind # "delete"
    BY DEF SessionKinds
  <2> QED
    BY <1>1, <1>3, <1>4, <2>1, <2>2 DEF Agreed
<1> QED
  BY <1>5, <1>6, <1>7, <1>8, <1>9 DEF IInv

(* What the reader and its callback leave for the round.                   *)
LEMMA Listened ==
  ASSUME IInv, NEW m \in toClient, NEW writes \in BOOLEAN, NEW s, s = read_stream(session, m),
         NEW t, t = IF writes THEN Buffered(s) ELSE s,
         IF writes THEN Remember(s) ELSE UNCHANGED <<ids, ambiguous>>
  PROVE  /\ t \in Sessions /\ ListRight(t) /\ After(session, s, m)
         /\ t.request_list = s.request_list /\ t.status_list = s.status_list
         /\ t.request_status_list_size = session.request_status_list_size
         /\ t.last_requested_status = s.last_requested_status
         /\ ids' \in Seq(Ids) /\ ambiguous' \subseteq DOMAIN ids'
         /\ \A q \in DOMAIN ids : q \in DOMAIN ids' /\ ids'[q] = ids[q]
         /\ RequestsRight(t, toAgent, toClient, agent.granted, ids', ambiguous')
<1>1. /\ session \in Sessions /\ ListRight(session) /\ m \in Msgs
      /\ ids \in Seq(Ids) /\ Len(ids) \in Nat /\ ambiguous \subseteq DOMAIN ids
      /\ RequestsRight(session, toAgent, toClient, agent.granted, ids, ambiguous)
  BY DEF IInv, Typed, Requested
<1>2. After(session, s, m)
  BY <1>1, StreamRead
<1>3. /\ s \in Sessions /\ ListRight(s) /\ s.request_list = session.request_list
      /\ s.request_status_list_size = session.request_status_list_size
      /\ s.streams.unsent = session.streams.unsent
  BY <1>1, <1>2 DEF After, ListRight
<1>4. StatusesRight(ids, agent.granted, s)
  <2> SUFFICES ASSUME NEW i \in DOMAIN s.status_list, s.status_list[i] = "OK"
               PROVE \E q \in agent.granted : ids[q] = s.request_list[i]
    BY DEF StatusesRight
  <2>1. CASE s.status_list[i] = session.status_list[i]
    <3>1. i \in DOMAIN session.status_list
      <4>1. /\ Len(s.status_list) = Len(session.status_list)
            /\ s.status_list \in Seq(Statuses) /\ session.status_list \in Seq(Statuses)
        BY <1>1, <1>2, <1>3 DEF After, Sessions
      <4> QED
        BY <4>1
    <3> QED
      BY <1>1, <1>3, <2>1, <3>1 DEF RequestsRight, StatusesRight
  <2>2. CASE s.status_list[i] # session.status_list[i]
    <3>1. /\ session.request_list[i] = m.id
          /\ m.kind \in DataKinds \/ (m.kind = "status" /\ m.result = "OK")
      BY <1>2, <2>2 DEF After
    <3>2. m.req \in agent.granted /\ OfRequest(ids, m.id, m.req)
      BY <1>1, <3>1 DEF RequestsRight, AnswerRight
    <3> QED
      BY <1>3, <3>1, <3>2 DEF OfRequest
  <2> QED
    BY <2>1, <2>2
<1>5. RequestsRight(s, toAgent, toClient, agent.granted, ids, ambiguous)
  BY <1>1, <1>3, <1>4, Sending
<1>6. CASE writes
  <2>1. Remember(s) /\ t = Buffered(s)
    BY <1>6
  <2>2. /\ ids' \in Seq(Ids) /\ ambiguous' \subseteq DOMAIN ids'
        /\ RequestsRight(t, toAgent, toClient, agent.granted, ids', ambiguous')
    BY <1>1, <1>3, <1>5, <2>1, Remembering
  <2>3. /\ t \in Sessions /\ ListKept(s, t)
        /\ t.last_requested_status = s.last_requested_status
        /\ generate_request_id(s.last_request_id) \in Ids
    BY <1>1, <1>3, <2>1, BufferedKeeps
  <2>4. ListRight(t)
    BY <1>3, <2>3, ListStaysRight
  <2>5. \A q \in DOMAIN ids : q \in DOMAIN ids' /\ ids'[q] = ids[q]
    <3>1. ids' = Append(ids, generate_request_id(s.last_request_id))
      BY <2>1 DEF Remember
    <3> QED
      BY <1>1, <2>3, <3>1
  <2> QED
    BY <1>2, <1>3, <2>2, <2>3, <2>4, <2>5 DEF ListKept
<1>7. CASE ~writes
  <2>1. t = s /\ ids' = ids /\ ambiguous' = ambiguous
    BY <1>7
  <2> QED
    BY <1>1, <1>2, <1>3, <1>5, <2>1
<1> QED
  BY <1>6, <1>7

LEMMA Listens ==
  ASSUME IInv, NEW m \in toClient, NEW late, NEW writes \in BOOLEAN, Listen(m, late, writes)
  PROVE  IInv'
<1> DEFINE s == read_stream(session, m)
           t == IF writes THEN Buffered(s) ELSE s
<1>1. /\ call.op # "idle" /\ Step(t, late)
      /\ IF writes THEN Remember(s) ELSE UNCHANGED <<ids, ambiguous>>
      /\ toAgent' = toAgent \cup Answer(m) \cup (IF MayRetry(t, late) THEN Resent(t) ELSE {})
      /\ toClient' \subseteq toClient /\ UNCHANGED <<agent, quiet>>
  BY DEF Listen
<1> HIDE DEF s
<1>2. s = read_stream(session, m) /\ t = IF writes THEN Buffered(s) ELSE s
  BY DEF s
<1> HIDE DEF t
<1>3. /\ t \in Sessions /\ ListRight(t)
      /\ t.request_status_list_size = session.request_status_list_size
      /\ ids' \in Seq(Ids) /\ ambiguous' \subseteq DOMAIN ids'
      /\ RequestsRight(t, toAgent, toClient, agent.granted, ids', ambiguous')
  BY <1>1, <1>2, Listened
<1>4. call.op \notin StatusCalls => t.request_status_list_size = 0
  BY <1>3 DEF IInv, Lent
<1>5. Answer(m) \in SUBSET Msgs /\ \A a \in Answer(m) : NoRequest(a) /\ a.kind \notin SessionKinds
  BY PlainRight DEF Answer, NoRequest, Kinds, SessionKinds, DataKinds
<1> QED
  BY <1>1, <1>3, <1>4, <1>5, Stepping

LEMMA TimesOut ==
  ASSUME IInv, NEW late, ListenTimesOut(late)
  PROVE  IInv'
<1>1. /\ call.op # "idle" /\ Step(session, late)
      /\ toAgent' = toAgent \cup {}
                      \cup (IF MayRetry(session, late) THEN Resent(session) ELSE {})
      /\ UNCHANGED <<toClient, agent, ids, ambiguous, quiet>>
  BY DEF ListenTimesOut, history
<1>2. /\ session \in Sessions /\ ListRight(session)
      /\ ids' \in Seq(Ids) /\ ambiguous' \subseteq DOMAIN ids'
      /\ RequestsRight(session, toAgent, toClient, agent.granted, ids', ambiguous')
      /\ call.op \notin StatusCalls => session.request_status_list_size = 0
  BY <1>1 DEF IInv, Typed, Requested, Lent
<1> DEFINE none == {}
<1>3. none \in SUBSET Msgs /\ \A a \in none : NoRequest(a) /\ a.kind \notin SessionKinds
  OBVIOUS
<1>4. toAgent' = toAgent \cup none
                   \cup (IF MayRetry(session, late) THEN Resent(session) ELSE {})
  BY <1>1
<1> HIDE DEF none
<1> QED
  BY <1>1, <1>2, <1>3, <1>4, Stepping

-----------------------------------------------------------------------------
(* The agent.                                                              *)

Agents == [connected : BOOLEAN, sent : Nat, read : Nat, granted : SUBSET Nat]

LEMMA AgentActs ==
  ASSUME IInv, UNCHANGED <<session, call, ids, ambiguous, quiet>>,
         toAgent' \subseteq toAgent, NEW new \in SUBSET Msgs, toClient' = toClient \cup new,
         agent' \in Agents, Agreed',
         RequestsRight(session, toAgent', toClient', agent'.granted, ids, ambiguous)
  PROVE  IInv'
<1>1. Typed /\ Lent /\ Heard
  BY DEF IInv
<1>2. Typed'
  <2>1. toAgent' \subseteq Msgs /\ toClient' \subseteq Msgs
    BY <1>1 DEF Typed
  <2>2. ListRight(session)'
    BY <1>1 DEF Typed, ListRight
  <2> QED
    BY <1>1, <2>1, <2>2 DEF Typed, Agents
<1>3. Requested'
  BY DEF Requested
<1>4. Lent' /\ Heard'
  BY <1>1 DEF Lent, Heard, Done
<1> QED
  BY <1>2, <1>3, <1>4 DEF IInv

(* An answer about no request changes nothing about the requests.          *)
LEMMA AgentAnswersKeep ==
  ASSUME IInv, UNCHANGED <<session, call, ids, ambiguous, quiet>>,
         toAgent' \subseteq toAgent, NEW new \in SUBSET Msgs, toClient' = toClient \cup new,
         \A m \in new : NoRequest(m),
         agent' \in Agents, agent'.granted = agent.granted, Agreed'
  PROVE  IInv'
<1>1. /\ RequestsRight(session, toAgent, toClient, agent.granted, ids, ambiguous)
      /\ ids \in Seq(Ids)
  BY DEF IInv, Typed, Requested
<1>2. \A m \in toAgent' : SentRight(ids, m)
  BY <1>1 DEF RequestsRight
<1>3. \A m \in toClient' : AnswerRight(ids, agent.granted, m)
  BY <1>1 DEF RequestsRight, AnswerRight, NoRequest
<1>4. Live(session, toAgent' \cup toClient', agent.granted)
        \subseteq Live(session, toAgent \cup toClient, agent.granted) \cup {0}
  BY DEF Live, NoRequest
<1>5. UnsentRight(ids, session) /\ StatusesRight(ids, agent.granted, session)
  BY <1>1 DEF RequestsRight
<1>6. RequestsRight(session, toAgent', toClient', agent.granted, ids, ambiguous)
  BY <1>1, <1>2, <1>3, <1>4, <1>5, RequestsKept
<1> QED
  BY <1>6, AgentActs

LEMMA Creating ==
  ASSUME IInv, NEW m \in toAgent, NEW result \in Results, AgentCreate(m, result)
  PROVE  IInv'
<1> DEFINE a == Msg("status_agent", 0, 0, 0, result)
<1>1. /\ m.kind = "create" /\ toAgent' \subseteq toAgent /\ toClient' = toClient \cup {a}
      /\ UNCHANGED <<session, call, ids, ambiguous, quiet>>
      /\ agent' = IF result = "OK"
                    THEN [agent EXCEPT !.connected = TRUE, !.sent = 0, !.read = 0] ELSE agent
  BY DEF AgentCreate, Takes, Sends
<1>2. /\ a \in Msgs /\ NoRequest(a) /\ a.kind = "status_agent" /\ a.result = result
  BY DEF Msg, Msgs, NoRequest, Kinds, SessionKinds, DataKinds
<1> HIDE DEF a
<1>3. agent \in Agents
  BY DEF IInv, Typed, Agents
<1>4. /\ agent' \in Agents /\ agent'.granted = agent.granted
      /\ IF result = "OK" THEN agent'.connected = TRUE ELSE agent' = agent
  BY <1>1, <1>3 DEF Agents
<1>5. Agreed'
  BY <1>1, <1>2, <1>4 DEF IInv, Agreed
<1> DEFINE new == {a}
<1>6. new \in SUBSET Msgs /\ toClient' = toClient \cup new /\ \A d \in new : NoRequest(d)
  BY <1>1, <1>2
<1> HIDE DEF new
<1> QED
  BY <1>1, <1>4, <1>5, <1>6, AgentAnswersKeep

LEMMA Deleting ==
  ASSUME IInv, NEW m \in toAgent, AgentDelete(m)
  PROVE  IInv'
<1> DEFINE a == Msg("logout", m.id, 0, 0, IF agent.connected THEN "OK" ELSE "ERROR")
<1>1. /\ m.kind = "delete" /\ toAgent' \subseteq toAgent /\ toClient' = toClient \cup {a}
      /\ UNCHANGED <<session, call, ids, ambiguous, quiet>>
      /\ agent' = [agent EXCEPT !.connected = FALSE]
  BY DEF AgentDelete, Takes, Sends
<1>2. a \in Msgs /\ NoRequest(a) /\ a.kind = "logout"
  <2>1. m.id \in Nat
    BY DEF IInv, Typed, Msgs
  <2> QED
    BY <2>1 DEF Msg, Msgs, NoRequest, Kinds, SessionKinds, Results, DataKinds
<1> HIDE DEF a
<1>3. agent \in Agents
  BY DEF IInv, Typed, Agents
<1>4. agent' \in Agents /\ agent'.granted = agent.granted /\ agent'.connected = FALSE
  BY <1>1, <1>3 DEF Agents
<1>5. Agreed'
  BY <1>1, <1>2, <1>4 DEF IInv, Agreed
<1> DEFINE new == {a}
<1>6. new \in SUBSET Msgs /\ toClient' = toClient \cup new /\ \A d \in new : NoRequest(d)
  BY <1>1, <1>2
<1> HIDE DEF new
<1> QED
  BY <1>1, <1>4, <1>5, <1>6, AgentAnswersKeep

LEMMA Answering ==
  ASSUME IInv, NEW m \in toAgent, AgentAnswer(m)
  PROVE  IInv'
<1> DEFINE new == CASE m.kind = "get_info" ->
                         {Msg("info", 0, 0, 0, IF agent.connected THEN "OK" ELSE "ERROR")}
                    [] m.kind = "timestamp" -> {Plain("timestamp_reply")}
                    [] OTHER -> {}
<1>1. /\ toAgent' \subseteq toAgent /\ toClient' = toClient \cup new
      /\ UNCHANGED <<session, call, ids, ambiguous, quiet, agent>>
  BY DEF AgentAnswer, Takes, Sends
<1>2. \A result \in Results :
        /\ Msg("info", 0, 0, 0, result) \in Msgs
        /\ Msg("info", 0, 0, 0, result).kind = "info"
        /\ Msg("info", 0, 0, 0, result).req = 0
  BY DEF Msg, Msgs, Kinds
<1>3. /\ Plain("timestamp_reply") \in Msgs /\ Plain("timestamp_reply").kind = "timestamp_reply"
      /\ Plain("timestamp_reply").req = 0
  BY PlainRight DEF Kinds
<1>4. \A a \in new : a \in Msgs /\ a.req = 0 /\ a.kind \in {"info", "timestamp_reply"}
  <2>1. \/ new = {Msg("info", 0, 0, 0, IF agent.connected THEN "OK" ELSE "ERROR")}
        \/ new = {Plain("timestamp_reply")} \/ new = {}
    OBVIOUS
  <2> HIDE DEF new
  <2>2. (IF agent.connected THEN "OK" ELSE "ERROR") \in Results
    BY DEF Results
  <2> QED
    BY <1>2, <1>3, <2>1, <2>2
<1> HIDE DEF new
<1>5. \A a \in new : a \in Msgs /\ NoRequest(a) /\ a.kind # "logout" /\ a.kind # "status_agent"
  BY <1>4 DEF NoRequest, DataKinds
<1>6. agent' \in Agents /\ agent'.granted = agent.granted
  BY <1>1 DEF IInv, Typed, Agents
<1>7. Agreed'
  BY <1>1, <1>5 DEF IInv, Agreed
<1> QED
  BY <1>1, <1>5, <1>6, <1>7, AgentAnswersKeep

(* A request is read: its status carries its id, and it may be granted.    *)
LEMMA Requesting ==
  ASSUME IInv, NEW m \in toAgent, NEW result \in Results, AgentRequest(m, result)
  PROVE  IInv'
<1> DEFINE status == Msg("status", m.id, m.req, agent.sent + 1, result)
           acknack == Msg("acknack", 0, 0, m.seq, "OK")
           granted == IF result = "OK" THEN agent.granted \cup {m.req} ELSE agent.granted
           new == {status, acknack}
<1>1. /\ m.kind = "request" /\ toAgent' \subseteq toAgent
      /\ UNCHANGED <<session, call, ids, ambiguous, quiet>>
  BY DEF AgentRequest, Takes
<1>2. /\ RequestsRight(session, toAgent, toClient, agent.granted, ids, ambiguous)
      /\ ids \in Seq(Ids) /\ agent \in Agents /\ m \in Msgs
  BY DEF IInv, Typed, Requested, Agents
<1>3. CASE agent' = agent /\ toClient' = toClient
  <2> DEFINE none == {}
  <2>1. none \in SUBSET Msgs /\ \A a \in none : NoRequest(a)
    OBVIOUS
  <2>2. toClient' = toClient \cup none
    BY <1>3
  <2> HIDE DEF none
  <2>3. Agreed'
    BY <1>1, <1>3 DEF IInv, Agreed
  <2> QED
    BY <1>1, <1>2, <1>3, <2>1, <2>2, <2>3, AgentAnswersKeep
<1>4. CASE /\ agent' = [agent EXCEPT !.read = m.seq, !.sent = @ + 1, !.granted = granted]
           /\ toClient' = toClient \cup new
  <2>1. /\ m.id \in Nat /\ m.req \in Nat /\ m.seq \in Nat /\ agent.sent + 1 \in Nat
        /\ granted \in SUBSET Nat
    BY <1>2 DEF Msgs, Agents
  <2>2. agent' \in Agents /\ agent'.granted = granted /\ agent'.connected = agent.connected
    <3> HIDE DEF granted
    <3> QED
      BY <1>2, <1>4, <2>1 DEF Agents
  <2>3. /\ status.kind = "status" /\ status.id = m.id /\ status.req = m.req
        /\ status.result = result /\ status \in Msgs
    <3> HIDE DEF granted
    <3> QED
      BY <2>1 DEF Msg, Msgs, Kinds
  <2>4. acknack.kind = "acknack" /\ acknack.req = 0 /\ acknack \in Msgs
    BY <2>1 DEF Msg, Msgs, Kinds, Results
  <2> HIDE DEF status, acknack
  <2>5. OfRequest(ids, m.id, m.req)
    BY <1>1, <1>2 DEF RequestsRight, SentRight
  <2>6. /\ granted \subseteq DOMAIN ids /\ agent.granted \subseteq granted
        /\ granted \subseteq agent.granted \cup {m.req}
        /\ result = "OK" => m.req \in granted
    BY <1>2, <2>5 DEF RequestsRight, OfRequest
  <2> HIDE DEF granted
  <2>7. UnsentRight(ids, session) /\ StatusesRight(ids, granted, session)
    BY <1>2, <2>6 DEF RequestsRight, StatusesRight
  <2>8. \A a \in toAgent' : SentRight(ids, a)
    BY <1>1, <1>2 DEF RequestsRight
  <2>9. \A a \in toClient' : AnswerRight(ids, granted, a)
    BY <1>2, <1>4, <2>3, <2>4, <2>5, <2>6 DEF RequestsRight, AnswerRight, DataKinds
  <2>10. Marked(ids, Live(session, toAgent' \cup toClient', granted), ambiguous)
    <3>1. Live(session, toAgent' \cup toClient', granted)
            \subseteq Live(session, toAgent \cup toClient, agent.granted) \cup {0}
      BY <1>1, <1>4, <2>3, <2>4, <2>6 DEF Live
    <3>2. 0 \notin DOMAIN ids
      BY <1>2
    <3> QED
      BY <1>2, <3>1, <3>2 DEF RequestsRight, Marked
  <2>11. RequestsRight(session, toAgent', toClient', agent'.granted, ids, ambiguous)
    BY <2>2, <2>6, <2>7, <2>8, <2>9, <2>10 DEF RequestsRight
  <2>12. Agreed'
    BY <1>1, <1>4, <2>2, <2>3, <2>4 DEF IInv, Agreed
  <2>13. new \in SUBSET Msgs
    BY <2>3, <2>4
  <2> HIDE DEF new
  <2> QED
    BY <1>1, <1>4, <2>2, <2>11, <2>12, <2>13, AgentActs
<1> QED
  BY <1>3, <1>4 DEF AgentRequest, Sends

(* A topic, a ping, or the data of a request the agent has granted.        *)
LEMMA Publishing ==
  ASSUME IInv, AgentPublishes
  PROVE  IInv'
<1>1. UNCHANGED <<session, call, toAgent, ids, ambiguous, quiet>>
  BY DEF AgentPublishes
<1>2. /\ RequestsRight(session, toAgent, toClient, agent.granted, ids, ambiguous)
      /\ ids \in Seq(Ids) /\ agent \in Agents
  BY DEF IInv, Typed, Requested, Agents
<1>3. ASSUME NEW kind \in {"topic", "get_info"}, toClient' = toClient \cup {Plain(kind)},
             agent' = agent
      PROVE  IInv'
  <2> DEFINE new == {Plain(kind)}
  <2>1. new \in SUBSET Msgs /\ \A m \in new : NoRequest(m) /\ m.kind \notin SessionKinds
    BY PlainRight DEF NoRequest, Kinds, SessionKinds, DataKinds
  <2> HIDE DEF new
  <2>2. toClient' = toClient \cup new
    BY <1>3 DEF new
  <2>3. Agreed'
    BY <1>1, <1>3, <2>1, <2>2 DEF IInv, Agreed, SessionKinds
  <2> QED
    BY <1>1, <1>2, <1>3, <2>1, <2>2, <2>3, AgentAnswersKeep
<1>4. ASSUME NEW r \in agent.granted, NEW kind \in Publications,
             toClient' = toClient \cup {Msg(kind, ids[r], r, agent.sent + 1, "OK")},
             agent' = [agent EXCEPT !.sent = @ + 1]
      PROVE  IInv'
  <2> DEFINE d == Msg(kind, ids[r], r, agent.sent + 1, "OK")
             new == {d}
  <2>1. r \in DOMAIN ids /\ r \in Nat /\ ids[r] \in Ids
    BY <1>2 DEF RequestsRight
  <2>2. agent.sent + 1 \in Nat
    BY <1>2 DEF Agents
  <2>3. agent' \in Agents /\ agent'.granted = agent.granted /\ agent'.connected = agent.connected
    BY <1>2, <1>4, <2>2 DEF Agents
  <2>4. /\ d.kind \in DataKinds /\ d.id = ids[r] /\ d.req = r /\ d \in Msgs
    BY <2>1, <2>2, IdsAreNumbers, CallbacksAssumption DEF Msg, Msgs, Kinds, Results
  <2>5. toClient' = toClient \cup new /\ new = {d}
    BY <1>4
  <2> HIDE DEF d
  <2>6. \A m \in toClient' : AnswerRight(ids, agent.granted, m)
    BY <1>2, <2>1, <2>4, <2>5 DEF RequestsRight, AnswerRight, OfRequest
  <2>7. Live(session, toAgent' \cup toClient', agent.granted)
          \subseteq Live(session, toAgent \cup toClient, agent.granted) \cup {0}
    BY <1>1, <2>4, <2>5 DEF Live
  <2>8. /\ UnsentRight(ids, session) /\ StatusesRight(ids, agent.granted, session)
        /\ \A m \in toAgent' : SentRight(ids, m)
    BY <1>1, <1>2 DEF RequestsRight
  <2>9. RequestsRight(session, toAgent', toClient', agent'.granted, ids, ambiguous)
    BY <1>2, <2>3, <2>6, <2>7, <2>8, RequestsKept
  <2>10. Agreed'
    BY <1>1, <2>3, <2>4, <2>5 DEF IInv, Agreed, DataKinds
  <2>11. new \in SUBSET Msgs
    BY <2>4
  <2> HIDE DEF new
  <2> QED
    BY <1>1, <2>3, <2>5, <2>9, <2>10, <2>11, AgentActs
<1> QED
  BY <1>3, <1>4 DEF AgentPublishes, Sends

-----------------------------------------------------------------------------
(* Every step keeps the invariant.                                         *)

LEMMA NextKeeps ==
  ASSUME IInv, [Next]_vars
  PROVE  IInv'
<1>1. CASE BufferRequest
  BY <1>1, Buffering
<1>2. CASE CreateSession \/ DeleteSession
  BY <1>2, CreateBegins, DeleteBegins
<1>3. CASE RunSessionTime \/ RunSessionUntilTimeout \/ RunSessionTimeout
  <2>1. PICK op \in Once \cup {"timeout"} : Run(op, flash_output_streams(session))
    BY <1>3 DEF RunSessionTime, RunSessionUntilTimeout, RunSessionTimeout, Once
  <2> QED
    BY <2>1, FlushOnlyBegins
<1>4. CASE RunSessionUntilData
  BY <1>4, DataBegins
<1>5. CASE RunSessionUntilConfirmDelivery
  <2>1. \/ Run("confirm", flash_output_streams(session))
        \/ /\ Called /\ session' = flash_output_streams(session)
           /\ UNCHANGED <<call, toAgent, quiet>>
    BY <1>5 DEF RunSessionUntilConfirmDelivery
  <2> QED
    BY <2>1, FlushOnlyBegins, NothingToConfirm
<1>6. CASE RunSessionUntilAllStatus \/ RunSessionUntilOneStatus
  <2>1. PICK op \in StatusCalls, list \in Lists :
          Run(op, Lend(flash_output_streams(session), list))
    BY <1>6 DEF RunSessionUntilAllStatus, RunSessionUntilOneStatus, StatusCalls
  <2> QED
    BY <2>1, StatusBegins
<1>7. CASE SyncSession \/ PingAgentSession
  BY <1>7, SyncBegins, PingBegins
<1>8. CASE \E m \in toClient, late \in Deadlines, writes \in BOOLEAN : Listen(m, late, writes)
  BY <1>8, Listens
<1>9. CASE \E late \in Deadlines : ListenTimesOut(late)
  BY <1>9, TimesOut
<1>10. CASE AgentStep
  BY <1>10, Creating, Requesting, Deleting, Answering, Publishing DEF AgentStep
<1>11. CASE UNCHANGED vars
  BY <1>11 DEF vars, net, history, IInv, Typed, ListRight, Requested, Lent, Heard, Done,
               Agreed, output_streams_confirmed, StatusKnown
<1> QED
  BY <1>1, <1>2, <1>3, <1>4, <1>5, <1>6, <1>7, <1>8, <1>9, <1>10, <1>11 DEF Next, ListenSome

LEMMA Invariance == Spec => []IInv
<1>1. Init => IInv
  BY Initial
<1>2. IInv /\ [Next]_vars => IInv'
  BY NextKeeps
<1> QED
  BY <1>1, <1>2, PTL DEF Spec

(* The variables of the session keep their types, a list that is lent has  *)
(* as many places as statuses, and every request has an id that no login   *)
(* or logout uses.                                                         *)
THEOREM SessionTyped == Spec => []TypeOK
<1>1. IInv => TypeOK
  <2> SUFFICES ASSUME IInv PROVE TypeOK
    OBVIOUS
  <2>1. Typed
    BY DEF IInv
  <2>2. /\ session.request_status_list_size \in 0 .. Len(session.request_list)
        /\ Len(session.status_list) = Len(session.request_list)
    <3>1. /\ session.request_status_list_size \in Nat /\ Len(session.request_list) \in Nat
      BY <2>1 DEF Typed, Sessions
    <3> QED
      BY <2>1, <3>1 DEF Typed, ListRight
  <2>3. /\ session.last_request_id \in RequestIds
        /\ session.last_requested_status \in Statuses
        /\ session.status_list \in Seq(Statuses)
        /\ session.on_pong_flag \in Pongs
        /\ session.on_data_flag \in BOOLEAN /\ session.synchronized \in BOOLEAN
    BY <2>1 DEF Typed, Sessions
  <2>4. \A i \in DOMAIN session.status_list : session.status_list[i] \in Statuses
    BY <2>3
  <2>5. \A r \in DOMAIN ids : ids[r] \in Ids
    BY <2>1 DEF Typed
  <2>6. call.op \in Calls \cup {"idle"} /\ call.left \in 0 .. Attempts
    BY <2>1 DEF Typed
  <2> QED
    BY <2>1, <2>2, <2>3, <2>4, <2>5, <2>6 DEF Typed, TypeOK, RequestIds
<1> QED
  BY <1>1, Invariance, PTL

-----------------------------------------------------------------------------
(* A call returns only from a round of its loop.                           *)
LEMMA Returning ==
  ASSUME IInv, [Next]_vars, call.op # "idle", call'.op = "idle"
  PROVE  /\ agent' = agent /\ session'.request_list = session.request_list
         /\ \A q \in DOMAIN ids : q \in DOMAIN ids' /\ ids'[q] = ids[q]
         /\ session'.last_requested_status # session.last_requested_status =>
              \E m \in toClient : /\ session'.last_requested_status = m.result
                                  /\ m.kind \in {"status_agent", "logout"}
<1>1. /\ call \in [op : Calls \cup {"idle"}, left : 0 .. Attempts]
      /\ session \in Sessions /\ ListRight(session)
  BY DEF IInv, Typed
<1>2. CASE \E m \in toClient, late \in Deadlines, writes \in BOOLEAN : Listen(m, late, writes)
  <2>1. PICK m \in toClient, late \in Deadlines, writes \in BOOLEAN : Listen(m, late, writes)
    BY <1>2
  <2> DEFINE s == read_stream(session, m)
             t == IF writes THEN Buffered(s) ELSE s
  <2>2. /\ Step(t, late) /\ agent' = agent
        /\ IF writes THEN Remember(s) ELSE UNCHANGED <<ids, ambiguous>>
    BY <2>1 DEF Listen
  <2> HIDE DEF s
  <2>3. s = read_stream(session, m) /\ t = IF writes THEN Buffered(s) ELSE s
    BY DEF s
  <2> HIDE DEF t
  <2>4. /\ t \in Sessions /\ ListRight(t) /\ After(session, s, m)
        /\ t.request_list = s.request_list
        /\ t.last_requested_status = s.last_requested_status
        /\ \A q \in DOMAIN ids : q \in DOMAIN ids' /\ ids'[q] = ids[q]
    BY <2>2, <2>3, Listened
  <2>5. /\ session'.request_list = t.request_list
        /\ session'.last_requested_status = t.last_requested_status
    BY <1>1, <2>2, <2>4, Stepped
  <2> QED
    BY <2>2, <2>4, <2>5 DEF After
<1>3. CASE \E late \in Deadlines : ListenTimesOut(late)
  <2>1. PICK late \in Deadlines : ListenTimesOut(late)
    BY <1>3
  <2>2. Step(session, late) /\ agent' = agent /\ ids' = ids
    BY <2>1 DEF ListenTimesOut, history
  <2>3. /\ session'.request_list = session.request_list
        /\ session'.last_requested_status = session.last_requested_status
    BY <1>1, <2>2, Stepped
  <2> QED
    BY <2>2, <2>3
<1>4. CASE UNCHANGED call
  BY <1>4
<1>5. ~Called
  BY DEF Called, NoCall
<1>6. AgentStep \/ UNCHANGED vars => UNCHANGED call
  BY DEF AgentStep, AgentCreate, AgentDelete, AgentRequest, AgentAnswer, AgentPublishes,
         Takes, vars
<1>7. /\ ~BufferRequest /\ ~CreateSession /\ ~DeleteSession /\ ~SyncSession /\ ~PingAgentSession
      /\ ~RunSessionTime /\ ~RunSessionUntilTimeout /\ ~RunSessionTimeout
      /\ ~RunSessionUntilData /\ ~RunSessionUntilConfirmDelivery
      /\ ~RunSessionUntilAllStatus /\ ~RunSessionUntilOneStatus
  BY <1>5 DEF BufferRequest, CreateSession, DeleteSession, SyncSession, PingAgentSession,
              RunSessionTime, RunSessionUntilTimeout, RunSessionTimeout, RunSessionUntilData,
              RunSessionUntilConfirmDelivery, RunSessionUntilAllStatus,
              RunSessionUntilOneStatus, Run, Begin
<1> QED
  BY <1>2, <1>3, <1>4, <1>6, <1>7 DEF Next, ListenSome

(* A login or logout that returns true, begun when none of its datagrams   *)
(* was on its way, has the agent's agreement: the status it took was the   *)
(* answer to one of its own attempts.                                      *)
THEOREM LoginsAgreed == Spec => SessionAgreed
<1> DEFINE A == quiet => /\ ReturnsTrue("create") => agent.connected
                         /\ ReturnsTrue("delete") => ~agent.connected
<1>1. IInv /\ [Next]_vars => A
  <2> SUFFICES ASSUME IInv, [Next]_vars, quiet,
                      NEW op \in Logins, ReturnsTrue(op)
               PROVE  /\ op = "create" => agent.connected
                      /\ op = "delete" => ~agent.connected
    BY DEF Logins
  <2>1. /\ call.op = op /\ op # "idle" /\ call'.op = "idle"
        /\ session'.last_requested_status = "OK"
    BY DEF ReturnsTrue, Idle, Value, Logins
  <2>2. session.last_requested_status = "NONE"
    BY <2>1 DEF IInv, Heard, Done, Logins
  <2>3. PICK m \in toClient : m.result = "OK" /\ m.kind \in {"status_agent", "logout"}
    BY <2>1, <2>2, Returning
  <2> QED
    BY <2>1, <2>3 DEF IInv, Agreed
<1>2. IInv /\ [Next]_vars => [A]_vars
  BY <1>1
<1>3. [][A]_vars <=> SessionAgreed
  BY DEF SessionAgreed
<1> QED
  BY <1>2, <1>3, Invariance, PTL DEF Spec

(* A call that returns true for a flag has seen it go up: it was down when *)
(* the last round began.                                                   *)
THEOREM FlagsFresh == Spec => HeardInCall
<1> DEFINE A == /\ ReturnsTrue("data") => ~session.on_data_flag
                /\ ReturnsTrue("sync") => ~session.synchronized
                /\ ReturnsTrue("ping") => session.on_pong_flag # "PONG_IN_SESSION"
<1>1. IInv => A
  BY DEF IInv, Heard, ReturnsTrue, Done, Logins
<1>2. [][A]_vars <=> HeardInCall
  BY DEF HeardInCall
<1> QED
  BY <1>1, <1>2, Invariance, PTL DEF Spec

(* A call that returns true for a list was answered about requests that    *)
(* have these ids, and the last request of an id is meant unless another   *)
(* one had the same id when it was made.                                   *)
THEOREM StatusesOwn == Spec => StatusesBelong
<1> DEFINE A == ReturnsTrue("all_status") =>
                  \A r \in DOMAIN ids :
                    /\ \E i \in DOMAIN session.request_list : session.request_list[i] = ids[r]
                    /\ \A q \in DOMAIN ids : ids[q] = ids[r] => q <= r
                    => r \in ambiguous \cup agent.granted
<1>1. IInv /\ [Next]_vars => A
  <2> SUFFICES ASSUME IInv, [Next]_vars, ReturnsTrue("all_status"),
                      NEW r \in DOMAIN ids, NEW i \in DOMAIN session.request_list,
                      session.request_list[i] = ids[r],
                      \A q \in DOMAIN ids : ids[q] = ids[r] => q <= r,
                      r \notin agent.granted
               PROVE  r \in ambiguous
    OBVIOUS
  <2>1. /\ call.op = "all_status" /\ call'.op = "idle"
        /\ \A j \in DOMAIN session'.status_list : session'.status_list[j] = "OK"
    BY DEF ReturnsTrue, Idle, Value, Logins
  <2>2. /\ agent' = agent /\ session'.request_list = session.request_list
        /\ \A q \in DOMAIN ids : q \in DOMAIN ids' /\ ids'[q] = ids[q]
    BY <2>1, Returning
  <2>3. Typed' /\ Requested' /\ Typed /\ Requested
    BY NextKeeps DEF IInv
  <2>4. i \in DOMAIN session'.status_list
    <3>1. /\ Len(session'.status_list) = Len(session'.request_list)
          /\ session'.status_list \in Seq(Statuses) /\ session'.request_list \in Seq(Nat)
      BY <2>3 DEF Typed, ListRight, Sessions
    <3> QED
      BY <2>2, <3>1
  <2>5. PICK q \in agent.granted : ids'[q] = ids[r]
    <3>1. StatusesRight(ids', agent'.granted, session')
      BY <2>3 DEF Requested, RequestsRight
    <3> QED
      BY <2>1, <2>2, <2>4, <3>1 DEF StatusesRight
  <2>6. q \in DOMAIN ids /\ ids[q] = ids[r] /\ q \in Nat /\ r \in Nat
    <3>1. agent.granted \subseteq DOMAIN ids /\ ids \in Seq(Ids)
      BY <2>3 DEF Requested, RequestsRight, Typed
    <3> QED
      BY <2>2, <2>5, <3>1
  <2>7. q < r
    BY <2>5, <2>6
  <2>8. q \in Live(session, toAgent \cup toClient, agent.granted)
    BY <2>5 DEF Live
  <2> QED
    BY <2>3, <2>6, <2>7, <2>8 DEF Requested, RequestsRight, Marked
<1>2. IInv /\ [Next]_vars => [A]_vars
  BY <1>1
<1>3. [][A]_vars <=> StatusesBelong
  BY DEF StatusesBelong
<1> QED
  BY <1>2, <1>3, Invariance, PTL DEF Spec

-----------------------------------------------------------------------------
(* The statuses change only while a list is lent.                          *)
LEMMA ListLeftAlone ==
  ASSUME IInv, Next, call.op \notin StatusCalls, call'.op \notin StatusCalls
  PROVE  session'.status_list = session.status_list
<1>1. /\ session \in Sessions /\ ListRight(session) /\ Len(ids) \in Nat
      /\ session.request_status_list_size = 0
      /\ call \in [op : Calls \cup {"idle"}, left : 0 .. Attempts]
  BY DEF IInv, Typed, Lent
<1>2. CASE BufferRequest
  BY <1>1, <1>2, BufferedKeeps DEF BufferRequest, ListKept
<1>3. CASE CreateSession
  <2> DEFINE s == reset_stream_storage(session)
  <2>1. s \in Sessions /\ ListKept(session, s)
    BY <1>1, ResetKeeps DEF Kept
  <2>2. session' = Waiting([s EXCEPT !.last_request_id = UXR_REQUEST_LOGIN])
        /\ UXR_REQUEST_LOGIN \in RequestIds
    BY <1>3 DEF CreateSession, RequestIds
  <2> HIDE DEF s
  <2> QED
    BY <2>1, <2>2, LoginWaits DEF ListKept
<1>4. CASE DeleteSession
  BY <1>1, <1>4, LoginWaits DEF DeleteSession, RequestIds, ListKept
<1>5. CASE SyncSession
  BY <1>1, <1>5 DEF SyncSession, Sessions
<1>6. CASE \/ RunSessionTime \/ RunSessionUntilTimeout \/ RunSessionTimeout
           \/ RunSessionUntilData \/ RunSessionUntilConfirmDelivery \/ PingAgentSession
  <2> DEFINE s == flash_output_streams(session)
  <2>1. session' = s \/ session' = ClearData(s) \/ session' = ClearPong(s)
    BY <1>6 DEF RunSessionTime, RunSessionUntilTimeout, RunSessionTimeout,
                RunSessionUntilData, RunSessionUntilConfirmDelivery, PingAgentSession, Run
  <2>2. s \in Sessions /\ s.status_list = session.status_list
    BY <1>1, FlashKeeps DEF Kept, ListKept
  <2> HIDE DEF s
  <2> QED
    BY <2>1, <2>2 DEF ClearData, ClearPong, Sessions
<1>7. ~RunSessionUntilAllStatus /\ ~RunSessionUntilOneStatus
  BY DEF RunSessionUntilAllStatus, RunSessionUntilOneStatus, Run, Begin, StatusCalls
<1>8. CASE \E m \in toClient, late \in Deadlines, writes \in BOOLEAN : Listen(m, late, writes)
  <2>1. PICK m \in toClient, late \in Deadlines, writes \in BOOLEAN : Listen(m, late, writes)
    BY <1>8
  <2> DEFINE s == read_stream(session, m)
             t == IF writes THEN Buffered(s) ELSE s
  <2>2. /\ Step(t, late)
        /\ IF writes THEN Remember(s) ELSE UNCHANGED <<ids, ambiguous>>
    BY <2>1 DEF Listen
  <2> HIDE DEF s
  <2>3. s = read_stream(session, m) /\ t = IF writes THEN Buffered(s) ELSE s
    BY DEF s
  <2> HIDE DEF t
  <2>4. /\ t \in Sessions /\ ListRight(t) /\ After(session, s, m)
        /\ t.status_list = s.status_list
    BY <2>2, <2>3, Listened
  <2>5. session'.status_list = t.status_list
    BY <1>1, <2>2, <2>4, Stepped
  <2> QED
    BY <1>1, <2>4, <2>5 DEF After
<1>9. CASE \E late \in Deadlines : ListenTimesOut(late)
  <2>1. PICK late \in Deadlines : Step(session, late)
    BY <1>9 DEF ListenTimesOut
  <2> QED
    BY <1>1, <2>1, Stepped
<1>10. CASE AgentStep
  BY <1>10 DEF AgentStep, AgentCreate, AgentDelete, AgentRequest, AgentAnswer,
               AgentPublishes, Takes
<1> QED
  BY <1>2, <1>3, <1>4, <1>5, <1>6, <1>7, <1>8, <1>9, <1>10 DEF Next, ListenSome

(* The list the caller lends is written while its call runs and at no      *)
(* other time.                                                             *)
THEOREM ListTakenBack == Spec => ListOnlyLent
<1> DEFINE A == session'.status_list # session.status_list =>
                  call.op \in StatusCalls \/ call'.op \in StatusCalls
<1>1. IInv /\ [Next]_vars => [A]_vars
  BY ListLeftAlone
<1>2. [][A]_vars <=> ListOnlyLent
  BY DEF ListOnlyLent
<1> QED
  BY <1>1, <1>2, Invariance, PTL DEF Spec
=============================================================================
