------------------------------- MODULE Session -------------------------------
(***************************************************************************)
(* The session of a client with its agent (session.c, session_info.c,      *)
(* ping.c): logging in and out with retries, requests and their statuses,  *)
(* and the run loop, in which each call waits for an event of its own      *)
(* while it handles whatever arrives.                                      *)
(*                                                                         *)
(* One task calls the session.  The network delays and reorders            *)
(* datagrams, and one that is never read is lost.  What a reliable stream  *)
(* does about that is ReliableLink's: here it numbers its datagrams and    *)
(* each number is read once, in order.  The agent is the peer: external.   *)
(***************************************************************************)
EXTENDS Naturals, Sequences, FiniteSets

CONSTANTS
  RESERVED_REQUESTS_ID,   \* 9 in the code
  UINT16_MAX,             \* the last request id: 65535
  Attempts,               \* UXR_CONFIG_MAX_SESSION_CONNECTION_ATTEMPTS
  HeaderHasStream,        \* FALSE: the header of xrce_header.c, every datagram is of stream 1
  ClockRuns,              \* FALSE: time.c without WIN32, FREERTOS_PLUS_TCP or ZEPHYR
  Callbacks,              \* those of the session that are registered
  Publications,           \* the callbacks for which the agent has data
  MaxCalls,               \* bound on the calls of the session
  MaxRequests,            \* bound on the requests buffered
  MaxStale,               \* bound on the datagrams on their way when a call begins
  MaxTopics               \* bound on what the agent publishes or asks unasked

UXR_INVALID_REQUEST_ID == 0
UXR_REQUEST_LOGIN == 1
UXR_REQUEST_LOGOUT == 2

ASSUME IdsAssumption ==
  /\ RESERVED_REQUESTS_ID \in Nat /\ UINT16_MAX \in Nat
  /\ UXR_REQUEST_LOGOUT <= RESERVED_REQUESTS_ID
  /\ RESERVED_REQUESTS_ID < UINT16_MAX
ASSUME BoundsAssumption ==
  /\ Attempts \in Nat \ {0} /\ MaxCalls \in Nat /\ MaxRequests \in Nat
  /\ MaxStale \in Nat /\ MaxTopics \in Nat
ASSUME SwitchesAssumption == HeaderHasStream \in BOOLEAN /\ ClockRuns \in BOOLEAN

(* Data is of kind on_topic, on_request or on_reply, by the type of the    *)
(* object it is for: a DataReader, a Replier or a Requester.               *)
DataKinds == {"on_topic", "on_request", "on_reply"}
ASSUME CallbacksAssumption ==
  Callbacks \subseteq DataKinds \cup {"on_status"} /\ Publications \subseteq DataKinds

VARIABLES
  session,    \* the uxrSession
  call,       \* the function of the session that runs, and its attempts
  toAgent,    \* datagrams on their way
  toClient,
  agent,      \* the agent's end of the session
  \* histories
  ids,        \* the request id of each request, in the order they were buffered
  ambiguous,  \* requests whose id another request still had at the time
  quiet,      \* no datagram of an earlier call was on its way at the login or logout
  calls, topics

net == <<toAgent, toClient>>
history == <<ids, ambiguous, quiet, calls, topics>>
vars == <<session, call, net, agent, history>>

Ids == RESERVED_REQUESTS_ID + 1 .. UINT16_MAX
Results == {"OK", "ERROR"}
Statuses == Results \cup {"NONE"}       \* UXR_STATUS_NONE: no status yet
Pongs == {"NO_PONG", "PONG_IN_SESSION", "PONG_NO_SESSION"}
Requests == 1 .. MaxRequests

StatusCalls == {"all_status", "one_status"}
Logins == {"create", "delete"}
Loops == {"timeout", "data", "confirm", "sync"} \cup StatusCalls
Once == {"time", "until_timeout"}
Calls == Logins \cup Loops \cup Once \cup {"ping"}

(* A datagram: what it holds, the request id and the request it is about,  *)
(* its number on a reliable stream or 0, and a result.                     *)
Msg(kind, id, req, seq, result) ==
  [kind |-> kind, id |-> id, req |-> req, seq |-> seq, result |-> result]
Plain(kind) == Msg(kind, 0, 0, 0, "OK")

SessionKinds == {"create", "delete", "status_agent", "logout"}

-----------------------------------------------------------------------------
(* Streams of the session.                                                 *)

NoStreams == [unsent |-> <<>>, last_sent |-> 0, last_acknown |-> 0, last_handled |-> 0]

reset_stream_storage(s) == [s EXCEPT !.streams = NoStreams]

(* uxr_flash_output_streams: what is buffered is sent, numbered.           *)
Flushed(s) ==
  LET out == s.streams.unsent
  IN {Msg("request", out[i].id, out[i].req, s.streams.last_sent + i, "OK") : i \in DOMAIN out}

flash_output_streams(s) ==
  [s EXCEPT !.streams.unsent = <<>>, !.streams.last_sent = @ + Len(s.streams.unsent)]

output_streams_confirmed(s) == s.streams.last_acknown = s.streams.last_sent

-----------------------------------------------------------------------------
(* session_info.c *)

(* Variant: the test for the reserved ids is missing.                      *)
GenerateReserved(last) == IF last = UINT16_MAX THEN RESERVED_REQUESTS_ID + 1 ELSE last + 1

generate_request_id(last) ==
  IF last = UINT16_MAX \/ last <= RESERVED_REQUESTS_ID
    THEN RESERVED_REQUESTS_ID + 1
    ELSE last + 1

(* Variant: only while the last request is the login itself, as for the     *)
(* logout below.                                                           *)
CreateStatusOfLast(s, m) ==
  IF s.last_request_id = UXR_REQUEST_LOGIN
    THEN [s EXCEPT !.last_requested_status = m.result] ELSE s

uxr_read_create_session_status(s, m) == [s EXCEPT !.last_requested_status = m.result]

uxr_read_delete_session_status(s, m) ==
  IF s.last_request_id = UXR_REQUEST_LOGOUT /\ m.id = UXR_REQUEST_LOGOUT
    THEN [s EXCEPT !.last_requested_status = m.result]
    ELSE s

uxr_init_session ==
  [last_request_id |-> RESERVED_REQUESTS_ID, last_requested_status |-> "NONE",
   request_list |-> <<>>, request_status_list_size |-> 0, status_list |-> <<>>,
   on_data_flag |-> FALSE, on_pong_flag |-> "NO_PONG", synchronized |-> FALSE,
   streams |-> NoStreams]

-----------------------------------------------------------------------------
(* Reading a datagram.                                                     *)

(* A status is written at the first place of its request in the list the   *)
(* running call has lent.                                                  *)
process_status(s, id, result) ==
  LET places == {i \in 1 .. s.request_status_list_size : s.request_list[i] = id}
  IN IF places = {} THEN s
     ELSE [s EXCEPT !.status_list[CHOOSE i \in places : \A j \in places : i <= j] = result]

(* Data is passed on, and noted, only if its callback is registered.       *)
Noted(s, callback) ==
  IF callback \in Callbacks THEN [s EXCEPT !.on_data_flag = TRUE] ELSE s

read_submessage_data(s, m) == Noted(process_status(s, m.id, "OK"), m.kind)

read_submessage_info(s, m) ==
  [s EXCEPT !.on_pong_flag = IF m.result = "OK" THEN "PONG_IN_SESSION" ELSE "PONG_NO_SESSION"]

read_submessage(s, m) ==
  CASE m.kind = "status_agent" -> uxr_read_create_session_status(s, m)
    [] m.kind = "logout" -> uxr_read_delete_session_status(s, m)
    [] m.kind = "status" -> process_status(s, m.id, m.result)
    [] m.kind \in DataKinds -> read_submessage_data(s, m)
    [] m.kind = "acknack" -> [s EXCEPT !.streams.last_acknown = m.seq]
    [] m.kind = "timestamp_reply" -> [s EXCEPT !.synchronized = TRUE]
    [] m.kind = "info" -> read_submessage_info(s, m)
    [] OTHER -> s

StreamType(m) ==
  CASE ~HeaderHasStream \/ m.kind = "topic" -> "best_effort"
    [] m.kind \in {"status"} \cup DataKinds -> "reliable"
    [] OTHER -> "none"

(* read_stream: a datagram of a best-effort stream is a topic whatever it  *)
(* holds, one of a reliable stream is read when its number is next.        *)
IsNext(s, m) == m.seq = s.streams.last_handled + 1

read_stream(s, m) ==
  CASE StreamType(m) = "best_effort" -> Noted(s, "on_topic")
    [] StreamType(m) = "none" -> read_submessage(s, m)
    [] OTHER -> IF IsNext(s, m)
                  THEN read_submessage([s EXCEPT !.streams.last_handled = m.seq], m)
                  ELSE s

Read(s, m) == StreamType(m) = "reliable" => IsNext(s, m)

(* A callback is called for these: on_topic, or on_status and that of the  *)
(* data.                                                                   *)
HasCallback(m) ==
  CASE StreamType(m) = "best_effort" -> "on_topic" \in Callbacks
    [] StreamType(m) = "reliable" -> {"on_status", m.kind} \cap Callbacks # {}
    [] OTHER -> FALSE

(* The answer the handler sends itself: read_submessage_get_info.          *)
Answer(m) == IF StreamType(m) = "none" /\ m.kind = "get_info" THEN {Plain("info")} ELSE {}

-----------------------------------------------------------------------------
NoCall == [op |-> "idle", left |-> 0]

(* A new session, or one that has logged in and has had its answer.        *)
LoggedIn ==
  [uxr_init_session EXCEPT !.last_request_id = UXR_REQUEST_LOGIN,
                           !.last_requested_status = "OK"]

Init ==
  /\ session \in {uxr_init_session, LoggedIn}
  /\ call = NoCall
  /\ toAgent = {} /\ toClient = {}
  /\ agent = [connected |-> session = LoggedIn, sent |-> 0, read |-> 0, granted |-> {}]
  /\ ids = <<>> /\ ambiguous = {} /\ quiet = TRUE
  /\ calls = 0 /\ topics = 0

InFlight == toAgent \cup toClient

(* uxr_buffer_topic, uxr_buffer_request_data and the others: the request   *)
(* takes the next id and waits in the output stream.  LOGIN and LOGOUT     *)
(* are kept in the same last_request_id, so ids start over after each.     *)
Buffered(s) ==
  LET id == generate_request_id(s.last_request_id)
  IN [s EXCEPT !.last_request_id = id,
               !.streams.unsent = Append(@, [id |-> id, req |-> Len(ids) + 1])]

Remember(s) ==
  LET id == generate_request_id(s.last_request_id)
      inUse == {s.streams.unsent[i].req : i \in DOMAIN s.streams.unsent}
                 \cup {m.req : m \in InFlight} \cup agent.granted
  IN /\ ids' = Append(ids, id)
     /\ ambiguous' = IF \E r \in inUse \ {0} : ids[r] = id
                       THEN ambiguous \cup {Len(ids) + 1} ELSE ambiguous

BufferRequest ==
  /\ call.op = "idle" /\ Len(ids) < MaxRequests /\ calls < MaxCalls
  /\ session' = Buffered(session)
  /\ Remember(session)
  /\ UNCHANGED <<call, net, agent, quiet, calls, topics>>

-----------------------------------------------------------------------------
(* Calls of the session.                                                   *)

Called ==
  /\ call = NoCall /\ calls < MaxCalls
  /\ Cardinality(InFlight) <= MaxStale
  /\ calls' = calls + 1
  /\ UNCHANGED <<toClient, agent, ids, ambiguous, topics>>

Begin(op, attempts) ==
  /\ Called
  /\ call' = [op |-> op, left |-> attempts]
  /\ quiet' = (op \in Logins => \A m \in InFlight : m.kind \notin SessionKinds)

(* Variant: the last status is not forgotten.                              *)
WaitingKeepsStatus(s) == s

(* wait_session_status forgets the status of the login or logout before    *)
(* it sends the first datagram of this one.                                *)
Waiting(s) == [s EXCEPT !.last_requested_status = "NONE"]

CreateSession ==
  /\ Begin("create", Attempts)
  /\ session' = Waiting([reset_stream_storage(session)
                           EXCEPT !.last_request_id = UXR_REQUEST_LOGIN])
  /\ toAgent' = toAgent \cup {Plain("create")}

DeleteSession ==
  /\ Begin("delete", Attempts)
  /\ session' = Waiting([session EXCEPT !.last_request_id = UXR_REQUEST_LOGOUT])
  /\ toAgent' = toAgent \cup {Msg("delete", UXR_REQUEST_LOGOUT, 0, 0, "OK")}

(* The run functions flush the streams and clear the flag they wait for.   *)
Run(op, s) ==
  /\ Begin(op, 0)
  /\ session' = s
  /\ toAgent' = toAgent \cup Flushed(session)

RunSessionTime == Run("time", flash_output_streams(session))
RunSessionUntilTimeout == Run("until_timeout", flash_output_streams(session))
RunSessionTimeout == Run("timeout", flash_output_streams(session))

(* Variant: the flag of an earlier call stays up.                          *)
ClearDataNot(s) == s

ClearData(s) == [s EXCEPT !.on_data_flag = FALSE]
RunSessionUntilData == Run("data", ClearData(flash_output_streams(session)))

(* This loop tests its condition first: with nothing to confirm it returns *)
(* without listening.                                                      *)
RunSessionUntilConfirmDelivery ==
  LET s == flash_output_streams(session)
  IN IF output_streams_confirmed(s)
       THEN /\ Called
            /\ session' = s
            /\ UNCHANGED <<call, toAgent, quiet>>
       ELSE Run("confirm", s)

(* Variant: the array is taken to hold what the last call left.            *)
ClearStatusesNot(s, list) ==
  [i \in DOMAIN list |-> IF i \in DOMAIN s.status_list THEN s.status_list[i] ELSE "NONE"]

(* The caller lends a list of requests; an id of its list may be invalid,  *)
(* when a buffering failed.                                                *)
ClearStatuses(s, list) == [i \in DOMAIN list |-> "NONE"]

Lend(s, list) ==
  [s EXCEPT !.request_list = list, !.status_list = ClearStatuses(s, list),
            !.request_status_list_size = Len(list)]

Lists ==
  LET known == {ids[r] : r \in DOMAIN ids}
  IN {<<id>> : id \in known} \cup {<<UXR_INVALID_REQUEST_ID, id>> : id \in known}
       \cup {list \in known \X known : list[1] < list[2]}

RunSessionUntilAllStatus ==
  \E list \in Lists : Run("all_status", Lend(flash_output_streams(session), list))

RunSessionUntilOneStatus ==
  \E list \in Lists : Run("one_status", Lend(flash_output_streams(session), list))

SyncSession ==
  /\ Begin("sync", 0)
  /\ session' = [session EXCEPT !.synchronized = FALSE]
  /\ toAgent' = toAgent \cup {Plain("timestamp")}

(* uxr_ping_agent_session: each attempt sends, flushes and waits.          *)
ClearPong(s) == [s EXCEPT !.on_pong_flag = "NO_PONG"]
PingDatagrams(s) == {Plain("get_info")} \cup Flushed(s)

PingAgentSession ==
  /\ Begin("ping", Attempts)
  /\ session' = ClearPong(flash_output_streams(session))
  /\ toAgent' = toAgent \cup PingDatagrams(session)

-----------------------------------------------------------------------------
(* The loops: listen, then go on, try again or return.                     *)

StatusKnown(s, i) == s.status_list[i] # "NONE" \/ s.request_list[i] = UXR_INVALID_REQUEST_ID

(* What the running call waits for has come.                               *)
Done(s) ==
  CASE call.op \in Logins -> s.last_requested_status # "NONE"
    [] call.op = "data" -> s.on_data_flag
    [] call.op = "confirm" -> output_streams_confirmed(s)
    [] call.op = "sync" -> s.synchronized
    [] call.op = "ping" -> s.on_pong_flag # "NO_PONG"
    [] call.op = "all_status" -> \A i \in DOMAIN s.status_list : StatusKnown(s, i)
    [] call.op = "one_status" -> \E i \in DOMAIN s.status_list : StatusKnown(s, i)
    [] OTHER -> FALSE

(* What the call returns.  (uxr_run_session_time always returns true, and  *)
(* uxr_run_session_until_timeout whether it has read a datagram.)          *)
Value(s) ==
  CASE call.op \in Logins -> s.last_requested_status = "OK"
    [] call.op = "timeout" -> output_streams_confirmed(s)
    [] call.op = "all_status" -> \A i \in DOMAIN s.status_list : s.status_list[i] = "OK"
    [] call.op = "ping" -> s.on_pong_flag = "PONG_IN_SESSION"
    [] OTHER -> Done(s)

(* Variant: the list stays lent.                                           *)
TakeBackNot(s) == s

(* A call that returns takes back the list; a login that is accepted       *)
(* starts the streams again.                                               *)
TakeBack(s) == [s EXCEPT !.request_status_list_size = 0]
AtReturn(s) ==
  IF call.op = "create" /\ s.last_requested_status = "OK"
    THEN TakeBack(reset_stream_storage(s)) ELSE TakeBack(s)

Return(s) == session' = AtReturn(s) /\ call' = NoCall

(* A login sends the same datagram again, a ping flushes the streams too.  *)
Retry(s) ==
  /\ call' = [call EXCEPT !.left = @ - 1]
  /\ session' = IF call.op = "ping" THEN ClearPong(flash_output_streams(s)) ELSE s

Resent(s) ==
  CASE call.op = "create" -> {Plain("create")}
    [] call.op = "delete" -> {Msg("delete", UXR_REQUEST_LOGOUT, 0, 0, "OK")}
    [] OTHER -> PingDatagrams(s)

GoOn(s) == session' = s /\ UNCHANGED call

(* A ping that found the agent without this session tries again as well.   *)
Satisfied(s) == IF call.op = "ping" THEN Value(s) ELSE Done(s)
AttemptOver(s, late) == late \/ (call.op = "ping" /\ Done(s))
MayRetry(s, late) ==
  /\ call.op \in Logins \cup {"ping"}
  /\ ~Satisfied(s) /\ AttemptOver(s, late) /\ call.left > 1

(* After one round of the loop, when the deadline is over or not.          *)
Step(s, late) ==
  IF MayRetry(s, late) THEN Retry(s)
  ELSE IF call.op \in Once \/ Done(s) \/ late THEN Return(s)
  ELSE GoOn(s)

(* Whether the deadline is over after a round.                             *)
Deadlines == IF ClockRuns THEN BOOLEAN ELSE {FALSE}

(* ReliableLink puts the datagrams of the reliable stream in order; the    *)
(* network keeps the order of the ACKNACKs.                                *)
InOrder(s, m) ==
  /\ StreamType(m) = "reliable" => m.seq <= s.streams.last_handled + 1
  /\ m.kind = "acknack" => \A a \in toClient : a.kind = "acknack" => m.seq <= a.seq

(* listen_message reads one datagram.  A callback may buffer a request of  *)
(* its own.                                                                *)
Listen(m, late, writes) ==
  /\ call.op # "idle"
  /\ m \in toClient
  /\ InOrder(session, m)
  /\ writes => HasCallback(m) /\ Read(session, m) /\ Len(ids) < MaxRequests
  /\ LET s == read_stream(session, m)
         t == IF writes THEN Buffered(s) ELSE s
     IN /\ IF writes THEN Remember(s) ELSE UNCHANGED <<ids, ambiguous>>
        /\ Step(t, late)
        /\ toAgent' = toAgent \cup Answer(m)
                        \cup (IF MayRetry(t, late) THEN Resent(t) ELSE {})
  /\ toClient' = toClient \ {m}
  /\ UNCHANGED <<agent, quiet, calls, topics>>

ListenSome ==
  \E m \in toClient, late \in Deadlines, writes \in BOOLEAN : Listen(m, late, writes)

(* Nothing came for as long as the call polls.                             *)
ListenTimesOut(late) ==
  /\ call.op # "idle"
  /\ late \/ call.op \in Once \/ Done(session)
  /\ Step(session, late)
  /\ toAgent' = toAgent \cup (IF MayRetry(session, late) THEN Resent(session) ELSE {})
  /\ UNCHANGED <<toClient, agent, history>>

-----------------------------------------------------------------------------
(* The agent.                                                              *)

Takes(m) ==
  /\ m \in toAgent
  /\ toAgent' = toAgent \ {m}
  /\ UNCHANGED <<session, call, ids, ambiguous, quiet, calls, topics>>

Sends(messages) == toClient' = toClient \cup messages

(* A login starts the agent's end of the streams again, or is refused.     *)
AgentCreate(m, result) ==
  /\ m.kind = "create" /\ Takes(m)
  /\ agent' = IF result = "OK"
                THEN [agent EXCEPT !.connected = TRUE, !.sent = 0, !.read = 0] ELSE agent
  /\ Sends({Msg("status_agent", 0, 0, 0, result)})

AgentDelete(m) ==
  /\ m.kind = "delete" /\ Takes(m)
  /\ agent' = [agent EXCEPT !.connected = FALSE]
  /\ Sends({Msg("logout", m.id, 0, 0, IF agent.connected THEN "OK" ELSE "ERROR")})

(* Requests are read in the order of their numbers and each is answered    *)
(* with a status, in order.                                                *)
AgentRequest(m, result) ==
  /\ m.kind = "request" /\ m.seq <= agent.read + 1 /\ Takes(m)
  /\ IF agent.connected /\ m.seq = agent.read + 1
       THEN /\ agent' = [agent EXCEPT !.read = m.seq, !.sent = @ + 1,
                           !.granted = IF result = "OK" THEN @ \cup {m.req} ELSE @]
            /\ Sends({Msg("status", m.id, m.req, agent.sent + 1, result),
                      Msg("acknack", 0, 0, m.seq, "OK")})
       ELSE UNCHANGED <<agent, toClient>>

AgentAnswer(m) ==
  /\ m.kind \in {"get_info", "timestamp", "info"} /\ Takes(m)
  /\ Sends(CASE m.kind = "get_info" ->
                  {Msg("info", 0, 0, 0, IF agent.connected THEN "OK" ELSE "ERROR")}
             [] m.kind = "timestamp" -> {Plain("timestamp_reply")}
             [] OTHER -> {})
  /\ UNCHANGED agent

(* Unasked: a topic, the data of a request it granted, a ping of its own.  *)
AgentPublishes ==
  /\ agent.connected /\ topics < MaxTopics
  /\ topics' = topics + 1
  /\ \/ Sends({Plain("topic")}) /\ UNCHANGED agent
     \/ Sends({Plain("get_info")}) /\ UNCHANGED agent
     \/ \E r \in agent.granted, kind \in Publications :
          /\ Sends({Msg(kind, ids[r], r, agent.sent + 1, "OK")})
          /\ agent' = [agent EXCEPT !.sent = @ + 1]
  /\ UNCHANGED <<session, call, toAgent, ids, ambiguous, quiet, calls>>

(* What an idle client does commutes with what the agent does, so it takes *)
(* its steps while a call runs.                                            *)
AgentStep ==
  /\ call.op # "idle"
  /\ \/ \E m \in toAgent, result \in Results :
          AgentCreate(m, result) \/ AgentRequest(m, result)
     \/ \E m \in toAgent :
          AgentDelete(m) \/ AgentAnswer(m)
     \/ AgentPublishes

Next ==
  \/ BufferRequest
  \/ CreateSession \/ DeleteSession
  \/ RunSessionTime \/ RunSessionUntilTimeout \/ RunSessionTimeout
  \/ RunSessionUntilData \/ RunSessionUntilConfirmDelivery
  \/ RunSessionUntilAllStatus \/ RunSessionUntilOneStatus
  \/ SyncSession \/ PingAgentSession
  \/ ListenSome
  \/ \E late \in Deadlines : ListenTimesOut(late)
  \/ AgentStep

Spec == Init /\ [][Next]_vars

(* The running call goes on listening, what is on its way arrives, and the *)
(* agent takes it.  Nothing is asked of the clock: that of this repository *)
(* stands still, and a deadline may come or not.                           *)
FairSpec == Spec /\ WF_vars(ListenSome) /\ WF_vars(AgentStep)

-----------------------------------------------------------------------------
(* The values each variable of the session takes.                          *)
TypeOK ==
  /\ session.last_request_id \in {UXR_REQUEST_LOGIN, UXR_REQUEST_LOGOUT, RESERVED_REQUESTS_ID} \cup Ids
  /\ session.last_requested_status \in Statuses
  /\ session.request_status_list_size \in 0 .. Len(session.request_list)
  /\ Len(session.status_list) = Len(session.request_list)
  /\ \A i \in DOMAIN session.status_list : session.status_list[i] \in Statuses
  /\ session.on_pong_flag \in Pongs
  /\ session.on_data_flag \in BOOLEAN /\ session.synchronized \in BOOLEAN
  /\ call.op \in Calls \cup {"idle"} /\ call.left \in 0 .. Attempts
  /\ \A r \in DOMAIN ids : ids[r] \in Ids
  /\ ambiguous \subseteq DOMAIN ids

Idle == call.op = "idle"
ReturnsTrue(op) == call.op = op /\ Idle' /\ Value(session')

(* A login or a logout that returns true has the agent's agreement, when   *)
(* no datagram of an earlier one was on its way as it began: neither the   *)
(* answer to a repeated attempt nor a status left from the last call is    *)
(* taken for the answer to this one.                                       *)
SessionAgreed ==
  [][quiet => /\ ReturnsTrue("create") => agent.connected
              /\ ReturnsTrue("delete") => ~agent.connected]_vars

(* uxr_run_session_until_all_status returns true only when the agent has   *)
(* granted each request of the list, the last one of its id, and not for a *)
(* status of an earlier list, an earlier session or an earlier request.    *)
StatusesBelong ==
  [][ReturnsTrue("all_status") =>
       \A r \in DOMAIN ids :
         /\ \E i \in DOMAIN session.request_list : session.request_list[i] = ids[r]
         /\ \A q \in DOMAIN ids : ids[q] = ids[r] => q <= r
         => r \in ambiguous \cup agent.granted]_vars

(* A call that returns true has just read what it was waiting for: no flag *)
(* of an earlier call, or of an earlier attempt, makes it return.          *)
HeardInCall ==
  [][/\ ReturnsTrue("data") => ~session.on_data_flag
     /\ ReturnsTrue("sync") => ~session.synchronized
     /\ ReturnsTrue("ping") => session.on_pong_flag # "PONG_IN_SESSION"]_vars

(* The list the caller lends is written while its call runs and at no      *)
(* other time, however late a status comes.                                *)
ListOnlyLent ==
  [][session'.status_list # session.status_list =>
       call.op \in StatusCalls \/ call'.op \in StatusCalls]_vars

(* The agent's answer is due: to a login, a synchronisation, a ping, and a *)
(* logout that still knows its answer, since no callback has buffered a    *)
(* request in it.                                                          *)
AnswerDue ==
  \/ call.op \in {"create", "sync", "ping"}
  \/ call.op = "delete" /\ session.last_request_id = UXR_REQUEST_LOGOUT

(* A call does not wait for ever for an answer that is due when nothing is *)
(* lost, without the help of a deadline, whatever else arrives and         *)
(* whatever the callbacks send.  A logout that no longer knows its answer  *)
(* does, by a clock that stands still.                                     *)
AnsweredReturns == []<>~AnswerDue
=============================================================================
