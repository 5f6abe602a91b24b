------------------------------ MODULE MsgFifo ------------------------------
(***************************************************************************)
(* What lqueue promises its callers: a first-in first-out queue of whole   *)
(* messages that accounts for its room in bytes.  A message is accepted    *)
(* exactly when its cost still fits, is handed out unchanged and in order, *)
(* and stays queued when the caller's buffer is too small for it.          *)
(***************************************************************************)
EXTENDS Naturals, Sequences

CONSTANTS
  Messages,   \* every byte string a caller may offer
  Cost,       \* room a storable message takes; its domain is the storable ones
  Capacity,   \* room of the empty queue
  BufSizes    \* sizes of the caller's receive buffer

VARIABLES
  queue,      \* the stored messages, oldest first
  used,       \* room taken by them
  result      \* what the last call returned

vars == <<queue, used, result>>

Storable == DOMAIN Cost

(* The return code of a call and the bytes it handed to the caller.        *)
Answer(code, msg) == [code |-> code, msg |-> msg]
Code(code) == Answer(code, <<>>)

Init ==
  /\ queue = <<>>
  /\ used = 0
  /\ result = Code("ok")

Accept(m) ==
  /\ m \in Storable
  /\ used + Cost[m] <= Capacity
  /\ queue' = Append(queue, m)
  /\ used' = used + Cost[m]
  /\ result' = Code("ok")

Refuse(m) ==
  /\ m \in Storable => used + Cost[m] > Capacity
  /\ result' \in {Code(c) : c \in IF m \in Storable THEN {"full"} ELSE {"param", "range"}}
  /\ UNCHANGED <<queue, used>>

(* The oldest message goes to the caller when its buffer can take it.      *)
Take(bufSize) ==
  /\ queue # <<>>
  /\ Len(Head(queue)) <= bufSize
  /\ result' = Answer("ok", Head(queue))
  /\ queue' = Tail(queue)
  /\ used' = used - Cost[Head(queue)]

TooSmall(bufSize) ==
  /\ queue # <<>>
  /\ Len(Head(queue)) > bufSize
  /\ result' = Code("read_buffer_sz")
  /\ UNCHANGED <<queue, used>>

NoMessage ==
  /\ queue = <<>>
  /\ result' = Code("empty")
  /\ UNCHANGED <<queue, used>>

Drop ==
  /\ queue # <<>>
  /\ result' = Code("ok")
  /\ queue' = Tail(queue)
  /\ used' = used - Cost[Head(queue)]

Clear ==
  /\ queue' = <<>>
  /\ used' = 0
  /\ result' = Code("ok")

Next ==
  \/ \E m \in Messages : Accept(m) \/ Refuse(m)
  \/ \E n \in BufSizes : Take(n) \/ TooSmall(n)
  \/ NoMessage
  \/ Drop
  \/ Clear

Spec == Init /\ [][Next]_vars
=============================================================================
