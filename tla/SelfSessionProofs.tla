------------------------- MODULE SelfSessionProofs -------------------------
(***************************************************************************)
(* For any number of senders below the priority of the transport's task:   *)
(* a push and a pop of the self transport's queue never overlap, the count *)
(* is that of the frames, the queue holds one message for each             *)
(* notification that found the bit set, and the callbacks get the messages *)
(* in order.                                                               *)
(***************************************************************************)
EXTENDS SelfSession, FiniteSetTheorems, TLAPS

(* The strengthening.  Who is between uxr_lock and uxr_unlock holds the    *)
(* mutex; while a sender is on its way to the notification the transport's *)
(* task waits for one; whoever is between its load and its store of the    *)
(* count has loaded the count as it is.                                    *)
InLock == {"build", "push", "count", "notify", "unlock"}
BeforeNotify == {"build", "push", "count", "notify"}
SelfOnly == {"wait", "confirm", "popped", "deliver", "callback"}

Places == (\A s \in Senders : pc[s] \notin SelfOnly) /\ pc[SelfTask] # "idle"
Holds == \A t \in Tasks : pc[t] \in InLock <=> owner = t
Waits == \A s \in Senders : pc[s] \in BeforeNotify => pc[SelfTask] = "wait" /\ ~ event
Loaded == \A t \in Tasks : pc[t] \in {"count", "popped"} => cached[t] = msgCnt

Somebody(places) == Count1(\E t \in Tasks : pc[t] \in places)
Counted == msgCnt + Somebody({"count"}) = Len(queue) + Somebody({"popped"})
Late == Len(queue) = merged + Count1(event) + Somebody({"count", "notify", "confirm"})

SelfInv == TypeOK /\ Places /\ Holds /\ Waits /\ Loaded /\ Counted /\ Late

USE TasksAssumption, PrioritiesAssumption, ServicesAssumption, SizesAssumption

-----------------------------------------------------------------------------
(* Facts about a state.                                                    *)

LEMMA SomebodyIs ==
  ASSUME NEW places, NEW t \in Tasks, pc[t] \in places
  PROVE  Somebody(places) = 1
BY DEF Somebody, Count1

LEMMA NobodyIs ==
  ASSUME NEW places, \A t \in Tasks : pc[t] \notin places
  PROVE  Somebody(places) = 0
BY DEF Somebody, Count1

LEMMA SomebodyType == \A places : Somebody(places) \in {0, 1}
BY DEF Somebody, Count1

\* At most one task is at work on the queue or its count.
AtWork == {"count", "notify", "confirm", "popped"}

LEMMA OneAtWork ==
  ASSUME Places, Holds, Waits, NEW t \in Tasks, NEW u \in Tasks,
         pc[t] \in AtWork, pc[u] \in AtWork
  PROVE  t = u
<1>1. CASE pc[t] \in InLock /\ pc[u] \in InLock BY <1>1 DEF Holds
<1>2. ASSUME NEW v \in Tasks, NEW w \in Tasks, pc[v] \in AtWork, pc[w] \in AtWork,
             pc[v] \in InLock, pc[w] \notin InLock
      PROVE  v = w
  <2>1. w = SelfTask BY <1>2 DEF Places, Tasks, AtWork, InLock, SelfOnly
  <2>2. pc[SelfTask] # "wait" BY <1>2, <2>1 DEF AtWork
  <2>3. v \notin Senders BY <1>2, <2>2 DEF Waits, AtWork, InLock, BeforeNotify
  <2> QED BY <2>1, <2>3 DEF Tasks
<1>3. CASE pc[t] \notin InLock /\ pc[u] \notin InLock
  <2>1. \A v \in Tasks : pc[v] \in AtWork /\ pc[v] \notin InLock => v = SelfTask
    BY DEF Places, Tasks, AtWork, InLock, SelfOnly
  <2> QED BY <1>3, <2>1
<1> QED BY <1>1, <1>2, <1>3

LEMMA CountedByOne ==
  ASSUME Places, Holds, Waits, NEW places, places \subseteq AtWork
  PROVE  TasksAt(places) = Somebody(places)
<1> DEFINE those == {t \in Tasks : pc[t] \in places}
<1>1. CASE those = {}
  <2>1. Cardinality(those) = 0 BY <1>1, FS_EmptySet
  <2>2. Somebody(places) = 0 BY <1>1, NobodyIs
  <2> QED BY <2>1, <2>2 DEF TasksAt
<1>2. CASE those # {}
  <2>1. PICK t \in those : TRUE BY <1>2
  <2>2. those = {t} BY <2>1, OneAtWork
  <2>3. Cardinality(those) = 1 BY <2>2, FS_Singleton
  <2>4. Somebody(places) = 1 BY <2>1, SomebodyIs
  <2> QED BY <2>3, <2>4 DEF TasksAt
<1> QED BY <1>1, <1>2

-----------------------------------------------------------------------------
(* Facts about a step of one task.                                         *)

AllPlaces == {"idle", "wait", "lock", "build", "push", "count", "notify", "unlock",
              "confirm", "popped", "deliver", "callback"}

LEMMA Moves ==
  ASSUME TypeOK, NEW t \in Tasks, NEW place \in AllPlaces, Goto(t, place)
  PROVE  /\ pc' \in [Tasks -> AllPlaces]
         /\ pc'[t] = place
         /\ \A u \in Tasks : u # t => pc'[u] = pc[u]
BY DEF TypeOK, Goto, AllPlaces

LEMMA OnlyOne ==
  ASSUME TypeOK, NEW t \in Tasks, NEW place \in AllPlaces, Goto(t, place),
         NEW places, \A u \in Tasks : u # t => pc[u] \notin places
  PROVE  /\ Somebody(places) = Count1(pc[t] \in places)
         /\ Somebody(places)' = Count1(place \in places)
<1>1. (\E u \in Tasks : pc[u] \in places) <=> pc[t] \in places OBVIOUS
<1>2. (\E u \in Tasks : pc'[u] \in places) <=> place \in places BY Moves
<1> QED BY <1>1, <1>2 DEF Somebody, Count1

LEMMA NoChange ==
  ASSUME TypeOK, NEW t \in Tasks, NEW place \in AllPlaces, Goto(t, place),
         NEW places, pc[t] \in places <=> place \in places
  PROVE  Somebody(places)' = Somebody(places)
<1>1. (\E u \in Tasks : pc'[u] \in places) <=> (\E u \in Tasks : pc[u] \in places)
  BY Moves
<1> QED BY <1>1 DEF Somebody, Count1

LEMMA StaysInPlace ==
  ASSUME TypeOK, Places, NEW t \in Tasks, NEW place \in AllPlaces, Goto(t, place),
         t \in Senders => place \notin SelfOnly, t = SelfTask => place # "idle"
  PROVE  Places'
<1>1. \A s \in Senders : pc'[s] \notin SelfOnly BY Moves DEF Places, Tasks
<1>2. pc'[SelfTask] # "idle" BY Moves DEF Places, Tasks
<1> QED BY <1>1, <1>2 DEF Places

\* A task keeps the mutex on its way, or stays without it.
LEMMA KeepsLock ==
  ASSUME TypeOK, Holds, NEW t \in Tasks, NEW place \in AllPlaces, Goto(t, place),
         owner' = owner, pc[t] \in InLock <=> place \in InLock
  PROVE  Holds'
<1>1. \A u \in Tasks : pc'[u] \in InLock <=> pc[u] \in InLock BY Moves
<1> QED BY <1>1 DEF Holds

\* Who holds the mutex is alone with it, and a sender on its way to the notification has
\* the transport's task waiting.
LEMMA Alone ==
  ASSUME Holds, NEW t \in Tasks, pc[t] \in InLock
  PROVE  \A u \in Tasks : u # t => pc[u] \notin InLock
BY DEF Holds

LEMMA WaitsOn ==
  ASSUME TypeOK, Waits, Holds, NEW t \in Tasks, NEW place \in AllPlaces, Goto(t, place),
         pc[t] \in BeforeNotify, place \in BeforeNotify, event' = event
  PROVE  Waits'
<1> SUFFICES ASSUME NEW s \in Senders, pc'[s] \in BeforeNotify
             PROVE  pc'[SelfTask] = "wait" /\ ~ event'
  BY DEF Waits
<1>1. pc[s] \in BeforeNotify BY Moves DEF Tasks
<1>2. s = t BY <1>1, Alone DEF InLock, BeforeNotify, Tasks
<1>3. pc[SelfTask] = "wait" /\ ~ event BY <1>1 DEF Waits
<1>4. SelfTask # t BY <1>2 DEF Tasks
<1> QED BY <1>3, <1>4, Moves DEF Tasks

-----------------------------------------------------------------------------
(* The invariant holds initially and each action keeps it.                 *)

LEMMA InitHolds == Init => SelfInv
<1> SUFFICES ASSUME Init PROVE SelfInv OBVIOUS
<1>1. pc = [t \in Tasks |-> IF t = SelfTask THEN "wait" ELSE "idle"] BY DEF Init
<1>2. \A t \in Tasks : pc[t] \in {"wait", "idle"} BY <1>1
<1>3. TypeOK
  <2>1. NoMessage \in Messages BY DEF NoMessage, Messages
  <2>2. pc \in [Tasks -> AllPlaces] BY <1>1 DEF AllPlaces
  <2>3. message \in [Tasks -> Messages] BY <2>1 DEF Init
  <2>4. queue \in Seq(Messages) /\ accepted \in Seq(Messages) /\ handled \in Seq(Messages)
    BY DEF Init
  <2>5. cached \in [Tasks -> Int] BY DEF Init
  <2>6. writer \in 0 .. StreamBytes /\ used \in Int /\ used < QueueBytes /\ msgCnt \in Int
        /\ sends \in Nat /\ merged \in Nat
    BY DEF Init
  <2>7. out \in Messages BY <2>1 DEF Init
  <2>8. owner \in Tasks \cup {NoTask} /\ event \in BOOLEAN /\ callbacks \subseteq ServiceIds
        /\ clobbered \in {"padding", "src", "des"}
    BY DEF Init
  <2> QED BY <2>2, <2>3, <2>4, <2>5, <2>6, <2>7, <2>8 DEF TypeOK, AllPlaces
<1>4. Places BY <1>1 DEF Places, SelfOnly, Tasks
<1>5. Holds BY <1>2 DEF Init, Holds, InLock
<1>6. Waits BY <1>2 DEF Waits, BeforeNotify, Tasks
<1>7. Loaded BY <1>2 DEF Loaded
<1>8. /\ Somebody({"count"}) = 0 /\ Somebody({"popped"}) = 0
      /\ Somebody({"count", "notify", "confirm"}) = 0
  BY <1>2, NobodyIs
<1>9. Counted BY <1>8 DEF Init, Counted
<1>10. Late BY <1>8 DEF Init, Late, Count1
<1> QED BY <1>3, <1>4, <1>5, <1>6, <1>7, <1>9, <1>10 DEF SelfInv

LEMMA SetOnTopicHolds ==
  ASSUME SelfInv, NEW s \in Senders, NEW id \in ServiceIds, SetOnTopic(s, id)
  PROVE  SelfInv'
<1>1. UNCHANGED <<stream, fifo, cached, event, pc, message, clobbered, sends, accepted,
                  handled, merged>>
  BY DEF SetOnTopic
<1>2. callbacks' \subseteq ServiceIds BY DEF SetOnTopic, SelfInv, TypeOK
<1>3. TypeOK' BY <1>1, <1>2 DEF SelfInv, TypeOK, stream, fifo
<1>4. Places' /\ Holds' /\ Waits' /\ Loaded'
  BY <1>1 DEF SelfInv, Places, Holds, Waits, Loaded, stream, fifo
<1>5. Counted' /\ Late' BY <1>1 DEF SelfInv, Counted, Late, Somebody, Count1, stream, fifo
<1> QED BY <1>3, <1>4, <1>5 DEF SelfInv

LEMMA SendCallHolds ==
  ASSUME SelfInv, NEW t \in Tasks, NEW des \in ServiceIds, NEW size \in Sizes,
         SendCall(t, des, size)
  PROVE  SelfInv'
<1>1. /\ TypeOK /\ Places /\ Goto(t, "lock") /\ pc[t] = Home(t)
      /\ UNCHANGED <<owner, writer, out, queue, used, msgCnt, cached, event, callbacks,
                     clobbered, accepted, handled, merged>>
  BY DEF SelfInv, SendCall, At, stream, fifo, table
<1>2. pc[t] \in {"idle", "callback"} BY <1>1 DEF Home
<1>3. "lock" \in AllPlaces BY DEF AllPlaces
<1>4. TypeOK'
  <2>1. [src |-> SourceOf[t], des |-> des, len |-> size] \in Messages BY DEF Messages
  <2>2. message' \in [Tasks -> Messages] BY <2>1, <1>1 DEF SendCall, TypeOK
  <2>3. sends' \in Nat BY <1>1 DEF SendCall, TypeOK
  <2>4. pc' \in [Tasks -> AllPlaces] BY <1>1, <1>3, Moves
  <2> QED BY <1>1, <2>2, <2>3, <2>4 DEF TypeOK, AllPlaces
<1>5. Places' BY <1>1, <1>3, StaysInPlace DEF SelfOnly
<1>6. Holds' BY <1>1, <1>2, <1>3, KeepsLock DEF SelfInv, InLock
<1>7. Waits'
  <2> SUFFICES ASSUME NEW s \in Senders, pc'[s] \in BeforeNotify
               PROVE  pc'[SelfTask] = "wait" /\ ~ event'
    BY DEF Waits
  <2>1. s # t /\ pc[s] \in BeforeNotify BY <1>1, <1>3, Moves DEF BeforeNotify, Tasks
  <2>2. pc[SelfTask] = "wait" /\ ~ event BY <2>1 DEF SelfInv, Waits
  <2> QED BY <1>1, <1>2, <1>3, <2>2, Moves DEF Tasks
<1>8. Loaded' BY <1>1, <1>3, Moves DEF SelfInv, Loaded
<1>9. /\ Somebody({"count"})' = Somebody({"count"})
      /\ Somebody({"popped"})' = Somebody({"popped"})
      /\ Somebody({"count", "notify", "confirm"})' = Somebody({"count", "notify", "confirm"})
  BY <1>1, <1>2, <1>3, NoChange
<1>10. Counted' /\ Late' BY <1>1, <1>9 DEF SelfInv, Counted, Late, Count1
<1> QED BY <1>4, <1>5, <1>6, <1>7, <1>8, <1>10 DEF SelfInv

LEMMA LockStreamHolds ==
  ASSUME SelfInv, NEW t \in Tasks, LockStream(t)
  PROVE  SelfInv'
<1>1. /\ TypeOK /\ Places /\ Goto(t, "build") /\ pc[t] = "lock" /\ Runs(t)
      /\ owner = NoTask /\ owner' = t
      /\ UNCHANGED <<writer, out, queue, used, msgCnt, cached, event, message, callbacks,
                     clobbered, sends, accepted, handled, merged>>
  BY DEF SelfInv, LockStream, At, fifo, table
<1>2. "build" \in AllPlaces BY DEF AllPlaces
<1>3. TypeOK'
  <2>1. pc' \in [Tasks -> AllPlaces] BY <1>1, <1>2, Moves
  <2> QED BY <1>1, <2>1 DEF TypeOK, AllPlaces
<1>4. Places' BY <1>1, <1>2, StaysInPlace DEF SelfOnly
<1>5. \A u \in Tasks : pc[u] \notin InLock BY <1>1 DEF SelfInv, Holds
<1>6. Holds' BY <1>1, <1>2, <1>5, Moves DEF Holds, InLock
<1>7. Waits'
  <2> SUFFICES ASSUME NEW s \in Senders, pc'[s] \in BeforeNotify
               PROVE  pc'[SelfTask] = "wait" /\ ~ event'
    BY DEF Waits
  <2>1. s = t BY <1>1, <1>2, <1>5, Moves DEF BeforeNotify, InLock, Tasks
  <2>2. ~ Ready(SelfTask)
    <3>1. SelfTask \in Tasks /\ SelfTask # s BY DEF Tasks
    <3>2. Ready(SelfTask) => SelfPriority <= Priority[s]
      BY <1>1, <2>1, <3>1 DEF Runs, PriorityOf
    <3> QED BY <3>2
  <2>3. pc[SelfTask] = "wait" /\ ~ event
    <3>1. pc[SelfTask] # "idle" BY <1>1 DEF Places
    <3>2. pc[SelfTask] = "wait" => Ready(SelfTask) = event BY DEF Ready
    <3>3. pc[SelfTask] = "lock" => Ready(SelfTask) BY <1>1 DEF Ready
    <3>4. pc[SelfTask] \notin {"idle", "wait", "lock"} => Ready(SelfTask) BY DEF Ready
    <3> QED BY <2>2, <3>1, <3>2, <3>3, <3>4
  <2> QED BY <1>1, <1>2, <2>1, <2>3, Moves DEF Tasks
<1>8. Loaded' BY <1>1, <1>2, Moves DEF SelfInv, Loaded
<1>9. /\ Somebody({"count"})' = Somebody({"count"})
      /\ Somebody({"popped"})' = Somebody({"popped"})
      /\ Somebody({"count", "notify", "confirm"})' = Somebody({"count", "notify", "confirm"})
  BY <1>1, <1>2, NoChange
<1>10. Counted' /\ Late' BY <1>1, <1>9 DEF SelfInv, Counted, Late, Count1
<1> QED BY <1>3, <1>4, <1>6, <1>7, <1>8, <1>10 DEF SelfInv

LEMMA BuildHolds ==
  ASSUME SelfInv, NEW t \in Tasks, Build(t)
  PROVE  SelfInv'
<1> DEFINE future == writer + message[t].len + HeaderBytes
           fits == future <= StreamBytes
           place == IF fits THEN "push" ELSE "unlock"
<1>1. /\ TypeOK /\ Places /\ Goto(t, place) /\ pc[t] = "build"
      /\ writer' = IF fits THEN future ELSE writer
      /\ out' = IF fits THEN [message[t] EXCEPT !.len = future] ELSE out
      /\ UNCHANGED <<owner, queue, used, msgCnt, cached, event, message, callbacks,
                     clobbered, sends, accepted, handled, merged>>
  BY DEF SelfInv, Build, At, fifo, table
<1>2. place \in AllPlaces /\ place \in {"push", "unlock"} BY DEF AllPlaces
<1>3. TypeOK'
  <2>1. pc' \in [Tasks -> AllPlaces] BY <1>1, <1>2, Moves
  <2>2. message[t] \in Messages BY <1>1 DEF TypeOK
  <2>3. message[t].len \in Nat /\ writer \in Nat
    <3>1. message[t].len \in Nat BY <2>2 DEF Messages
    <3>2. writer \in Nat BY <1>1 DEF TypeOK
    <3> QED BY <3>1, <3>2
  <2>4. future \in Nat BY <2>3 DEF HeaderBytes
  <2>5. writer' \in 0 .. StreamBytes BY <1>1, <2>4 DEF TypeOK
  <2>6. [message[t] EXCEPT !.len = future] \in Messages BY <2>2, <2>4 DEF Messages
  <2>7. out' \in Messages
    <3>1. out \in Messages BY <1>1 DEF TypeOK
    <3> HIDE DEF fits, future
    <3> QED BY <3>1, <1>1, <2>6
  <2> QED BY <1>1, <2>1, <2>5, <2>7 DEF TypeOK, AllPlaces
<1> HIDE DEF place
<1>4. Places' BY <1>1, <1>2, StaysInPlace DEF SelfOnly
<1>5. Holds' BY <1>1, <1>2, KeepsLock DEF SelfInv, InLock
<1>6. Waits'
  <2>1. CASE place = "push" BY <1>1, <1>2, <2>1, WaitsOn DEF SelfInv, BeforeNotify
  <2>2. CASE place = "unlock"
    <3> SUFFICES ASSUME NEW s \in Senders, pc'[s] \in BeforeNotify PROVE FALSE
      BY DEF Waits
    <3>1. s # t /\ pc[s] \in InLock
      BY <1>1, <1>2, <2>2, Moves DEF BeforeNotify, InLock, Tasks
    <3> QED BY <1>1, <3>1, Alone DEF SelfInv, InLock, Tasks
  <2> QED BY <1>2, <2>1, <2>2
<1>7. Loaded' BY <1>1, <1>2, Moves DEF SelfInv, Loaded
<1>8. /\ Somebody({"count"})' = Somebody({"count"})
      /\ Somebody({"popped"})' = Somebody({"popped"})
      /\ Somebody({"count", "notify", "confirm"})' = Somebody({"count", "notify", "confirm"})
  BY <1>1, <1>2, NoChange
<1>9. Counted' /\ Late' BY <1>1, <1>8 DEF SelfInv, Counted, Late, Count1
<1> QED BY <1>3, <1>4, <1>5, <1>6, <1>7, <1>9 DEF SelfInv

\* Whoever is at work on the queue is alone with it.
LEMMA NobodyElse ==
  ASSUME Places, Holds, Waits, NEW t \in Tasks, pc[t] \in BeforeNotify
  PROVE  \A u \in Tasks : u # t => pc[u] \notin AtWork
<1> SUFFICES ASSUME NEW u \in Tasks, u # t, pc[u] \in AtWork PROVE FALSE OBVIOUS
<1>1. pc[u] \notin InLock BY Alone DEF BeforeNotify, InLock
<1>2. u = SelfTask BY <1>1 DEF Places, Tasks, AtWork, InLock, SelfOnly
<1>3. pc[SelfTask] # "wait" BY <1>2 DEF AtWork
<1>4. t \notin Senders BY <1>3 DEF Waits
<1> QED BY <1>2, <1>4 DEF Tasks

LEMMA PushHolds ==
  ASSUME SelfInv, NEW t \in Tasks, Push(t)
  PROVE  SelfInv'
<1> DEFINE fits == used + FrameBytes(out) < QueueBytes
           place == IF fits THEN "count" ELSE "unlock"
<1>1. /\ TypeOK /\ Places /\ Goto(t, place) /\ pc[t] = "push"
      /\ writer' = 0 /\ out' = NoMessage
      /\ queue' = IF fits THEN Append(queue, out) ELSE queue
      /\ used' = IF fits THEN used + FrameBytes(out) ELSE used
      /\ accepted' = IF fits THEN Append(accepted, message[t]) ELSE accepted
      /\ cached' = IF fits THEN [cached EXCEPT ![t] = msgCnt] ELSE cached
      /\ UNCHANGED <<owner, msgCnt, event, message, callbacks, clobbered, sends, handled,
                     merged>>
  BY DEF SelfInv, Push, At, table
<1>2. /\ place \in AllPlaces /\ place \in {"count", "unlock"}
      /\ fits <=> place = "count"
  BY DEF AllPlaces
<1>a. out \in Messages /\ queue \in Seq(Messages) /\ used \in Int /\ msgCnt \in Int
      /\ merged \in Nat
  BY <1>1 DEF TypeOK
<1>3. TypeOK'
  <2>1. pc' \in [Tasks -> AllPlaces] BY <1>1, <1>2, Moves
  <2>2. writer' \in 0 .. StreamBytes BY <1>1
  <2>3. out' \in Messages BY <1>1 DEF NoMessage, Messages
  <2>4. queue' \in Seq(Messages) BY <1>1, <1>a
  <2>5. FrameBytes(out) \in Int BY <1>a DEF FrameBytes, Messages
  <2>6. used' \in Int /\ used' < QueueBytes BY <1>1, <1>a, <2>5 DEF TypeOK
  <2>7. message[t] \in Messages BY <1>1 DEF TypeOK
  <2>8. accepted' \in Seq(Messages) BY <1>1, <2>7 DEF TypeOK
  <2>9. cached' \in [Tasks -> Int]
    <3> HIDE DEF fits
    <3>1. cached \in [Tasks -> Int] BY <1>1 DEF TypeOK
    <3> QED BY <3>1, <1>1, <1>a
  <2> QED BY <1>1, <2>1, <2>2, <2>3, <2>4, <2>6, <2>8, <2>9 DEF TypeOK, AllPlaces
<1>4. fits => Len(queue') = Len(queue) + 1 BY <1>1, <1>a
<1>5. cached \in [Tasks -> Int] BY <1>1 DEF TypeOK
<1> HIDE DEF place, fits
<1>6. Places' BY <1>1, <1>2, StaysInPlace DEF SelfOnly
<1>7. Holds' BY <1>1, <1>2, KeepsLock DEF SelfInv, InLock
<1>8. Waits'
  <2>1. CASE place = "count" BY <1>1, <1>2, <2>1, WaitsOn DEF SelfInv, BeforeNotify
  <2>2. CASE place = "unlock"
    <3> SUFFICES ASSUME NEW s \in Senders, pc'[s] \in BeforeNotify PROVE FALSE
      BY DEF Waits
    <3>1. s # t /\ pc[s] \in InLock
      BY <1>1, <1>2, <2>2, Moves DEF BeforeNotify, InLock, Tasks
    <3> QED BY <1>1, <3>1, Alone DEF SelfInv, InLock, Tasks
  <2> QED BY <1>2, <2>1, <2>2
<1>9. \A u \in Tasks : u # t => pc[u] \notin AtWork
  BY <1>1, NobodyElse DEF SelfInv, BeforeNotify
<1>10. Loaded'
  <2> SUFFICES ASSUME NEW u \in Tasks, pc'[u] \in {"count", "popped"}
               PROVE  cached'[u] = msgCnt'
    BY DEF Loaded
  <2>1. u = t BY <1>1, <1>2, <1>9, Moves DEF AtWork
  <2>2. fits BY <1>1, <1>2, <2>1, Moves
  <2>3. cached' = [cached EXCEPT ![t] = msgCnt] BY <1>1, <2>2
  <2> QED BY <1>1, <1>5, <2>1, <2>3
<1>11. /\ Somebody({"count"}) = 0
       /\ Somebody({"count"})' = Count1(fits)
       /\ Somebody({"count", "notify", "confirm"}) = 0
       /\ Somebody({"count", "notify", "confirm"})' = Count1(fits)
  BY <1>1, <1>2, <1>9, OnlyOne DEF AtWork, Count1
<1>12. Somebody({"popped"})' = Somebody({"popped"}) BY <1>1, <1>2, NoChange
<1>13. Counted'
  <2>1. Somebody({"popped"}) \in {0, 1} BY SomebodyType
  <2>2. Len(queue) \in Nat BY <1>a
  <2>3. CASE fits
    BY <1>1, <1>4, <1>11, <1>12, <1>a, <2>1, <2>2, <2>3 DEF SelfInv, Counted, Count1
  <2>4. CASE ~ fits BY <1>1, <1>11, <1>12, <2>4 DEF SelfInv, Counted, Count1
  <2> QED BY <2>3, <2>4
<1>14. Late'
  <2>1. Count1(event) \in {0, 1} BY DEF Count1
  <2>2. Len(queue) \in Nat BY <1>a
  <2>5. Count1(event)' = Count1(event) BY <1>1 DEF Count1
  <2>3. CASE fits
    <3>1. Count1(fits) = 1 BY <2>3 DEF Count1
    <3>2. Len(queue') = Len(queue) + 1 /\ merged' = merged BY <1>1, <1>4, <2>3
    <3>3. Len(queue) = merged + Count1(event) BY <1>11, <1>a, <2>1 DEF SelfInv, Late
    <3>4. Somebody({"count", "notify", "confirm"})' = 1 BY <1>11, <3>1
    <3>5. Len(queue') = merged' + Count1(event)' + 1 BY <1>a, <2>1, <2>5, <3>2, <3>3
    <3> QED BY <3>4, <3>5 DEF Late
  <2>4. CASE ~ fits
    <3>1. Count1(fits) = 0 BY <2>4 DEF Count1
    <3> QED BY <1>1, <1>11, <2>4, <2>5, <3>1 DEF SelfInv, Late
  <2> QED BY <2>3, <2>4
<1> QED BY <1>3, <1>6, <1>7, <1>8, <1>10, <1>13, <1>14 DEF SelfInv

LEMMA CountHolds ==
  ASSUME SelfInv, NEW t \in Tasks, Count(t)
  PROVE  SelfInv'
<1>1. /\ TypeOK /\ Places /\ Goto(t, "notify") /\ pc[t] = "count"
      /\ msgCnt' = cached[t] + 1 /\ cached' = [cached EXCEPT ![t] = 0]
      /\ UNCHANGED <<owner, writer, out, queue, used, event, message, callbacks, clobbered,
                     sends, accepted, handled, merged>>
  BY DEF SelfInv, Count, At, stream, table
<1>2. "notify" \in AllPlaces BY DEF AllPlaces
<1>a. cached[t] = msgCnt /\ msgCnt \in Int /\ queue \in Seq(Messages)
  BY <1>1 DEF SelfInv, Loaded, TypeOK
<1>3. TypeOK'
  <2>1. pc' \in [Tasks -> AllPlaces] BY <1>1, <1>2, Moves
  <2>2. cached' \in [Tasks -> Int] BY <1>1 DEF TypeOK
  <2>3. msgCnt' \in Int BY <1>1, <1>a
  <2> QED BY <1>1, <2>1, <2>2, <2>3 DEF TypeOK, AllPlaces
<1>4. Places' BY <1>1, <1>2, StaysInPlace DEF SelfOnly
<1>5. Holds' BY <1>1, <1>2, KeepsLock DEF SelfInv, InLock
<1>6. Waits' BY <1>1, <1>2, WaitsOn DEF SelfInv, BeforeNotify
<1>7. \A u \in Tasks : u # t => pc[u] \notin AtWork
  BY <1>1, NobodyElse DEF SelfInv, BeforeNotify
<1>8. Loaded' BY <1>1, <1>2, <1>7, Moves DEF Loaded, AtWork
<1>9. /\ Somebody({"count"}) = 1 /\ Somebody({"count"})' = 0
      /\ Somebody({"popped"}) = 0 /\ Somebody({"popped"})' = 0
  BY <1>1, <1>2, <1>7, OnlyOne DEF AtWork, Count1
<1>10. Counted'
  <2>1. msgCnt' = msgCnt + 1 /\ queue' = queue BY <1>1, <1>a
  <2>2. msgCnt + 1 = Len(queue) + 0 BY <1>9 DEF SelfInv, Counted
  <2>3. msgCnt' + 0 = Len(queue') + 0 BY <1>a, <2>1, <2>2
  <2> QED BY <1>9, <2>3 DEF Counted
<1>11. Late'
  <2>1. Somebody({"count", "notify", "confirm"})' = Somebody({"count", "notify", "confirm"})
    BY <1>1, <1>2, NoChange
  <2> QED BY <1>1, <2>1 DEF SelfInv, Late, Count1
<1> QED BY <1>3, <1>4, <1>5, <1>6, <1>8, <1>10, <1>11 DEF SelfInv

LEMMA NotifyHolds ==
  ASSUME SelfInv, NEW t \in Tasks, Notify(t)
  PROVE  SelfInv'
<1>1. /\ TypeOK /\ Places /\ Goto(t, "unlock") /\ pc[t] = "notify"
      /\ event' = TRUE /\ merged' = IF event THEN merged + 1 ELSE merged
      /\ UNCHANGED <<owner, writer, out, queue, used, msgCnt, cached, message, callbacks,
                     clobbered, sends, accepted, handled>>
  BY DEF SelfInv, Notify, At, stream, fifo, table
<1>2. "unlock" \in AllPlaces BY DEF AllPlaces
<1>a. merged \in Nat /\ event \in BOOLEAN /\ Len(queue) \in Nat BY <1>1 DEF TypeOK
<1>3. TypeOK'
  <2>1. pc' \in [Tasks -> AllPlaces] BY <1>1, <1>2, Moves
  <2>2. merged' \in Nat BY <1>1, <1>a
  <2> QED BY <1>1, <2>1, <2>2 DEF TypeOK, AllPlaces
<1>4. Places' BY <1>1, <1>2, StaysInPlace DEF SelfOnly
<1>5. Holds' BY <1>1, <1>2, KeepsLock DEF SelfInv, InLock
<1>6. Waits'
  <2> SUFFICES ASSUME NEW s \in Senders, pc'[s] \in BeforeNotify PROVE FALSE BY DEF Waits
  <2>1. s # t /\ pc[s] \in InLock BY <1>1, <1>2, Moves DEF BeforeNotify, InLock, Tasks
  <2> QED BY <1>1, <2>1, Alone DEF SelfInv, InLock, Tasks
<1>7. \A u \in Tasks : u # t => pc[u] \notin AtWork
  BY <1>1, NobodyElse DEF SelfInv, BeforeNotify
<1>8. Loaded' BY <1>1, <1>2, <1>7, Moves DEF Loaded, AtWork
<1>9. /\ Somebody({"count", "notify", "confirm"}) = 1
      /\ Somebody({"count", "notify", "confirm"})' = 0
  BY <1>1, <1>2, <1>7, OnlyOne DEF AtWork, Count1
<1>10. Counted'
  <2>1. /\ Somebody({"count"})' = Somebody({"count"})
        /\ Somebody({"popped"})' = Somebody({"popped"})
    BY <1>1, <1>2, NoChange
  <2> QED BY <1>1, <2>1 DEF SelfInv, Counted
<1>11. Late'
  <2>1. Len(queue) = merged + Count1(event) + 1 BY <1>9 DEF SelfInv, Late
  <2>2. merged' = merged + Count1(event) BY <1>1, <1>a DEF Count1
  <2>3. Count1(event)' = 1 BY <1>1 DEF Count1
  <2>4. Len(queue') = merged' + 1 + 0 BY <1>1, <1>a, <2>1, <2>2
  <2> QED BY <1>9, <2>3, <2>4 DEF Late
<1> QED BY <1>3, <1>4, <1>5, <1>6, <1>8, <1>10, <1>11 DEF SelfInv

LEMMA UnlockStreamHolds ==
  ASSUME SelfInv, NEW t \in Tasks, UnlockStream(t)
  PROVE  SelfInv'
<1>1. /\ TypeOK /\ Places /\ Goto(t, Home(t)) /\ pc[t] = "unlock"
      /\ owner' = NoTask /\ message' = [message EXCEPT ![t] = NoMessage]
      /\ UNCHANGED <<writer, out, queue, used, msgCnt, cached, event, callbacks, clobbered,
                     sends, accepted, handled, merged>>
  BY DEF SelfInv, UnlockStream, At, fifo, table
<1>2. Home(t) \in AllPlaces /\ Home(t) \in {"idle", "callback"} BY DEF AllPlaces, Home
<1>3. TypeOK'
  <2>1. pc' \in [Tasks -> AllPlaces] BY <1>1, <1>2, Moves
  <2>2. NoMessage \in Messages BY DEF NoMessage, Messages
  <2>3. message' \in [Tasks -> Messages] BY <1>1, <2>2 DEF TypeOK
  <2> QED BY <1>1, <2>1, <2>3 DEF TypeOK, AllPlaces
<1>4. Places'
  <2>1. t \in Senders => Home(t) \notin SelfOnly BY DEF Home, SelfOnly
  <2>2. t = SelfTask => Home(t) # "idle" BY DEF Home
  <2> QED BY <1>1, <1>2, <2>1, <2>2, StaysInPlace
<1>5. Holds'
  <2>1. \A u \in Tasks : pc'[u] \notin InLock
    <3>1. \A u \in Tasks : u # t => pc[u] \notin InLock BY <1>1, Alone DEF SelfInv, InLock
    <3> QED BY <1>1, <1>2, <3>1, Moves DEF InLock
  <2> QED BY <1>1, <2>1 DEF Holds
<1>6. Waits'
  <2> SUFFICES ASSUME NEW s \in Senders, pc'[s] \in BeforeNotify PROVE FALSE BY DEF Waits
  <2>1. s # t /\ pc[s] \in InLock BY <1>1, <1>2, Moves DEF BeforeNotify, InLock, Tasks
  <2> QED BY <1>1, <2>1, Alone DEF SelfInv, InLock, Tasks
<1>7. Loaded' BY <1>1, <1>2, Moves DEF SelfInv, Loaded
<1>8. /\ Somebody({"count"})' = Somebody({"count"})
      /\ Somebody({"popped"})' = Somebody({"popped"})
      /\ Somebody({"count", "notify", "confirm"})' = Somebody({"count", "notify", "confirm"})
  BY <1>1, <1>2, NoChange
<1>9. Counted' /\ Late' BY <1>1, <1>8 DEF SelfInv, Counted, Late, Count1
<1> QED BY <1>3, <1>4, <1>5, <1>6, <1>7, <1>9 DEF SelfInv

\* When the transport's task runs, no sender is on its way to the notification.
LEMMA SelfMoves ==
  ASSUME TypeOK, Places, Holds, Waits, NEW place \in AllPlaces, Goto(SelfTask, place),
         owner' = owner, pc[SelfTask] = "wait" => event,
         pc[SelfTask] \notin InLock, place \notin InLock, place # "idle"
  PROVE  Places' /\ Holds' /\ Waits'
<1>1. SelfTask \in Tasks /\ SelfTask \notin Senders BY DEF Tasks
<1>2. Places' BY <1>1, StaysInPlace
<1>3. Holds' BY <1>1, KeepsLock
<1>4. \A s \in Senders : pc'[s] = pc[s] BY <1>1, Moves DEF Tasks
<1>5. Waits' BY <1>4 DEF Waits
<1> QED BY <1>2, <1>3, <1>5

LEMMA WakeHolds ==
  ASSUME SelfInv, Wake
  PROVE  SelfInv'
<1>1. /\ TypeOK /\ Places /\ Holds /\ Waits
      /\ Goto(SelfTask, "confirm") /\ pc[SelfTask] = "wait"
      /\ event /\ event' = FALSE
      /\ UNCHANGED <<owner, writer, out, queue, used, msgCnt, cached, message, callbacks,
                     clobbered, sends, accepted, handled, merged>>
  BY DEF SelfInv, Wake, At, stream, fifo, table
<1>2. "confirm" \in AllPlaces /\ SelfTask \in Tasks BY DEF AllPlaces, Tasks
<1>a. merged \in Nat /\ Len(queue) \in Nat BY <1>1 DEF TypeOK
<1>3. TypeOK'
  <2>1. pc' \in [Tasks -> AllPlaces] BY <1>1, <1>2, Moves
  <2> QED BY <1>1, <2>1 DEF TypeOK, AllPlaces
<1>4. Places' /\ Holds' /\ Waits' BY <1>1, <1>2, SelfMoves DEF InLock
<1>5. \A u \in Tasks : u # SelfTask => pc[u] \notin {"count", "notify", "confirm"}
  BY <1>1 DEF Waits, BeforeNotify, Places, SelfOnly, Tasks
<1>6. Loaded' BY <1>1, <1>2, Moves DEF SelfInv, Loaded
<1>7. /\ Somebody({"count", "notify", "confirm"}) = 0
      /\ Somebody({"count", "notify", "confirm"})' = 1
  BY <1>1, <1>2, <1>5, OnlyOne DEF Count1
<1>8. Counted'
  <2>1. /\ Somebody({"count"})' = Somebody({"count"})
        /\ Somebody({"popped"})' = Somebody({"popped"})
    BY <1>1, <1>2, NoChange
  <2> QED BY <1>1, <2>1 DEF SelfInv, Counted
<1>9. Late'
  <2>1. Count1(event) = 1 BY <1>1 DEF Count1
  <2>2. Count1(event)' = 0 BY <1>1 DEF Count1
  <2>3. Len(queue) = merged + 1 + 0 BY <1>7, <2>1 DEF SelfInv, Late
  <2>4. Len(queue') = merged' + 0 + 1 BY <1>1, <1>a, <2>3
  <2> QED BY <1>7, <2>2, <2>4 DEF Late
<1> QED BY <1>3, <1>4, <1>6, <1>8, <1>9 DEF SelfInv

\* The count is exact when the transport's task looks at it, and it is not 0.
LEMMA PopHolds ==
  ASSUME SelfInv, Pop
  PROVE  SelfInv'
<1>1. /\ TypeOK /\ Places /\ Holds /\ Waits /\ pc[SelfTask] = "confirm"
      /\ UNCHANGED <<owner, writer, out, msgCnt, event, callbacks, clobbered, sends,
                     accepted, handled, merged>>
  BY DEF SelfInv, Pop, At, stream, table
<1>2. "popped" \in AllPlaces /\ SelfTask \in Tasks BY DEF AllPlaces, Tasks
<1>3. \A u \in Tasks : u # SelfTask => pc[u] \notin AtWork
  BY <1>1, <1>2, OneAtWork DEF AtWork
<1>a. merged \in Nat /\ queue \in Seq(Messages) /\ Len(queue) \in Nat /\ msgCnt \in Int
      /\ cached \in [Tasks -> Int] /\ message \in [Tasks -> Messages]
      /\ used \in Int /\ used < QueueBytes /\ Count1(event) \in {0, 1}
  BY <1>1 DEF TypeOK, Count1
<1>4. /\ Somebody({"count"}) = 0 /\ Somebody({"popped"}) = 0
      /\ Somebody({"count", "notify", "confirm"}) = 1
  <2>1. \A u \in Tasks : pc[u] \notin {"count"} /\ pc[u] \notin {"popped"}
    BY <1>1, <1>3 DEF AtWork
  <2> QED BY <1>1, <1>2, <2>1, NobodyIs, SomebodyIs
<1>5. msgCnt = Len(queue) /\ Len(queue) = merged + Count1(event) + 1
  <2>1. msgCnt + 0 = Len(queue) + 0 BY <1>4 DEF SelfInv, Counted
  <2>2. Len(queue) = merged + Count1(event) + 1 BY <1>4 DEF SelfInv, Late
  <2> QED BY <1>a, <2>1, <2>2
<1>6. msgCnt # 0 /\ queue # <<>> BY <1>5, <1>a
<1>7. /\ queue' = Tail(queue) /\ used' = used - FrameBytes(Head(queue))
      /\ message' = [message EXCEPT ![SelfTask] = Head(queue)]
      /\ cached' = [cached EXCEPT ![SelfTask] = msgCnt]
      /\ Goto(SelfTask, "popped")
  BY <1>6 DEF Pop
<1>8. Head(queue) \in Messages /\ queue' \in Seq(Messages) /\ Len(queue') = Len(queue) - 1
  BY <1>6, <1>7, <1>a
<1>9. TypeOK'
  <2>1. pc' \in [Tasks -> AllPlaces] BY <1>1, <1>2, <1>7, Moves
  <2>2. Head(queue).len \in Nat BY <1>8 DEF Messages
  <2>3. used' \in Int /\ used' < QueueBytes BY <1>7, <1>a, <2>2 DEF FrameBytes
  <2>4. message' \in [Tasks -> Messages] BY <1>7, <1>8, <1>a
  <2>5. cached' \in [Tasks -> Int] BY <1>7, <1>a
  <2> QED BY <1>1, <1>8, <2>1, <2>3, <2>4, <2>5 DEF TypeOK, AllPlaces
<1>10. Places' /\ Holds' /\ Waits' BY <1>1, <1>2, <1>7, SelfMoves DEF InLock
<1>11. Loaded'
  <2> SUFFICES ASSUME NEW u \in Tasks, pc'[u] \in {"count", "popped"}
               PROVE  cached'[u] = msgCnt'
    BY DEF Loaded
  <2>1. u = SelfTask BY <1>1, <1>2, <1>3, <1>7, Moves DEF AtWork
  <2> QED BY <1>1, <1>7, <1>a, <2>1
<1>12. /\ Somebody({"count"})' = 0 /\ Somebody({"popped"})' = 1
       /\ Somebody({"count", "notify", "confirm"})' = 0
  <2>1. \A places \in SUBSET AtWork :
          Somebody(places)' = Count1("popped" \in places)
    <3> SUFFICES ASSUME NEW places \in SUBSET AtWork
                 PROVE  Somebody(places)' = Count1("popped" \in places)
      OBVIOUS
    <3>1. \A u \in Tasks : u # SelfTask => pc[u] \notin places BY <1>3
    <3> QED BY <1>1, <1>2, <1>7, <3>1, OnlyOne
  <2>2. /\ Somebody({"count"})' = Count1("popped" \in {"count"})
        /\ Somebody({"popped"})' = Count1("popped" \in {"popped"})
        /\ Somebody({"count", "notify", "confirm"})'
             = Count1("popped" \in {"count", "notify", "confirm"})
    BY <2>1 DEF AtWork
  <2> QED BY <2>2 DEF Count1
<1>13. Counted'
  <2>1. msgCnt' + 0 = Len(queue') + 1 BY <1>1, <1>5, <1>8, <1>a
  <2> QED BY <1>12, <2>1 DEF Counted
<1>14. Late'
  <2>1. Count1(event)' = Count1(event) BY <1>1 DEF Count1
  <2>2. Len(queue') = merged' + Count1(event)' + 0 BY <1>1, <1>5, <1>8, <1>a, <2>1
  <2> QED BY <1>12, <2>2 DEF Late
<1> QED BY <1>9, <1>10, <1>11, <1>13, <1>14 DEF SelfInv

LEMMA PopCountHolds ==
  ASSUME SelfInv, PopCount
  PROVE  SelfInv'
<1>1. /\ TypeOK /\ Places /\ Holds /\ Waits
      /\ Goto(SelfTask, "deliver") /\ pc[SelfTask] = "popped"
      /\ msgCnt' = cached[SelfTask] - 1 /\ cached' = [cached EXCEPT ![SelfTask] = 0]
      /\ UNCHANGED <<owner, writer, out, queue, used, event, message, callbacks, clobbered,
                     sends, accepted, handled, merged>>
  BY DEF SelfInv, PopCount, At, stream, table
<1>2. "deliver" \in AllPlaces /\ SelfTask \in Tasks BY DEF AllPlaces, Tasks
<1>3. \A u \in Tasks : u # SelfTask => pc[u] \notin AtWork
  BY <1>1, <1>2, OneAtWork DEF AtWork
<1>a. cached[SelfTask] = msgCnt /\ msgCnt \in Int /\ Len(queue) \in Nat
  BY <1>1, <1>2 DEF SelfInv, Loaded, TypeOK
<1>4. TypeOK'
  <2>1. pc' \in [Tasks -> AllPlaces] BY <1>1, <1>2, Moves
  <2>2. cached' \in [Tasks -> Int] BY <1>1, <1>2 DEF TypeOK
  <2>3. msgCnt' \in Int BY <1>1, <1>a
  <2> QED BY <1>1, <2>1, <2>2, <2>3 DEF TypeOK, AllPlaces
<1>5. Places' /\ Holds' /\ Waits' BY <1>1, <1>2, SelfMoves DEF InLock
<1>6. Loaded' BY <1>1, <1>2, <1>3, Moves DEF Loaded, AtWork
<1>7. /\ Somebody({"popped"}) = 1 /\ Somebody({"popped"})' = 0
      /\ Somebody({"count"}) = 0 /\ Somebody({"count"})' = 0
      /\ Somebody({"count", "notify", "confirm"})' = Somebody({"count", "notify", "confirm"})
  BY <1>1, <1>2, <1>3, OnlyOne DEF AtWork, Count1
<1>8. Counted'
  <2>1. msgCnt + 0 = Len(queue) + 1 BY <1>7 DEF SelfInv, Counted
  <2>2. msgCnt' + 0 = Len(queue') + 0 BY <1>1, <1>a, <2>1
  <2> QED BY <1>7, <2>2 DEF Counted
<1>9. Late' BY <1>1, <1>7 DEF SelfInv, Late, Count1
<1> QED BY <1>4, <1>5, <1>6, <1>8, <1>9 DEF SelfInv

LEMMA DeliverHolds ==
  ASSUME SelfInv, Deliver
  PROVE  SelfInv'
<1> DEFINE m == Decoded(message[SelfTask])
           place == IF m.des \in callbacks THEN "callback" ELSE "wait"
<1>1. /\ TypeOK /\ Places /\ Holds /\ Waits
      /\ Goto(SelfTask, place) /\ pc[SelfTask] = "deliver"
      /\ handled' = Append(handled, m)
      /\ message' = [message EXCEPT ![SelfTask] = NoMessage]
      /\ UNCHANGED <<owner, writer, out, queue, used, msgCnt, cached, event, callbacks,
                     clobbered, sends, accepted, merged>>
  BY DEF SelfInv, Deliver, At, stream, fifo, table
<1>2. place \in AllPlaces /\ place \in {"wait", "callback"} /\ SelfTask \in Tasks
  BY DEF AllPlaces, Tasks
<1>3. TypeOK'
  <2>1. pc' \in [Tasks -> AllPlaces] BY <1>1, <1>2, Moves
  <2>2. NoMessage \in Messages BY DEF NoMessage, Messages
  <2>3. message' \in [Tasks -> Messages] BY <1>1, <2>2 DEF TypeOK
  <2>4. message[SelfTask] \in Messages BY <1>1, <1>2 DEF TypeOK
  <2>5. m \in Messages
    <3>1. message[SelfTask].len \in Nat BY <2>4 DEF Messages
    <3>2. (message[SelfTask].len - HeaderBytes) % 256 \in Nat BY <3>1 DEF HeaderBytes
    <3> QED BY <2>4, <3>2 DEF Decoded, Messages
  <2>6. handled' \in Seq(Messages)
    <3>1. handled \in Seq(Messages) BY <1>1 DEF TypeOK
    <3> QED BY <1>1, <2>5, <3>1
  <2> QED BY <1>1, <2>1, <2>3, <2>6 DEF TypeOK, AllPlaces
<1> HIDE DEF place, m
<1>4. Places' /\ Holds' /\ Waits' BY <1>1, <1>2, SelfMoves DEF InLock
<1>5. Loaded' BY <1>1, <1>2, Moves DEF SelfInv, Loaded
<1>6. /\ Somebody({"count"})' = Somebody({"count"})
      /\ Somebody({"popped"})' = Somebody({"popped"})
      /\ Somebody({"count", "notify", "confirm"})' = Somebody({"count", "notify", "confirm"})
  BY <1>1, <1>2, NoChange
<1>7. Counted' /\ Late' BY <1>1, <1>6 DEF SelfInv, Counted, Late, Count1
<1> QED BY <1>3, <1>4, <1>5, <1>7 DEF SelfInv

LEMMA CallbackReturnsHolds ==
  ASSUME SelfInv, CallbackReturns
  PROVE  SelfInv'
<1>1. /\ TypeOK /\ Places /\ Holds /\ Waits
      /\ Goto(SelfTask, "wait") /\ pc[SelfTask] = "callback"
      /\ UNCHANGED <<owner, writer, out, queue, used, msgCnt, cached, event, message,
                     callbacks, clobbered, sends, accepted, handled, merged>>
  BY DEF SelfInv, CallbackReturns, At, stream, fifo, table
<1>2. "wait" \in AllPlaces /\ SelfTask \in Tasks BY DEF AllPlaces, Tasks
<1>3. TypeOK'
  <2>1. pc' \in [Tasks -> AllPlaces] BY <1>1, <1>2, Moves
  <2> QED BY <1>1, <2>1 DEF TypeOK, AllPlaces
<1>4. Places' /\ Holds' /\ Waits' BY <1>1, <1>2, SelfMoves DEF InLock
<1>5. Loaded' BY <1>1, <1>2, Moves DEF SelfInv, Loaded
<1>6. /\ Somebody({"count"})' = Somebody({"count"})
      /\ Somebody({"popped"})' = Somebody({"popped"})
      /\ Somebody({"count", "notify", "confirm"})' = Somebody({"count", "notify", "confirm"})
  BY <1>1, <1>2, NoChange
<1>7. Counted' /\ Late' BY <1>1, <1>6 DEF SelfInv, Counted, Late, Count1
<1> QED BY <1>3, <1>4, <1>5, <1>7 DEF SelfInv

LEMMA StutterHolds ==
  ASSUME SelfInv, UNCHANGED vars
  PROVE  SelfInv'
<1>1. UNCHANGED <<owner, writer, out, queue, used, msgCnt, cached, event, pc, message,
                  callbacks, clobbered, sends, accepted, handled, merged>>
  BY DEF vars, stream, fifo, table
<1>2. TypeOK' BY <1>1 DEF SelfInv, TypeOK
<1>3. Places' /\ Holds' /\ Waits' /\ Loaded'
  BY <1>1 DEF SelfInv, Places, Holds, Waits, Loaded
<1>4. Counted' /\ Late' BY <1>1 DEF SelfInv, Counted, Late, Somebody, Count1
<1> QED BY <1>2, <1>3, <1>4 DEF SelfInv

LEMMA StepHolds == SelfInv /\ [Next]_vars => SelfInv'
<1> SUFFICES ASSUME SelfInv, [Next]_vars PROVE SelfInv' OBVIOUS
<1>1. ASSUME NEW t \in Tasks, SendStep(t) PROVE SelfInv'
  BY <1>1, LockStreamHolds, BuildHolds, PushHolds, CountHolds, NotifyHolds,
     UnlockStreamHolds DEF SendStep
<1>2. ASSUME NEW t \in Tasks, NEW des \in ServiceIds, NEW size \in Sizes,
             SendCall(t, des, size)
      PROVE  SelfInv'
  BY <1>2, SendCallHolds
<1>3. ASSUME NEW s \in Senders, NEW id \in ServiceIds, SetOnTopic(s, id) PROVE SelfInv'
  BY <1>3, SetOnTopicHolds
<1>4. CASE ReceiveStep
  BY <1>4, WakeHolds, PopHolds, PopCountHolds, DeliverHolds, CallbackReturnsHolds
     DEF ReceiveStep
<1>5. CASE UNCHANGED vars BY <1>5, StutterHolds
<1> QED BY <1>1, <1>2, <1>3, <1>4, <1>5 DEF Next

-----------------------------------------------------------------------------
(* What the invariant says of the queue.                                   *)

LEMMA SelfInvGives == SelfInv => TypeOK /\ CountExact /\ Backlog
<1> SUFFICES ASSUME SelfInv PROVE CountExact /\ Backlog BY DEF SelfInv
<1>1. Places /\ Holds /\ Waits /\ SelfTask \in Tasks BY DEF SelfInv, Tasks
<1>2. /\ TasksAt({"count"}) = Somebody({"count"})
      /\ TasksAt({"popped"}) = Somebody({"popped"})
      /\ TasksAt({"count", "notify", "confirm"}) = Somebody({"count", "notify", "confirm"})
  BY <1>1, CountedByOne DEF AtWork
<1>3. ~ (pc[SelfTask] = "popped" /\ \E t \in Tasks : pc[t] = "count")
  BY <1>1, OneAtWork DEF AtWork
<1>4. CountExact BY <1>2, <1>3 DEF SelfInv, Counted, CountExact
<1>5. Backlog BY <1>2 DEF SelfInv, Late, Backlog
<1> QED BY <1>4, <1>5

LEMMA SelfInvAlways == Spec => []SelfInv
  BY InitHolds, StepHolds, PTL DEF Spec

(* For any set of senders whose priorities are below the transport task's: *)
(* no push meets a pop between the load and the store of the count, which  *)
(* stays that of the frames in the ring (lqueue.c called from              *)
(* selfcom_transport.c without a critical section).                        *)
THEOREM CountKept == Spec => []CountExact
<1>1. SelfInv => CountExact BY SelfInvGives
<1> QED BY <1>1, SelfInvAlways, PTL

(* For any such set, the queue of the self transport holds one message for *)
(* each notification that found the bit set, besides those still to be     *)
(* notified or under way: xTaskNotify and the pop of one message per event *)
(* leave exactly so many behind.                                           *)
THEOREM BacklogKept == Spec => []Backlog
<1>1. SelfInv => Backlog BY SelfInvGives
<1> QED BY <1>1, SelfInvAlways, PTL

(* Whatever is sent: nothing is built behind the stream's buffer, and a    *)
(* byte of the ring stays free.                                            *)
THEOREM RoomKept == Spec => []TypeOK
<1>1. SelfInv => TypeOK BY SelfInvGives
<1> QED BY <1>1, SelfInvAlways, PTL

-----------------------------------------------------------------------------
(* The order of the messages.  Every accepted message is handled, in the   *)
(* hands of the transport's task or in the queue, in this order.           *)

InHand == Count1(pc[SelfTask] \in {"popped", "deliver"})

(* A frame holds the message behind its header.                            *)
Carries(f, m) ==
  f.src = m.src /\ f.des = m.des /\ f.len = m.len + HeaderBytes /\ f.len <= StreamBytes

(* The stream's buffer is empty but between the building and the sending,  *)
(* when it holds the message of the task that has the mutex.               *)
WriterBack == (\A t \in Tasks : pc[t] # "push") => writer = 0
Built == \A t \in Tasks : pc[t] = "push" => Carries(out, message[t])

Flow ==
  /\ Len(accepted) = Len(handled) + InHand + Len(queue)
  /\ \A i \in 1 .. Len(queue) : Carries(queue[i], accepted[Len(handled) + InHand + i])
  /\ InHand = 1 => Carries(message[SelfTask], accepted[Len(handled) + 1])

Same(h, a) ==
  /\ h.len = a.len
  /\ clobbered # "src" => h.src = a.src
  /\ clobbered # "des" => h.des = a.des
HandledSame == \A i \in 1 .. Len(handled) : Same(handled[i], accepted[i])

OrderInv == WriterBack /\ Built /\ Flow /\ HandledSame

LEMMA InHandType == InHand \in {0, 1} /\ (InHand = 1 <=> pc[SelfTask] \in {"popped", "deliver"})
  BY DEF InHand, Count1

LEMMA Histories ==
  ASSUME SelfInv
  PROVE  /\ queue \in Seq(Messages) /\ accepted \in Seq(Messages) /\ handled \in Seq(Messages)
         /\ Len(queue) \in Nat /\ Len(accepted) \in Nat /\ Len(handled) \in Nat
  BY DEF SelfInv, TypeOK

LEMMA InitOrder == Init => OrderInv
<1> SUFFICES ASSUME Init PROVE OrderInv OBVIOUS
<1>1. pc[SelfTask] = "wait" /\ \A t \in Tasks : pc[t] # "push" BY DEF Init, Tasks
<1>2. InHand = 0 BY <1>1 DEF InHand, Count1
<1>3. Len(queue) = 0 /\ Len(accepted) = 0 /\ Len(handled) = 0 BY DEF Init
<1>4. Flow BY <1>2, <1>3 DEF Flow
<1>5. HandledSame BY <1>3 DEF HandledSame
<1> QED BY <1>1, <1>4, <1>5 DEF OrderInv, WriterBack, Built, Init

(* A step that neither queues, pops nor handles.                           *)
LEMMA FlowStays ==
  ASSUME Flow, HandledSame, UNCHANGED <<queue, accepted, handled, clobbered>>, InHand' = InHand,
         InHand = 1 => message'[SelfTask] = message[SelfTask]
  PROVE  Flow' /\ HandledSame'
<1>1. Flow' BY DEF Flow, Carries
<1>2. HandledSame' BY DEF HandledSame, Same
<1> QED BY <1>1, <1>2

(* A step of a task that is not and will not be between the two.           *)
LEMMA BuiltStays ==
  ASSUME SelfInv, OrderInv, NEW t \in Tasks, NEW place \in AllPlaces, Goto(t, place),
         pc[t] # "push", place # "push", UNCHANGED <<writer, out>>,
         \A u \in Tasks \ {t} : message'[u] = message[u]
  PROVE  WriterBack' /\ Built'
<1>1. \A u \in Tasks : pc'[u] = "push" <=> pc[u] = "push" BY Moves DEF SelfInv
<1>2. WriterBack' BY <1>1 DEF OrderInv, WriterBack
<1>3. Built'
  <2> SUFFICES ASSUME NEW u \in Tasks, pc'[u] = "push" PROVE Carries(out, message[u])'
    BY DEF Built
  <2>1. pc[u] = "push" /\ u # t BY <1>1
  <2>2. message'[u] = message[u] /\ out' = out BY <2>1
  <2> QED BY <2>1, <2>2 DEF OrderInv, Built, Carries
<1> QED BY <1>2, <1>3

LEMMA InHandStays ==
  ASSUME TypeOK, NEW t \in Tasks, NEW place \in AllPlaces, Goto(t, place),
         pc[t] \notin {"popped", "deliver"}, place \notin {"popped", "deliver"}
  PROVE  InHand' = InHand /\ (t = SelfTask => InHand = 0)
  BY Moves DEF InHand, Count1, Tasks

(* Calls, locks, notifications and wake-ups.                               *)
LEMMA PlainStepOrder ==
  ASSUME SelfInv, OrderInv, NEW t \in Tasks, NEW place \in AllPlaces, Goto(t, place),
         pc[t] \notin {"push", "popped", "deliver"}, place \notin {"push", "popped", "deliver"},
         UNCHANGED <<writer, out, queue, accepted, handled, clobbered>>,
         \A u \in Tasks \ {t} : message'[u] = message[u]
  PROVE  OrderInv'
<1>1. WriterBack' /\ Built' BY BuiltStays
<1>2. InHand' = InHand /\ (t = SelfTask => InHand = 0) BY InHandStays DEF SelfInv
<1>3. InHand = 1 => message'[SelfTask] = message[SelfTask] BY <1>2 DEF Tasks
<1>4. Flow' /\ HandledSame' BY <1>2, <1>3, FlowStays DEF OrderInv
<1> QED BY <1>1, <1>4 DEF OrderInv

LEMMA BuildOrder ==
  ASSUME SelfInv, OrderInv, NEW t \in Tasks, Build(t)
  PROVE  OrderInv'
<1> DEFINE future == writer + message[t].len + HeaderBytes
           fits == future <= StreamBytes
           place == IF fits THEN "push" ELSE "unlock"
<1>1. /\ pc[t] = "build" /\ Goto(t, place)
      /\ writer' = (IF fits THEN future ELSE writer)
      /\ out' = (IF fits THEN [message[t] EXCEPT !.len = future] ELSE out)
      /\ UNCHANGED <<queue, accepted, handled, clobbered, message>>
  BY DEF Build, At, fifo, table
<1>2. place \in AllPlaces /\ place \notin {"popped", "deliver"} /\ (fits <=> place = "push")
  BY DEF AllPlaces
<1>3. CASE ~ fits
  <2>1. UNCHANGED <<writer, out>> /\ place # "push" BY <1>1, <1>2, <1>3
  <2> HIDE DEF place, fits
  <2> QED BY <1>1, <1>2, <2>1, PlainStepOrder
<1>4. CASE fits
  <2>1. \A u \in Tasks : u # t => pc[u] \notin InLock BY <1>1, Alone DEF SelfInv, InLock
  <2>2. \A u \in Tasks : pc[u] # "push" BY <1>1, <2>1 DEF InLock
  <2>3. writer = 0 BY <2>2 DEF OrderInv, WriterBack
  <2>4. message[t] \in Messages BY DEF SelfInv, TypeOK
  <2>5. message[t].len \in Nat BY <2>4 DEF Messages
  <2>6. future = message[t].len + HeaderBytes BY <2>3, <2>5 DEF HeaderBytes
  <2>7. out' = [message[t] EXCEPT !.len = message[t].len + HeaderBytes] BY <1>1, <1>4, <2>6
  <2>8. out'.src = message[t].src /\ out'.des = message[t].des
        /\ out'.len = message[t].len + HeaderBytes
    BY <2>4, <2>7 DEF Messages
  <2>9. out'.len <= StreamBytes BY <1>4, <2>6, <2>8
  <2> HIDE DEF place, fits, future
  <2>10. pc'[t] = "push" /\ \A u \in Tasks : u # t => pc'[u] # "push"
    BY <1>1, <1>2, <1>4, <2>2, Moves DEF SelfInv
  <2>11. WriterBack' BY <2>10 DEF WriterBack
  <2>12. Built' BY <1>1, <2>8, <2>9, <2>10 DEF Built, Carries
  <2>13. InHand' = InHand BY <1>1, <1>2, InHandStays DEF SelfInv
  <2>14. Flow' /\ HandledSame' BY <1>1, <2>13, FlowStays DEF OrderInv
  <2> QED BY <2>11, <2>12, <2>14 DEF OrderInv
<1> QED BY <1>3, <1>4

LEMMA PushOrder ==
  ASSUME SelfInv, OrderInv, NEW t \in Tasks, Push(t)
  PROVE  OrderInv'
<1> DEFINE fits == used + FrameBytes(out) < QueueBytes
           place == IF fits THEN "count" ELSE "unlock"
<1>1. /\ pc[t] = "push" /\ Goto(t, place) /\ writer' = 0
      /\ queue' = (IF fits THEN Append(queue, out) ELSE queue)
      /\ accepted' = (IF fits THEN Append(accepted, message[t]) ELSE accepted)
      /\ UNCHANGED <<handled, clobbered, message>>
  BY DEF Push, At, table
<1>2. place \in AllPlaces /\ place \notin {"push", "popped", "deliver"} BY DEF AllPlaces
<1>3. out \in Messages /\ message[t] \in Messages BY DEF SelfInv, TypeOK
<1> HIDE DEF place, fits
<1>4. \A u \in Tasks : u # t => pc[u] # "push" BY <1>1, Alone DEF SelfInv, InLock
<1>5. \A u \in Tasks : pc'[u] # "push" BY <1>1, <1>2, <1>4, Moves DEF SelfInv
<1>6. WriterBack' /\ Built' BY <1>1, <1>5 DEF WriterBack, Built
<1>7. InHand' = InHand BY <1>1, <1>2, InHandStays DEF SelfInv
<1>8. CASE ~ fits
  <2>1. UNCHANGED <<queue, accepted>> BY <1>1, <1>8
  <2>2. Flow' /\ HandledSame' BY <1>1, <1>7, <2>1, FlowStays DEF OrderInv
  <2> QED BY <1>6, <2>2 DEF OrderInv
<1>9. CASE fits
  <2> DEFINE n == Len(handled) + InHand
  <2>1. queue' = Append(queue, out) /\ accepted' = Append(accepted, message[t]) BY <1>1, <1>9
  <2>2. n \in Nat /\ Len(accepted) = n + Len(queue) /\ Len(handled) <= n
    BY Histories, InHandType DEF OrderInv, Flow
  <2>3. /\ Len(queue') = Len(queue) + 1 /\ Len(accepted') = Len(accepted) + 1
        /\ queue'[Len(queue) + 1] = out /\ accepted'[Len(accepted) + 1] = message[t]
        /\ \A i \in 1 .. Len(queue) : queue'[i] = queue[i]
        /\ \A i \in 1 .. Len(accepted) : accepted'[i] = accepted[i]
    BY <1>3, <2>1, Histories
  <2>4. Carries(out, message[t]) BY <1>1 DEF OrderInv, Built
  <2>5. ASSUME NEW i \in 1 .. Len(queue') PROVE Carries(queue'[i], accepted'[n + i])
    <3>1. CASE i = Len(queue) + 1
      <4>1. n + i = Len(accepted) + 1 BY <2>2, <3>1, Histories
      <4> QED BY <2>3, <2>4, <3>1, <4>1
    <3>2. CASE i # Len(queue) + 1
      <4>1. i \in 1 .. Len(queue) /\ n + i \in 1 .. Len(accepted)
        BY <2>2, <2>3, <3>2, Histories
      <4>2. Carries(queue[i], accepted[n + i]) BY <4>1 DEF OrderInv, Flow
      <4> QED BY <2>3, <4>1, <4>2
    <3> QED BY <3>1, <3>2
  <2>6. Len(accepted') = n + Len(queue') BY <2>2, <2>3, Histories
  <2>7. InHand = 1 => Carries(message[SelfTask], accepted'[Len(handled) + 1])
    <3> SUFFICES ASSUME InHand = 1 PROVE Carries(message[SelfTask], accepted'[Len(handled) + 1])
      OBVIOUS
    <3>1. Len(handled) + 1 \in 1 .. Len(accepted) BY <2>2, Histories
    <3>2. Carries(message[SelfTask], accepted[Len(handled) + 1]) BY DEF OrderInv, Flow
    <3> QED BY <2>3, <3>1, <3>2
  <2>8. Flow'
    <3>1. (Len(handled) + InHand)' = n BY <1>1, <1>7
    <3> HIDE DEF n
    <3>2. \A i \in 1 .. Len(queue') : Carries(queue'[i], accepted'[n + i]) BY <2>5
    <3> QED BY <1>1, <1>7, <2>6, <2>7, <3>1, <3>2 DEF Flow, Carries
  <2>9. HandledSame'
    <3>1. \A i \in 1 .. Len(handled) : i \in 1 .. Len(accepted) BY <2>2, Histories
    <3> QED BY <1>1, <2>3, <3>1 DEF OrderInv, HandledSame, Same
  <2> QED BY <1>6, <2>8, <2>9 DEF OrderInv
<1> QED BY <1>8, <1>9

LEMMA PopOrder ==
  ASSUME SelfInv, OrderInv, Pop
  PROVE  OrderInv'
<1>1. /\ pc[SelfTask] = "confirm" /\ SelfTask \in Tasks
      /\ UNCHANGED <<writer, out, accepted, handled, clobbered>>
  BY DEF Pop, At, stream, table, Tasks
<1>2. CASE msgCnt = 0
  <2>1. Goto(SelfTask, "wait") /\ UNCHANGED <<queue, message>> /\ "wait" \in AllPlaces
    BY <1>2 DEF Pop, AllPlaces
  <2> QED BY <1>1, <2>1, PlainStepOrder
<1>3. CASE msgCnt # 0
  <2>1. /\ Goto(SelfTask, "popped") /\ queue' = Tail(queue)
        /\ message' = [message EXCEPT ![SelfTask] = Head(queue)] /\ "popped" \in AllPlaces
    BY <1>3 DEF Pop, AllPlaces
  <2>2. queue # <<>>
    <3>1. /\ Places /\ Holds /\ Waits /\ msgCnt \in Int
          /\ msgCnt + Somebody({"count"}) = Len(queue) + Somebody({"popped"})
      BY DEF SelfInv, TypeOK, Counted
    <3>2. \A u \in Tasks : u # SelfTask => pc[u] \notin {"count", "popped"}
      BY <1>1, <3>1 DEF Waits, BeforeNotify, Places, SelfOnly, Tasks
    <3>3. Somebody({"count"}) = 0 /\ Somebody({"popped"}) = 0
      BY <1>1, <3>2, NobodyIs
    <3> QED BY <1>3, <3>1, <3>3
  <2>3. InHand = 0 /\ InHand' = 1 BY <1>1, <2>1, Moves DEF InHand, Count1, SelfInv
  <2>4. /\ Len(queue') = Len(queue) - 1 /\ Len(queue) > 0
        /\ Head(queue) = queue[1]
        /\ \A i \in 1 .. Len(queue') : queue'[i] = queue[i + 1]
    BY <2>1, <2>2, Histories
  <2>5. message'[SelfTask] = queue[1] /\ \A u \in Tasks \ {SelfTask} : message'[u] = message[u]
    BY <1>1, <2>1, <2>4 DEF SelfInv, TypeOK
  <2>6. WriterBack' /\ Built' BY <1>1, <2>1, <2>5, BuiltStays
  <2> DEFINE n == Len(handled)
  <2>7. n \in Nat /\ Len(queue) \in Nat /\ Len(accepted) = n + Len(queue) 
        /\ \A i \in 1 .. Len(queue) : Carries(queue[i], accepted[n + i])
    <3>1. Len(handled) + 0 = Len(handled) BY Histories
    <3> QED BY <2>3, <3>1, Histories DEF OrderInv, Flow
  <2>8. n' = n /\ accepted' = accepted BY <1>1
  <2>9. Flow'
    <3>1. Len(accepted) = n + 1 + Len(queue') BY <2>4, <2>7
    <3>2. Carries(queue[1], accepted[n + 1])  BY <2>4, <2>7
    <3>3. ASSUME NEW i \in 1 .. Len(queue') PROVE Carries(queue'[i], accepted[n + 1 + i])
      <4>1. i + 1 \in 1 .. Len(queue) /\ n + (i + 1) = n + 1 + i BY <2>4, <2>7
      <4> QED BY <2>4, <2>7, <4>1
    <3> HIDE DEF n
    <3>4. Carries(message'[SelfTask], accepted[n + 1]) BY <2>5, <3>2
    <3>5. Len(handled') = n BY <2>8 DEF n
    <3> QED BY <2>3, <2>8, <3>1, <3>3, <3>4, <3>5 DEF Flow, Carries
  <2>10. HandledSame' BY <1>1 DEF OrderInv, HandledSame, Same
  <2> QED BY <2>6, <2>9, <2>10 DEF OrderInv
<1> QED BY <1>2, <1>3

LEMMA PopCountOrder ==
  ASSUME SelfInv, OrderInv, PopCount
  PROVE  OrderInv'
<1>1. /\ pc[SelfTask] = "popped" /\ SelfTask \in Tasks /\ Goto(SelfTask, "deliver")
      /\ "deliver" \in AllPlaces
      /\ UNCHANGED <<writer, out, queue, accepted, handled, clobbered, message>>
  BY DEF PopCount, At, stream, table, Tasks, AllPlaces
<1>2. WriterBack' /\ Built' BY <1>1, BuiltStays
<1>3. InHand' = InHand BY <1>1, Moves DEF InHand, Count1, SelfInv
<1>4. Flow' /\ HandledSame' BY <1>1, <1>3, FlowStays DEF OrderInv
<1> QED BY <1>2, <1>4 DEF OrderInv

(* The second byte of the length, which is read behind it, is 0 for every  *)
(* message that fits the stream: one byte holds the payload's length.      *)
LEMMA LengthFitsByte ==
  ASSUME StreamBytes < 256 + HeaderBytes, NEW f \in Messages, NEW m \in Messages, Carries(f, m)
  PROVE  (f.len - HeaderBytes) % 256 = m.len
<1>1. m.len \in Nat /\ f.len = m.len + HeaderBytes /\ f.len <= StreamBytes
  BY DEF Carries, Messages
<1>2. m.len < 256 /\ f.len - HeaderBytes = m.len BY <1>1 DEF HeaderBytes
<1> QED BY <1>1, <1>2

LEMMA DeliverOrder ==
  ASSUME StreamBytes < 256 + HeaderBytes, SelfInv, OrderInv, Deliver
  PROVE  OrderInv'
<1> DEFINE f == message[SelfTask]
           m == Decoded(f)
           place == IF m.des \in callbacks THEN "callback" ELSE "wait"
           n == Len(handled)
<1>1. /\ pc[SelfTask] = "deliver" /\ SelfTask \in Tasks /\ Goto(SelfTask, place)
      /\ handled' = Append(handled, m)
      /\ message' = [message EXCEPT ![SelfTask] = NoMessage]
      /\ UNCHANGED <<writer, out, queue, accepted, clobbered>>
  BY DEF Deliver, At, stream, table, fifo, Tasks
<1>2. place \in AllPlaces /\ place \notin {"push", "popped", "deliver"} BY DEF AllPlaces
<1> HIDE DEF place
<1>3. \A u \in Tasks \ {SelfTask} : message'[u] = message[u] BY <1>1 DEF SelfInv, TypeOK
<1>4. WriterBack' /\ Built' BY <1>1, <1>2, <1>3, BuiltStays
<1>5. InHand = 1 /\ InHand' = 0 BY <1>1, <1>2, Moves DEF InHand, Count1, SelfInv
<1>6. n \in Nat /\ Len(accepted) = n + 1 + Len(queue) /\ Len(queue) \in Nat
      /\ Carries(f, accepted[n + 1])
      /\ \A i \in 1 .. Len(queue) : Carries(queue[i], accepted[n + 1 + i])
  BY <1>5, Histories DEF OrderInv, Flow
<1>7. f \in Messages /\ accepted[n + 1] \in Messages
  <2>1. n + 1 \in 1 .. Len(accepted) BY <1>6
  <2> QED BY <1>1, <2>1, Histories DEF SelfInv, TypeOK
<1>8. Same(m, accepted[n + 1])
  <2>1. (f.len - HeaderBytes) % 256 = accepted[n + 1].len BY <1>6, <1>7, LengthFitsByte
  <2> QED BY <1>6, <2>1 DEF Decoded, Same, Carries
<1>9. Len(handled') = n + 1 /\ handled'[n + 1] = m
      /\ \A i \in 1 .. n : handled'[i] = handled[i]
  <2>1. handled \in Seq(Messages) BY Histories
  <2> HIDE DEF m
  <2> QED BY <1>1, <2>1
<1> HIDE DEF m, f
<1>10. Flow'
  <2>1. Len(handled') + 0 = n + 1 BY <1>6, <1>9
  <2> QED BY <1>1, <1>5, <1>6, <1>9, <2>1 DEF Flow, Carries
<1>11. HandledSame'
  <2>1. ASSUME NEW i \in 1 .. n + 1 PROVE Same(handled'[i], accepted[i])
    <3>1. CASE i = n + 1 BY <1>8, <1>9, <3>1
    <3>2. CASE i # n + 1
      <4>1. i \in 1 .. n BY <1>6, <3>2
      <4>2. Same(handled[i], accepted[i]) BY <4>1 DEF OrderInv, HandledSame
      <4> QED BY <1>9, <4>1, <4>2
    <3> QED BY <3>1, <3>2
  <2> HIDE DEF n
  <2> QED BY <1>1, <1>9, <2>1 DEF HandledSame, Same
<1> QED BY <1>4, <1>10, <1>11 DEF OrderInv

LEMMA StepOrder ==
  ASSUME StreamBytes < 256 + HeaderBytes
  PROVE  SelfInv /\ OrderInv /\ [Next]_vars => OrderInv'
<1> SUFFICES ASSUME SelfInv, OrderInv, [Next]_vars PROVE OrderInv' OBVIOUS
<1>1. ASSUME NEW t \in Tasks, LockStream(t) PROVE OrderInv'
  <2>1. pc[t] = "lock" /\ Goto(t, "build") /\ "build" \in AllPlaces
        /\ UNCHANGED <<writer, out, queue, accepted, handled, clobbered, message>>
    BY <1>1 DEF LockStream, At, AllPlaces, fifo, table
  <2> QED BY <2>1, PlainStepOrder
<1>2. ASSUME NEW t \in Tasks, Count(t) PROVE OrderInv'
  <2>1. pc[t] = "count" /\ Goto(t, "notify") /\ "notify" \in AllPlaces
        /\ UNCHANGED <<writer, out, queue, accepted, handled, clobbered, message>>
    BY <1>2 DEF Count, At, AllPlaces, stream, table
  <2> QED BY <2>1, PlainStepOrder
<1>3. ASSUME NEW t \in Tasks, Notify(t) PROVE OrderInv'
  <2>1. pc[t] = "notify" /\ Goto(t, "unlock") /\ "unlock" \in AllPlaces
        /\ UNCHANGED <<writer, out, queue, accepted, handled, clobbered, message>>
    BY <1>3 DEF Notify, At, AllPlaces, stream, table, fifo
  <2> QED BY <2>1, PlainStepOrder
<1>4. ASSUME NEW t \in Tasks, UnlockStream(t) PROVE OrderInv'
  <2>1. /\ pc[t] = "unlock" /\ Goto(t, Home(t)) /\ Home(t) \in AllPlaces
        /\ Home(t) \notin {"push", "popped", "deliver"}
        /\ message' = [message EXCEPT ![t] = NoMessage]
        /\ UNCHANGED <<writer, out, queue, accepted, handled, clobbered>>
    BY <1>4 DEF UnlockStream, At, AllPlaces, Home, table, fifo
  <2>2. \A u \in Tasks \ {t} : message'[u] = message[u] BY <2>1 DEF SelfInv, TypeOK
  <2> QED BY <2>1, <2>2, PlainStepOrder
<1>5. ASSUME NEW t \in Tasks, NEW des \in ServiceIds, NEW size \in Sizes, SendCall(t, des, size)
      PROVE  OrderInv'
  <2> DEFINE new == [src |-> SourceOf[t], des |-> des, len |-> size]
  <2>1. /\ pc[t] \in {"idle", "callback"} /\ Goto(t, "lock") /\ "lock" \in AllPlaces
        /\ message' = [message EXCEPT ![t] = new]
        /\ UNCHANGED <<writer, out, queue, accepted, handled, clobbered>>
    BY <1>5 DEF SendCall, At, AllPlaces, Home, table, fifo, stream
  <2>2. \A u \in Tasks \ {t} : message'[u] = message[u] BY <2>1 DEF SelfInv, TypeOK
  <2> QED BY <2>1, <2>2, PlainStepOrder
<1>6. ASSUME NEW s \in Senders, NEW id \in ServiceIds, SetOnTopic(s, id) PROVE OrderInv'
  <2>1. UNCHANGED <<writer, out, queue, accepted, handled, clobbered, message, pc>>
    BY <1>6 DEF SetOnTopic, fifo, stream
  <2> QED BY <2>1 DEF OrderInv, WriterBack, Built, Flow, HandledSame, Same, Carries, InHand, Count1
<1>7. CASE Wake
  <2>1. pc[SelfTask] = "wait" /\ Goto(SelfTask, "confirm") /\ "confirm" \in AllPlaces
        /\ SelfTask \in Tasks
        /\ UNCHANGED <<writer, out, queue, accepted, handled, clobbered, message>>
    BY <1>7 DEF Wake, At, AllPlaces, stream, table, fifo, Tasks
  <2> QED BY <2>1, PlainStepOrder
<1>8. CASE CallbackReturns
  <2>1. pc[SelfTask] = "callback" /\ Goto(SelfTask, "wait") /\ "wait" \in AllPlaces
        /\ SelfTask \in Tasks
        /\ UNCHANGED <<writer, out, queue, accepted, handled, clobbered, message>>
    BY <1>8 DEF CallbackReturns, At, AllPlaces, stream, table, fifo, Tasks
  <2> QED BY <2>1, PlainStepOrder
<1>9. CASE UNCHANGED vars
  BY <1>9 DEF vars, stream, fifo, table, OrderInv, WriterBack, Built, Flow, HandledSame, Same,
              Carries, InHand, Count1
<1> QED
  BY <1>1, <1>2, <1>3, <1>4, <1>5, <1>6, <1>7, <1>8, <1>9, BuildOrder, PushOrder, PopOrder,
     PopCountOrder, DeliverOrder
     DEF Next, SendStep, ReceiveStep

(* When the payload's length fits the byte it is read into, as the 256     *)
(* bytes of the stream see to, the callbacks get the messages in the order *)
(* in which the queue took them, whatever the senders and notifications    *)
(* do: the lost notifications delay them and do not reorder them.          *)
THEOREM OrderKept ==
  ASSUME StreamBytes < 256 + HeaderBytes
  PROVE  Spec => []HandledInOrder
<1>1. SelfInv /\ OrderInv => HandledInOrder
  <2> SUFFICES ASSUME SelfInv, OrderInv PROVE HandledInOrder OBVIOUS
  <2>1. Len(handled) <= Len(accepted) BY Histories, InHandType DEF OrderInv, Flow
  <2> QED BY <2>1 DEF OrderInv, HandledSame, Same, HandledInOrder
<1>2. SelfInv /\ OrderInv /\ [Next]_vars => OrderInv' BY StepOrder
<1> QED BY <1>1, <1>2, InitOrder, SelfInvAlways, PTL DEF Spec
=============================================================================
