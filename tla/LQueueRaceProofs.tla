-------------------------- MODULE LQueueRaceProofs --------------------------
(***************************************************************************)
(* Critical sections around both calls are enough, for any number of       *)
(* tasks, any ring and any size of frame: the message count is that of the *)
(* frames between the indices, and pops hand out what was pushed, whole,   *)
(* in order and once.                                                      *)
(***************************************************************************)
EXTENDS LQueueRace, FiniteSetTheorems, TLAPS

USE TasksAssumption, SizesAssumption

(* Every byte that goes through the ring has a position of its own, counted*)
(* from the first byte ever pushed; the frames take one after the other.   *)
At(p) == p % BufferLength
Start(m) == (m - 1) * FrameCells

Bytes == (1 .. MaxMessages) \X (1 .. FrameCells)
Frames == [1 .. FrameCells -> Bytes]
Locals == [wi : Nat, ri : Nat, cnt : Nat, done : Nat, frame : Seq(Bytes)]

(* The next frame to be pushed and the next one to be popped.              *)
Newest == Len(pushed) + 1
Oldest == Len(popped) + 1

(* One task at a time is in a call.                                        *)
Alone ==
  /\ inside \in Tasks \cup {"none"}
  /\ \A t \in Tasks : pc[t] # "idle" <=> inside = t
  /\ \A t \in Poppers : pc[t] \in {"idle", "check", "store"}

(* A pop that has stored the index and not handed out its frame, and a     *)
(* push that has stored the index and not the count.                       *)
Returning == \E t \in Poppers : pc[t] = "store"
Uncounted == \E t \in Pushers : pc[t] \in {"load", "store"}

(* The indices are those of the first and the last frame, the frames fit   *)
(* the ring, and their bytes are the ones pushed.                          *)
Placed ==
  /\ writeIndex = At(Start(Newest))
  /\ readIndex = At(Start(IF Returning THEN Oldest + 1 ELSE Oldest))
  /\ Oldest <= Newest /\ Start(Newest) - Start(Oldest) < BufferLength
Stored ==
  \A m \in Oldest .. Newest - 1 : \A k \in 1 .. FrameCells :
    buffer[At(Start(m) + k - 1)] = pushed[m][k]

Counted == msgCnt = Newest - Oldest - (IF Uncounted THEN 1 ELSE 0)
InOrder == \A i \in 1 .. Len(popped) : popped[i] = pushed[i]

(* What a call has in its local variables.                                 *)
Checking(t) ==
  /\ cached[t].wi = writeIndex /\ cached[t].ri = readIndex /\ cached[t].done = 0
  /\ cached[t].frame \in Frames
Writing(t) ==
  /\ cached[t].done <= FrameCells /\ cached[t].frame \in Frames
  /\ cached[t].wi = At(Start(Newest) + cached[t].done)
  /\ Start(Newest) + FrameCells - Start(Oldest) < BufferLength
  /\ \A k \in 1 .. cached[t].done : buffer[At(Start(Newest) + k - 1)] = cached[t].frame[k]
Popping(t) ==
  /\ cached[t].cnt = msgCnt
  /\ cached[t].done <= FrameCells /\ (cached[t].done > 0 => msgCnt # 0)
  /\ cached[t].ri = At(Start(Oldest) + cached[t].done)
  /\ Len(cached[t].frame) = cached[t].done
  /\ \A k \in 1 .. cached[t].done : cached[t].frame[k] = pushed[Oldest][k]
Popped(t) == cached[t].cnt = msgCnt /\ Oldest < Newest /\ cached[t].frame = pushed[Oldest]

Local ==
  /\ \A t \in Pushers : /\ pc[t] = "check" => Checking(t)
                        /\ pc[t] = "write" => Writing(t)
                        /\ pc[t] = "store" => cached[t].cnt = msgCnt
  /\ \A t \in Poppers : /\ pc[t] = "check" => Popping(t)
                        /\ pc[t] = "store" => Popped(t)

Typed ==
  /\ TypeOK
  /\ cached \in [Tasks -> Locals]
  /\ pushed \in Seq(Frames) /\ popped \in Seq(Frames)

RaceInv == Typed /\ Alone /\ Placed /\ Stored /\ Counted /\ InOrder /\ Local

-----------------------------------------------------------------------------
(* Positions.                                                              *)

LEMMA AtInside ==
  ASSUME NEW p \in Nat
  PROVE  At(p) \in Index
  BY DEF At, Index

(* What a position leaves when whole rounds of the ring are taken off it.  *)
LEMMA AtUnique ==
  ASSUME NEW a \in Nat, NEW r \in 0 .. BufferLength - 1,
         NEW p, p = a * BufferLength + r
  PROVE  At(p) = r
  BY DEF At

LEMMA DivMod ==
  ASSUME NEW a \in Nat, NEW d \in Nat \ {0}
  PROVE  a \div d \in Nat /\ (a \div d) * d + (a % d) = a
  OBVIOUS

LEMMA Rounds ==
  ASSUME NEW p \in Nat
  PROVE  \E a \in Nat : p = a * BufferLength + At(p)
<1> DEFINE a == p \div BufferLength
<1>1. BufferLength \in Nat \ {0} OBVIOUS
<1>2. a \in Nat /\ p = a * BufferLength + At(p) BY <1>1, DivMod DEF At
<1> HIDE DEF a
<1> QED BY <1>2

(* n bytes on, short of a whole round, the index has wrapped at most once. *)
LEMMA AtOn ==
  ASSUME NEW p \in Nat, NEW n \in Nat, n < BufferLength
  PROVE  At(p + n) = IF At(p) + n < BufferLength THEN At(p) + n
                                                 ELSE At(p) + n - BufferLength
<1> DEFINE r == At(p)
<1>1. r \in 0 .. BufferLength - 1 BY AtInside DEF Index
<1>2. PICK a \in Nat : p = a * BufferLength + r BY Rounds
<1> HIDE DEF r
<1>3. CASE r + n < BufferLength
  <2>1. p + n = a * BufferLength + (r + n) BY <1>1, <1>2
  <2>2. r + n \in 0 .. BufferLength - 1 BY <1>1, <1>3
  <2>3. At(p + n) = r + n BY <2>1, <2>2, AtUnique
  <2> QED BY <1>3, <2>3 DEF r
<1>4. CASE ~ (r + n < BufferLength)
  <2>1. p + n = (a + 1) * BufferLength + (r + n - BufferLength) BY <1>1, <1>2
  <2>2. r + n - BufferLength \in 0 .. BufferLength - 1 BY <1>1, <1>4
  <2>3. a + 1 \in Nat BY <1>2
  <2> DEFINE s == r + n - BufferLength
  <2>4. s \in 0 .. BufferLength - 1 /\ p + n = (a + 1) * BufferLength + s BY <2>1, <2>2
  <2> HIDE DEF s
  <2>5. At(p + n) = s BY <2>3, <2>4, AtUnique
  <2> QED BY <1>4, <2>5 DEF r, s
<1> QED BY <1>3, <1>4

LEMMA AtNext ==
  ASSUME NEW p \in Nat
  PROVE  At(p + 1) = Advance(At(p))
<1>1. At(p) \in 0 .. BufferLength - 1 /\ 1 < BufferLength BY AtInside DEF Index
<1>2. At(p + 1) = IF At(p) + 1 < BufferLength THEN At(p) + 1 ELSE At(p) + 1 - BufferLength
  BY <1>1, AtOn
<1> QED BY <1>1, <1>2 DEF Advance

LEMMA AtDistinct ==
  ASSUME NEW p \in Nat, NEW q \in Nat, p < q, q - p < BufferLength
  PROVE  At(p) # At(q)
<1>1. q - p \in Nat /\ p + (q - p) = q OBVIOUS
<1>2. At(q) = IF At(p) + (q - p) < BufferLength THEN At(p) + (q - p)
                                                ELSE At(p) + (q - p) - BufferLength
  BY <1>1, AtOn
<1>3. At(p) \in 0 .. BufferLength - 1 BY AtInside DEF Index
<1> QED BY <1>2, <1>3

LEMMA Free ==
  ASSUME NEW p \in Nat, NEW q \in Nat, p <= q, q - p < BufferLength
  PROVE  calcFreeSpace(At(q), At(p)) = BufferLength - 1 - (q - p)
<1>1. q - p \in Nat /\ p + (q - p) = q OBVIOUS
<1>2. At(q) = IF At(p) + (q - p) < BufferLength THEN At(p) + (q - p)
                                                ELSE At(p) + (q - p) - BufferLength
  BY <1>1, AtOn
<1>3. At(p) \in 0 .. BufferLength - 1 BY AtInside DEF Index
<1> QED BY <1>2, <1>3 DEF calcFreeSpace

LEMMA StartNat ==
  ASSUME NEW m \in Nat \ {0}
  PROVE  Start(m) \in Nat /\ Start(m + 1) = Start(m) + FrameCells
  BY DEF Start

LEMMA StartSpan ==
  ASSUME NEW m \in Nat \ {0}, NEW d \in Nat
  PROVE  Start(m + d) = Start(m) + d * FrameCells /\ d * FrameCells \in Nat
  BY DEF Start

LEMMA StartOrder ==
  ASSUME NEW m \in Nat \ {0}, NEW n \in Nat \ {0}, m < n
  PROVE  Start(m) + FrameCells <= Start(n)
<1> DEFINE d == n - (m + 1)
<1>1. d \in Nat /\ m + 1 \in Nat \ {0} /\ n = (m + 1) + d OBVIOUS
<1> HIDE DEF d
<1>2. Start(n) = Start(m + 1) + d * FrameCells /\ d * FrameCells \in Nat BY <1>1, StartSpan
<1>3. Start(m) \in Nat /\ Start(m + 1) = Start(m) + FrameCells BY StartNat
<1> QED BY <1>2, <1>3

-----------------------------------------------------------------------------
(* Who is in a call.                                                       *)

LEMMA Counters ==
  ASSUME Typed
  PROVE  /\ Newest \in Nat \ {0} /\ Oldest \in Nat \ {0}
         /\ Start(Newest) \in Nat /\ Start(Oldest) \in Nat
         /\ pc \in [Tasks -> {"idle", "check", "write", "load", "store"}]
         /\ cached \in [Tasks -> Locals]
<1>1. Newest \in Nat \ {0} /\ Oldest \in Nat \ {0} BY DEF Typed, Newest, Oldest
<1>2. Start(Newest) \in Nat /\ Start(Oldest) \in Nat BY <1>1, StartNat
<1> QED BY <1>1, <1>2 DEF Typed, TypeOK

(* A call begins while no other one is under way ...                       *)
LEMMA NobodyInside ==
  ASSUME RaceInv, NEW t \in Tasks, MayRun(t, "idle")
  PROVE  (\A u \in Tasks : pc[u] = "idle") /\ ~ Returning /\ ~ Uncounted /\ Begun = Len(pushed)
<1>1. \A u \in Tasks : pc[u] = "idle" BY DEF RaceInv, Alone, MayRun
<1>2. {u \in Pushers : pc[u] \in {"check", "write"}} = {} BY <1>1 DEF Tasks
<1>3. Cardinality({u \in Pushers : pc[u] \in {"check", "write"}}) = 0 BY <1>2, FS_EmptySet
<1>4. Begun = Len(pushed) BY <1>3 DEF Begun, RaceInv, Typed
<1> QED BY <1>1, <1>4 DEF Returning, Uncounted, Tasks

(* ... and goes on alone.                                                  *)
LEMMA OthersIdle ==
  ASSUME RaceInv, NEW t \in Tasks, pc[t] # "idle"
  PROVE  /\ \A u \in Tasks \ {t} : pc[u] = "idle"
         /\ t \in Poppers => ~ Uncounted /\ (Returning <=> pc[t] = "store")
         /\ t \in Pushers => ~ Returning /\ (Uncounted <=> pc[t] \in {"load", "store"})
<1>1. \A u \in Tasks \ {t} : pc[u] = "idle" BY DEF RaceInv, Alone
<1> QED BY <1>1 DEF Returning, Uncounted, Tasks

(* A call goes on to its next part, or ends.                               *)
LEMMA Continues ==
  ASSUME RaceInv, NEW t \in Tasks, NEW at \in {"check", "write", "load", "store"},
         t \in Poppers => at \in {"check", "store"},
         \A u \in Tasks \ {t} : pc[u] = "idle",
         inside' = t, pc' = [pc EXCEPT ![t] = at]
  PROVE  /\ Alone'
         /\ pc' \in [Tasks -> {"idle", "check", "write", "load", "store"}]
         /\ pc'[t] = at /\ \A u \in Tasks \ {t} : pc'[u] = "idle"
         /\ t \in Poppers => ~ Uncounted' /\ (Returning' <=> at = "store")
         /\ t \in Pushers => ~ Returning' /\ (Uncounted' <=> at \in {"load", "store"})
<1>1. pc \in [Tasks -> {"idle", "check", "write", "load", "store"}] BY Counters DEF RaceInv
<1>2. pc'[t] = at /\ (\A u \in Tasks \ {t} : pc'[u] = "idle")
      /\ pc' \in [Tasks -> {"idle", "check", "write", "load", "store"}]
  BY <1>1
<1>3. Alone' BY <1>2 DEF Alone, Tasks
<1>4. t \in Poppers => ~ Uncounted' /\ (Returning' <=> at = "store")
  BY <1>2 DEF Returning, Uncounted, Tasks
<1>5. t \in Pushers => ~ Returning' /\ (Uncounted' <=> at \in {"load", "store"})
  BY <1>2 DEF Returning, Uncounted, Tasks
<1> QED BY <1>2, <1>3, <1>4, <1>5

LEMMA Ends ==
  ASSUME RaceInv, NEW t \in Tasks, pc[t] # "idle",
         inside' = "none", pc' = [pc EXCEPT ![t] = "idle"]
  PROVE  Alone' /\ ~ Uncounted' /\ ~ Returning' /\ Local'
         /\ pc' \in [Tasks -> {"idle", "check", "write", "load", "store"}]
<1>1. pc \in [Tasks -> {"idle", "check", "write", "load", "store"}] BY Counters DEF RaceInv
<1>2. \A u \in Tasks : pc'[u] = "idle" BY <1>1, OthersIdle
<1>3. pc' \in [Tasks -> {"idle", "check", "write", "load", "store"}] BY <1>1
<1>4. Alone' BY <1>2 DEF Alone, Tasks
<1>5. Local' BY <1>2 DEF Local, Tasks
<1> QED BY <1>2, <1>3, <1>4, <1>5 DEF Uncounted, Returning, Tasks

(* Only the task in the call has local variables that count.               *)
LEMMA LocalOfPush ==
  ASSUME NEW t \in Pushers, \A u \in Tasks \ {t} : pc'[u] = "idle",
         pc'[t] = "check" => Checking(t)', pc'[t] = "write" => Writing(t)',
         pc'[t] = "store" => cached'[t].cnt = msgCnt'
  PROVE  Local'
  BY DEF Local, Tasks

LEMMA LocalOfPop ==
  ASSUME NEW t \in Poppers, \A u \in Tasks \ {t} : pc'[u] = "idle",
         pc'[t] = "check" => Popping(t)', pc'[t] = "store" => Popped(t)'
  PROVE  Local'
  BY DEF Local, Tasks

-----------------------------------------------------------------------------
(* The steps of lqueue_push.                                               *)

LEMMA PushCacheKeeps ==
  ASSUME RaceInv, Guarded = {"push", "pop"}, NEW t \in Pushers, PushCache(t)
  PROVE  RaceInv'
<1> t \in Tasks BY DEF Tasks
<1>1. /\ \A u \in Tasks : pc[u] = "idle"
      /\ ~ Returning /\ ~ Uncounted /\ Begun = Len(pushed) BY NobodyInside DEF PushCache
<1>2. inside' = t /\ pc' = [pc EXCEPT ![t] = "check"] /\ t \notin Poppers
      /\ UNCHANGED <<buffer, writeIndex, readIndex, msgCnt, pushed, popped>>
  BY DEF PushCache, Enter, Goto, block
<1>3. /\ Alone' /\ ~ Returning' /\ ~ Uncounted'
      /\ pc' \in [Tasks -> {"idle", "check", "write", "load", "store"}]
      /\ pc'[t] = "check" /\ \A u \in Tasks \ {t} : pc'[u] = "idle"
  BY <1>1, <1>2, Continues
<1>4. Newest' = Newest /\ Oldest' = Oldest BY <1>2 DEF Newest, Oldest
<1> DEFINE frame == [k \in 1 .. FrameCells |-> <<Begun + 1, k>>]
           locals == [wi |-> writeIndex, ri |-> readIndex, cnt |-> 0, done |-> 0, frame |-> frame]
<1>5. cached' = [cached EXCEPT ![t] = locals] BY DEF PushCache
<1>6. frame \in Frames /\ frame \in Seq(Bytes)
  <2>1. Begun + 1 \in 1 .. MaxMessages BY <1>1 DEF PushCache, RaceInv, Typed
  <2>2. frame \in [1 .. FrameCells -> Bytes] BY <2>1 DEF Bytes
  <2> QED BY <2>2 DEF Frames
<1>7. locals \in Locals BY <1>6 DEF Locals, RaceInv, Typed, TypeOK, Index
<1> HIDE DEF locals
<1>8. Typed' BY <1>2, <1>3, <1>5, <1>7, Counters DEF RaceInv, Typed, TypeOK, Alone
<1>9. Placed' /\ Stored' /\ Counted' /\ InOrder'
  BY <1>1, <1>2, <1>3, <1>4 DEF RaceInv, Placed, Stored, Counted, InOrder
<1>10. cached'[t] = locals BY <1>5, Counters DEF RaceInv
<1>11. Checking(t)' BY <1>2, <1>6, <1>10 DEF Checking, locals
<1>12. Local' BY <1>3, <1>11, LocalOfPush
<1> QED BY <1>3, <1>8, <1>9, <1>12 DEF RaceInv

LEMMA PushFullKeeps ==
  ASSUME RaceInv, NEW t \in Pushers, PushFull(t)
  PROVE  RaceInv'
<1> t \in Tasks BY DEF Tasks
<1>1. pc[t] = "check" /\ inside' = "none" /\ pc' = [pc EXCEPT ![t] = "idle"]
      /\ UNCHANGED <<buffer, writeIndex, readIndex, msgCnt, cached, pushed, popped>>
  BY DEF PushFull, MayRun, Leave, Goto, block
<1>2. ~ Returning /\ ~ Uncounted BY <1>1, OthersIdle
<1>3. /\ Alone' /\ ~ Uncounted' /\ ~ Returning' /\ Local'
      /\ pc' \in [Tasks -> {"idle", "check", "write", "load", "store"}]
  BY <1>1, Ends
<1>4. Newest' = Newest /\ Oldest' = Oldest BY <1>1 DEF Newest, Oldest
<1>5. Typed' BY <1>1, <1>3 DEF RaceInv, Typed, TypeOK, Alone
<1>6. Placed' /\ Stored' /\ Counted' /\ InOrder'
  BY <1>1, <1>2, <1>3, <1>4 DEF RaceInv, Placed, Stored, Counted, InOrder
<1> QED BY <1>3, <1>5, <1>6 DEF RaceInv

LEMMA PushFitsKeeps ==
  ASSUME RaceInv, NEW t \in Pushers, PushFits(t)
  PROVE  RaceInv'
<1> t \in Tasks /\ t \notin Poppers BY DEF Tasks
<1>1. pc[t] = "check" /\ inside' = inside /\ pc' = [pc EXCEPT ![t] = "write"]
      /\ UNCHANGED <<buffer, writeIndex, readIndex, msgCnt, cached, pushed, popped>>
  BY DEF PushFits, MayRun, Goto, block
<1>2. /\ \A u \in Tasks \ {t} : pc[u] = "idle"
      /\ ~ Returning /\ ~ Uncounted /\ inside = t
  BY <1>1, OthersIdle DEF RaceInv, Alone
<1>3. /\ Alone' /\ ~ Returning' /\ ~ Uncounted'
      /\ pc' \in [Tasks -> {"idle", "check", "write", "load", "store"}]
      /\ pc'[t] = "write" /\ \A u \in Tasks \ {t} : pc'[u] = "idle"
  BY <1>1, <1>2, Continues
<1>4. Newest' = Newest /\ Oldest' = Oldest BY <1>1 DEF Newest, Oldest
<1>5. Typed' BY <1>1, <1>3 DEF RaceInv, Typed, TypeOK, Alone
<1>6. Placed' /\ Stored' /\ Counted' /\ InOrder'
  BY <1>1, <1>2, <1>3, <1>4 DEF RaceInv, Placed, Stored, Counted, InOrder
<1>7. Checking(t) BY <1>1 DEF RaceInv, Local
<1>8. Start(Newest) + FrameCells - Start(Oldest) < BufferLength
  <2>1. Start(Newest) \in Nat /\ Start(Oldest) \in Nat BY Counters DEF RaceInv
  <2>2. Start(Oldest) <= Start(Newest)
    BY Counters, StartOrder, <2>1 DEF RaceInv, Placed
  <2>3. calcFreeSpace(cached[t].wi, cached[t].ri) = BufferLength - 1 - (Start(Newest) - Start(Oldest))
    BY <1>2, <1>7, <2>1, <2>2, Free DEF RaceInv, Placed, Checking
  <2>4. calcFreeSpace(cached[t].wi, cached[t].ri) >= FrameCells BY DEF PushFits
  <2> QED BY <2>1, <2>3, <2>4
<1>9. Writing(t)'
  <2>1. cached'[t] = cached[t] /\ cached[t].done = 0 /\ cached[t].frame \in Frames
        /\ cached[t].wi = At(Start(Newest))
    BY <1>1, <1>7 DEF Checking, RaceInv, Placed
  <2>2. Start(Newest) + 0 = Start(Newest) BY Counters DEF RaceInv
  <2> QED BY <1>4, <1>8, <2>1, <2>2 DEF Writing
<1>10. Local' BY <1>3, <1>9, LocalOfPush
<1> QED BY <1>3, <1>5, <1>6, <1>10 DEF RaceInv

(* A byte of the new frame goes where no stored frame has one.             *)
LEMMA NotOverwritten ==
  ASSUME RaceInv, NEW t \in Pushers, Writing(t), cached[t].done \in Nat, cached[t].done < FrameCells,
         NEW m \in Oldest .. Newest - 1, NEW k \in 1 .. FrameCells
  PROVE  At(Start(m) + k - 1) # At(Start(Newest) + cached[t].done)
<1>1. Newest \in Nat \ {0} /\ Oldest \in Nat \ {0} /\ m \in Nat \ {0}
      /\ Start(Newest) \in Nat /\ Start(Oldest) \in Nat
  BY Counters DEF RaceInv
<1>2. Start(m) \in Nat BY <1>1, StartNat
<1>3. Start(Oldest) <= Start(m) BY <1>1, <1>2, StartOrder
<1>4. Start(m) + FrameCells <= Start(Newest) BY <1>1, StartOrder
<1>5. Start(Newest) + FrameCells - Start(Oldest) < BufferLength BY DEF Writing
<1> DEFINE p == Start(m) + k - 1
           q == Start(Newest) + cached[t].done
<1>6. p \in Nat /\ q \in Nat /\ p < q /\ q - p < BufferLength
  BY <1>1, <1>2, <1>3, <1>4, <1>5
<1> HIDE DEF p, q
<1>7. At(p) # At(q) BY <1>6, AtDistinct
<1> QED BY <1>7 DEF p, q

LEMMA PushByteKeeps ==
  ASSUME RaceInv, NEW t \in Pushers, PushByte(t)
  PROVE  RaceInv'
<1> t \in Tasks /\ t \notin Poppers BY DEF Tasks
<1> DEFINE c == cached[t]
           next == [c EXCEPT !.wi = Advance(c.wi), !.done = c.done + 1]
<1>1. pc[t] = "write" /\ c.done < FrameCells
      /\ buffer' = [buffer EXCEPT ![c.wi] = c.frame[c.done + 1]]
      /\ UNCHANGED <<writeIndex, readIndex, msgCnt, inside, pc, pushed, popped>>
  BY DEF PushByte, MayRun
<1>2. /\ \A u \in Tasks \ {t} : pc[u] = "idle"
      /\ ~ Returning /\ ~ Uncounted
  BY <1>1, OthersIdle
<1>3. Alone' /\ (Returning' <=> Returning) /\ (Uncounted' <=> Uncounted)
  BY <1>1 DEF RaceInv, Alone, Returning, Uncounted
<1>4. Newest' = Newest /\ Oldest' = Oldest BY <1>1 DEF Newest, Oldest
<1>5. Writing(t) BY <1>1 DEF RaceInv, Local
<1>6. c \in Locals /\ c.done \in Nat /\ c.wi \in Nat /\ c.wi \in Index
      /\ c.frame[c.done + 1] \in Bytes
  <2>1. c \in Locals BY Counters DEF RaceInv
  <2>2. c.done \in Nat BY <2>1 DEF Locals
  <2>3. c.done + 1 \in 1 .. FrameCells BY <1>1, <2>2
  <2>4. c.frame \in [1 .. FrameCells -> Bytes] BY <1>5 DEF Writing, Frames
  <2>5. c.wi = At(Start(Newest) + c.done) /\ Start(Newest) + c.done \in Nat
    BY <1>5, <2>2, Counters DEF RaceInv, Writing
  <2>6. c.wi \in Index BY <2>5, AtInside
  <2> QED BY <2>1, <2>2, <2>3, <2>4, <2>6 DEF Index
<1>7. Advance(c.wi) \in Nat BY <1>6 DEF Advance
<1>8. /\ cached' = [cached EXCEPT ![t] = next]
      /\ next \in Locals /\ next.wi = Advance(c.wi) /\ next.done = c.done + 1
      /\ next.frame = c.frame
  <2>1. cached \in [Tasks -> Locals] BY Counters DEF RaceInv
  <2>2. cached' = [cached EXCEPT ![t] = next] BY <2>1 DEF PushByte
  <2> DEFINE i == Advance(c.wi)
             n == c.done + 1
  <2>3. c \in Locals /\ i \in Nat /\ n \in Nat BY <1>6, <1>7
  <2>4. next = [c EXCEPT !.wi = i, !.done = n] OBVIOUS
  <2> HIDE DEF c, next, i, n
  <2>5. next \in Locals /\ next.wi = i /\ next.done = n /\ next.frame = c.frame
    BY <2>3, <2>4 DEF Locals
  <2>6. /\ next \in Locals /\ next.wi = Advance(c.wi) /\ next.done = c.done + 1
        /\ next.frame = c.frame
    BY <2>5 DEF i, n
  <2> QED BY <2>2, <2>6 DEF c
<1> HIDE DEF next
<1>9. cached'[t] = next /\ cached' \in [Tasks -> Locals] BY <1>8, Counters DEF RaceInv
<1>10. buffer' \in [Index -> {NoByte} \cup Bytes] BY <1>1, <1>6 DEF RaceInv, Typed, TypeOK, Bytes
<1>11. Typed' BY <1>1, <1>9, <1>10 DEF RaceInv, Typed, TypeOK, Bytes
<1>12. c.wi = At(Start(Newest) + c.done) BY <1>5 DEF Writing
<1>13. Stored'
  <2> SUFFICES ASSUME NEW m \in Oldest .. Newest - 1, NEW k \in 1 .. FrameCells
               PROVE  buffer'[At(Start(m) + k - 1)] = pushed[m][k]
    BY <1>1, <1>4 DEF Stored
  <2>1. At(Start(m) + k - 1) # c.wi BY <1>1, <1>5, <1>6, <1>12, NotOverwritten
  <2>2. m \in Nat \ {0} BY Counters DEF RaceInv
  <2>3. Start(m) + k - 1 \in Nat BY <2>2, StartNat
  <2>4. At(Start(m) + k - 1) \in Index BY <2>3, AtInside
  <2>5. buffer'[At(Start(m) + k - 1)] = buffer[At(Start(m) + k - 1)]
    BY <1>1, <2>1, <2>4 DEF RaceInv, Typed, TypeOK
  <2> QED BY <2>5 DEF RaceInv, Stored
<1>14. Writing(t)'
  <2>1. Start(Newest) \in Nat BY Counters DEF RaceInv
  <2>2. next.wi = At(Start(Newest) + next.done)
    <3>1. Start(Newest) + c.done \in Nat /\ (Start(Newest) + c.done) + 1 = Start(Newest) + next.done
      BY <1>6, <1>8, <2>1
    <3>2. At((Start(Newest) + c.done) + 1) = Advance(At(Start(Newest) + c.done)) BY <3>1, AtNext
    <3> QED BY <1>8, <1>12, <3>1, <3>2
  <2>3. next.done <= FrameCells BY <1>1, <1>6, <1>8
  <2>4. ASSUME NEW k \in 1 .. next.done
        PROVE  buffer'[At(Start(Newest) + k - 1)] = next.frame[k]
    <3>1. CASE k = next.done
      <4>1. k = c.done + 1 /\ Start(Newest) + k - 1 = Start(Newest) + c.done BY <1>6, <1>8, <2>1, <3>1
      <4>2. At(Start(Newest) + k - 1) = c.wi BY <1>12, <4>1
      <4>3. buffer'[c.wi] = c.frame[k] BY <1>1, <1>6, <4>1 DEF RaceInv, Typed, TypeOK
      <4> QED BY <1>8, <4>2, <4>3
    <3>2. CASE k # next.done
      <4> DEFINE p == Start(Newest) + k - 1
                 q == Start(Newest) + c.done
      <4>1. k \in 1 .. c.done /\ k \in Nat /\ k >= 1 BY <1>6, <1>8, <3>2
      <4>2. p \in Nat /\ q \in Nat /\ p < q /\ q - p < BufferLength
        BY <1>1, <1>6, <2>1, <4>1
      <4> HIDE DEF p, q
      <4>3. At(p) # At(q) /\ At(p) \in Index BY <4>2, AtDistinct, AtInside
      <4>4. buffer'[At(p)] = buffer[At(p)]
        BY <1>1, <1>12, <4>3 DEF RaceInv, Typed, TypeOK, q
      <4>5. buffer[At(p)] = c.frame[k] BY <1>5, <4>1 DEF Writing, p
      <4> QED BY <1>8, <4>4, <4>5 DEF p
    <3> QED BY <3>1, <3>2
  <2>5. next.frame \in Frames BY <1>5, <1>8 DEF Writing
  <2>6. Start(Newest) + FrameCells - Start(Oldest) < BufferLength BY <1>5 DEF Writing
  <2> QED BY <1>4, <1>9, <2>2, <2>3, <2>4, <2>5, <2>6 DEF Writing
<1>15. pc'[t] = "write" /\ \A u \in Tasks \ {t} : pc'[u] = "idle" BY <1>1, <1>2
<1>16. Local' BY <1>14, <1>15, LocalOfPush
<1>17. Placed' /\ Counted' /\ InOrder'
  BY <1>1, <1>3, <1>4 DEF RaceInv, Placed, Counted, InOrder
<1> QED BY <1>3, <1>11, <1>13, <1>16, <1>17 DEF RaceInv

LEMMA PushIndexKeeps ==
  ASSUME RaceInv, NEW t \in Pushers, PushIndex(t)
  PROVE  RaceInv'
<1> t \in Tasks /\ t \notin Poppers BY DEF Tasks
<1> DEFINE frame == cached[t].frame
<1>1. /\ pc[t] = "write" /\ cached[t].done = FrameCells /\ inside' = inside
      /\ writeIndex' = cached[t].wi /\ pushed' = Append(pushed, frame)
      /\ pc' = [pc EXCEPT ![t] = "load"]
      /\ UNCHANGED <<buffer, readIndex, msgCnt, cached, popped>>
  BY DEF PushIndex, MayRun, Goto
<1>2. /\ \A u \in Tasks \ {t} : pc[u] = "idle"
      /\ ~ Returning /\ ~ Uncounted /\ inside = t
  BY <1>1, OthersIdle DEF RaceInv, Alone
<1>3. /\ Alone' /\ ~ Returning' /\ Uncounted'
      /\ pc' \in [Tasks -> {"idle", "check", "write", "load", "store"}]
      /\ pc'[t] = "load" /\ \A u \in Tasks \ {t} : pc'[u] = "idle"
  BY <1>1, <1>2, Continues
<1>4. Writing(t) BY <1>1 DEF RaceInv, Local
<1>5. pushed \in Seq(Frames) /\ frame \in Frames /\ popped \in Seq(Frames)
  BY <1>4 DEF RaceInv, Typed, Writing
<1> HIDE DEF frame
<1>6. /\ pushed' \in Seq(Frames) /\ Len(pushed') = Len(pushed) + 1
      /\ \A i \in 1 .. Len(pushed) : pushed'[i] = pushed[i]
      /\ pushed'[Len(pushed) + 1] = frame
  BY <1>1, <1>5
<1>7. Newest' = Newest + 1 /\ Oldest' = Oldest /\ Newest = Len(pushed) + 1
  BY <1>1, <1>5, <1>6 DEF Newest, Oldest
<1>8. /\ Newest \in Nat \ {0} /\ Oldest \in Nat \ {0} /\ Oldest <= Newest
      /\ Start(Newest) \in Nat /\ Start(Oldest) \in Nat
  BY Counters DEF RaceInv, Placed
<1>9. Start(Newest + 1) = Start(Newest) + FrameCells BY <1>8, StartNat
<1>10. writeIndex' = At(Start(Newest) + FrameCells) BY <1>1, <1>4 DEF Writing
<1>11. writeIndex' \in Index BY <1>8, <1>10, AtInside
<1>12. Typed' BY <1>1, <1>3, <1>6, <1>11 DEF RaceInv, Typed, TypeOK, Alone
<1>13. Placed'
  <2>1. readIndex = At(Start(Oldest)) BY <1>2 DEF RaceInv, Placed
  <2>2. Start(Newest + 1) - Start(Oldest) < BufferLength BY <1>4, <1>8, <1>9 DEF Writing
  <2>3. Oldest <= Newest + 1 BY <1>8
  <2> QED BY <1>1, <1>3, <1>7, <1>9, <1>10, <2>1, <2>2, <2>3 DEF Placed
<1>14. Stored'
  <2> SUFFICES ASSUME NEW m \in Oldest .. Newest, NEW k \in 1 .. FrameCells
               PROVE  buffer[At(Start(m) + k - 1)] = pushed'[m][k]
    BY <1>1, <1>7, <1>8 DEF Stored
  <2>1. CASE m = Newest
    <3>1. buffer[At(Start(Newest) + k - 1)] = frame[k] BY <1>1, <1>4 DEF Writing, frame
    <3> QED BY <1>6, <1>7, <2>1, <3>1
  <2>2. CASE m # Newest
    <3>1. m \in Oldest .. Newest - 1 /\ m \in 1 .. Len(pushed) BY <1>5, <1>7, <1>8, <2>2
    <3>2. buffer[At(Start(m) + k - 1)] = pushed[m][k] BY <3>1 DEF RaceInv, Stored
    <3> QED BY <1>6, <3>1, <3>2
  <2> QED BY <2>1, <2>2
<1>15. Counted' BY <1>1, <1>2, <1>3, <1>7, <1>8 DEF RaceInv, Counted
<1>16. InOrder'
  <2>1. Len(popped) <= Len(pushed) BY <1>5, <1>8 DEF Newest, Oldest
  <2> QED BY <1>1, <1>5, <1>6, <2>1 DEF RaceInv, InOrder
<1>17. Local' BY <1>3, LocalOfPush
<1> QED BY <1>3, <1>12, <1>13, <1>14, <1>15, <1>16, <1>17 DEF RaceInv

LEMMA PushLoadKeeps ==
  ASSUME RaceInv, NEW t \in Pushers, PushLoad(t)
  PROVE  RaceInv'
<1> t \in Tasks /\ t \notin Poppers BY DEF Tasks
<1> DEFINE next == [cached[t] EXCEPT !.cnt = msgCnt]
<1>1. pc[t] = "load" /\ inside' = inside /\ pc' = [pc EXCEPT ![t] = "store"]
      /\ cached' = [cached EXCEPT ![t] = next]
      /\ UNCHANGED <<buffer, writeIndex, readIndex, msgCnt, pushed, popped>>
  BY DEF PushLoad, MayRun, Goto, block
<1>2. /\ \A u \in Tasks \ {t} : pc[u] = "idle"
      /\ ~ Returning /\ Uncounted /\ inside = t
  BY <1>1, OthersIdle DEF RaceInv, Alone
<1>3. /\ Alone' /\ ~ Returning' /\ Uncounted'
      /\ pc' \in [Tasks -> {"idle", "check", "write", "load", "store"}]
      /\ pc'[t] = "store" /\ \A u \in Tasks \ {t} : pc'[u] = "idle"
  BY <1>1, <1>2, Continues
<1>4. Newest' = Newest /\ Oldest' = Oldest BY <1>1 DEF Newest, Oldest
<1>5. next \in Locals /\ next.cnt = msgCnt
  <2>1. cached[t] \in Locals /\ msgCnt \in Nat BY Counters DEF RaceInv, Typed, TypeOK
  <2> QED BY <2>1 DEF Locals
<1> HIDE DEF next
<1>6. cached'[t] = next /\ cached' \in [Tasks -> Locals] BY <1>1, <1>5, Counters DEF RaceInv
<1>7. Typed' BY <1>1, <1>3, <1>6 DEF RaceInv, Typed, TypeOK, Alone
<1>8. Placed' /\ Stored' /\ Counted' /\ InOrder'
  BY <1>1, <1>2, <1>3, <1>4 DEF RaceInv, Placed, Stored, Counted, InOrder
<1>9. Local' BY <1>1, <1>3, <1>5, <1>6, LocalOfPush
<1> QED BY <1>3, <1>7, <1>8, <1>9 DEF RaceInv

LEMMA PushStoreKeeps ==
  ASSUME RaceInv, NEW t \in Pushers, PushStore(t)
  PROVE  RaceInv'
<1> t \in Tasks BY DEF Tasks
<1>1. pc[t] = "store" /\ inside' = "none" /\ pc' = [pc EXCEPT ![t] = "idle"]
      /\ msgCnt' = cached[t].cnt + 1
      /\ UNCHANGED <<buffer, writeIndex, readIndex, cached, pushed, popped>>
  BY DEF PushStore, MayRun, Leave, Goto
<1>2. ~ Returning /\ Uncounted BY <1>1, OthersIdle
<1>3. /\ Alone' /\ ~ Uncounted' /\ ~ Returning' /\ Local'
      /\ pc' \in [Tasks -> {"idle", "check", "write", "load", "store"}]
  BY <1>1, Ends
<1>4. Newest' = Newest /\ Oldest' = Oldest BY <1>1 DEF Newest, Oldest
<1>5. cached[t].cnt = msgCnt BY <1>1 DEF RaceInv, Local
<1>6. msgCnt \in Nat /\ msgCnt' = msgCnt + 1 BY <1>1, <1>5 DEF RaceInv, Typed, TypeOK
<1>7. Typed' BY <1>1, <1>3, <1>6 DEF RaceInv, Typed, TypeOK, Alone
<1>8. Placed' /\ Stored' /\ InOrder'
  BY <1>1, <1>2, <1>3, <1>4 DEF RaceInv, Placed, Stored, InOrder
<1>9. Newest \in Nat /\ Oldest \in Nat BY Counters DEF RaceInv
<1>10. Counted' BY <1>2, <1>3, <1>4, <1>6, <1>9 DEF RaceInv, Counted
<1> QED BY <1>3, <1>7, <1>8, <1>10 DEF RaceInv

-----------------------------------------------------------------------------
(* The steps of lqueue_pop.                                                *)

LEMMA PopCacheKeeps ==
  ASSUME RaceInv, Guarded = {"push", "pop"}, NEW t \in Poppers, PopCache(t)
  PROVE  RaceInv'
<1> t \in Tasks BY DEF Tasks
<1>1. /\ \A u \in Tasks : pc[u] = "idle"
      /\ ~ Returning /\ ~ Uncounted BY NobodyInside DEF PopCache
<1>2. inside' = t /\ pc' = [pc EXCEPT ![t] = "check"]
      /\ UNCHANGED <<buffer, writeIndex, readIndex, msgCnt, pushed, popped>>
  BY DEF PopCache, Enter, Goto, block
<1>3. /\ Alone' /\ ~ Returning' /\ ~ Uncounted'
      /\ pc' \in [Tasks -> {"idle", "check", "write", "load", "store"}]
      /\ pc'[t] = "check" /\ \A u \in Tasks \ {t} : pc'[u] = "idle"
  BY <1>1, <1>2, Continues
<1>4. Newest' = Newest /\ Oldest' = Oldest BY <1>2 DEF Newest, Oldest
<1> DEFINE locals == [wi |-> 0, ri |-> readIndex, cnt |-> msgCnt, done |-> 0, frame |-> <<>>]
<1>5. cached' = [cached EXCEPT ![t] = locals] BY DEF PopCache
<1>6. locals \in Locals
  <2>1. readIndex \in Nat /\ msgCnt \in Nat BY DEF RaceInv, Typed, TypeOK, Index
  <2>2. <<>> \in Seq(Bytes) OBVIOUS
  <2> QED BY <2>1, <2>2 DEF Locals
<1>7. /\ locals.cnt = msgCnt /\ locals.done = 0 /\ locals.ri = readIndex /\ locals.frame = <<>>
  OBVIOUS
<1> HIDE DEF locals
<1>8. cached'[t] = locals /\ cached' \in [Tasks -> Locals] BY <1>5, <1>6, Counters DEF RaceInv
<1>9. Typed' BY <1>2, <1>3, <1>8 DEF RaceInv, Typed, TypeOK, Alone
<1>10. Placed' /\ Stored' /\ Counted' /\ InOrder'
  BY <1>1, <1>2, <1>3, <1>4 DEF RaceInv, Placed, Stored, Counted, InOrder
<1>11. Popping(t)'
  <2>1. readIndex = At(Start(Oldest)) /\ Start(Oldest) \in Nat
    BY <1>1, Counters DEF RaceInv, Placed
  <2>2. Start(Oldest) + 0 = Start(Oldest) BY <2>1
  <2> QED BY <1>2, <1>4, <1>7, <1>8, <2>1, <2>2 DEF Popping
<1>12. Local' BY <1>3, <1>11, LocalOfPop
<1> QED BY <1>3, <1>9, <1>10, <1>12 DEF RaceInv

LEMMA PopEmptyKeeps ==
  ASSUME RaceInv, NEW t \in Poppers, PopEmpty(t)
  PROVE  RaceInv'
<1> t \in Tasks BY DEF Tasks
<1>1. pc[t] = "check" /\ inside' = "none" /\ pc' = [pc EXCEPT ![t] = "idle"]
      /\ UNCHANGED <<buffer, writeIndex, readIndex, msgCnt, cached, pushed, popped>>
  BY DEF PopEmpty, MayRun, Leave, Goto, block
<1>2. ~ Returning /\ ~ Uncounted BY <1>1, OthersIdle
<1>3. /\ Alone' /\ ~ Uncounted' /\ ~ Returning' /\ Local'
      /\ pc' \in [Tasks -> {"idle", "check", "write", "load", "store"}]
  BY <1>1, Ends
<1>4. Newest' = Newest /\ Oldest' = Oldest BY <1>1 DEF Newest, Oldest
<1>5. Typed' BY <1>1, <1>3 DEF RaceInv, Typed, TypeOK, Alone
<1>6. Placed' /\ Stored' /\ Counted' /\ InOrder'
  BY <1>1, <1>2, <1>3, <1>4 DEF RaceInv, Placed, Stored, Counted, InOrder
<1> QED BY <1>3, <1>5, <1>6 DEF RaceInv

(* A pop under way that saw a message has a whole frame to take.           *)
LEMMA FrameToTake ==
  ASSUME RaceInv, NEW t \in Poppers, pc[t] = "check", msgCnt # 0
  PROVE  /\ Oldest < Newest /\ Oldest \in 1 .. Len(pushed) /\ pushed[Oldest] \in Frames
         /\ \A k \in 1 .. FrameCells : buffer[At(Start(Oldest) + k - 1)] = pushed[Oldest][k]
<1> t \in Tasks BY DEF Tasks
<1>1. ~ Uncounted BY OthersIdle
<1>2. Newest \in Nat \ {0} /\ Oldest \in Nat \ {0} /\ Newest = Len(pushed) + 1
      /\ pushed \in Seq(Frames)
  BY Counters DEF RaceInv, Typed, Newest
<1>3. Oldest < Newest BY <1>1, <1>2 DEF RaceInv, Counted, Placed
<1>4. Oldest \in 1 .. Len(pushed) /\ Oldest \in Oldest .. Newest - 1 BY <1>2, <1>3
<1>5. pushed[Oldest] \in Frames BY <1>2, <1>4
<1>6. \A k \in 1 .. FrameCells : buffer[At(Start(Oldest) + k - 1)] = pushed[Oldest][k]
  BY <1>4 DEF RaceInv, Stored
<1> QED BY <1>3, <1>4, <1>5, <1>6

LEMMA PopByteKeeps ==
  ASSUME RaceInv, NEW t \in Poppers, PopByte(t)
  PROVE  RaceInv'
<1> t \in Tasks /\ t \notin Pushers BY DEF Tasks
<1> DEFINE c == cached[t]
           byte == buffer[c.ri]
           next == [c EXCEPT !.frame = Append(c.frame, byte), !.ri = Advance(c.ri),
                             !.done = c.done + 1]
<1>1. pc[t] = "check" /\ c.cnt # 0 /\ c.done < FrameCells
      /\ UNCHANGED <<buffer, writeIndex, readIndex, msgCnt, inside, pc, pushed, popped>>
  BY DEF PopByte, MayRun, block
<1>2. \A u \in Tasks \ {t} : pc[u] = "idle" BY <1>1, OthersIdle
<1>3. Alone' /\ (Returning' <=> Returning) /\ (Uncounted' <=> Uncounted)
  BY <1>1 DEF RaceInv, Alone, Returning, Uncounted
<1>4. Newest' = Newest /\ Oldest' = Oldest BY <1>1 DEF Newest, Oldest
<1>5. Popping(t) BY <1>1 DEF RaceInv, Local
<1>6. c \in Locals /\ c.done \in Nat /\ c.frame \in Seq(Bytes) /\ c.ri \in Nat
      /\ cached \in [Tasks -> Locals]
  BY Counters DEF RaceInv, Locals
<1>7. /\ pushed[Oldest] \in Frames
      /\ \A k \in 1 .. FrameCells : buffer[At(Start(Oldest) + k - 1)] = pushed[Oldest][k]
  BY <1>1, <1>5, FrameToTake DEF Popping
<1>8. byte = pushed[Oldest][c.done + 1] /\ byte \in Bytes
  <2>1. c.done + 1 \in 1 .. FrameCells BY <1>1, <1>6
  <2>2. Start(Oldest) \in Nat BY Counters DEF RaceInv
  <2>3. Start(Oldest) + (c.done + 1) - 1 = Start(Oldest) + c.done BY <1>6, <2>2
  <2>4. byte = pushed[Oldest][c.done + 1] BY <1>5, <1>7, <2>1, <2>3 DEF Popping
  <2> QED BY <1>7, <2>1, <2>4 DEF Frames
<1>9. /\ next \in Locals /\ next.cnt = c.cnt /\ next.done = c.done + 1
      /\ next.ri = Advance(c.ri) /\ next.frame = Append(c.frame, byte)
      /\ cached' = [cached EXCEPT ![t] = next]
  <2>1. cached' = [cached EXCEPT ![t] = next] BY <1>6 DEF PopByte
  <2> DEFINE i == Advance(c.ri)
             n == c.done + 1
             f == Append(c.frame, byte)
  <2> HIDE DEF byte
  <2>2. i \in Nat BY <1>6 DEF Advance
  <2>3. n \in Nat BY <1>6
  <2>4. f \in Seq(Bytes) BY <1>6, <1>8
  <2>5. next = [c EXCEPT !.frame = f, !.ri = i, !.done = n] OBVIOUS
  <2> HIDE DEF c, next, i, n, f
  <2>6. next \in Locals /\ next.cnt = c.cnt /\ next.done = n /\ next.ri = i /\ next.frame = f
    BY <1>6, <2>2, <2>3, <2>4, <2>5 DEF Locals
  <2>7. next.done = c.done + 1 /\ next.ri = Advance(c.ri) /\ next.frame = Append(c.frame, byte)
    BY <2>6 DEF i, n, f
  <2> QED BY <2>1, <2>6, <2>7
<1> HIDE DEF next, byte
<1>10. cached'[t] = next /\ cached' \in [Tasks -> Locals] BY <1>6, <1>9
<1>11. Typed' BY <1>1, <1>10 DEF RaceInv, Typed, TypeOK
<1>12. Popping(t)'
  <2>1. Start(Oldest) \in Nat BY Counters DEF RaceInv
  <2>2. next.ri = At(Start(Oldest) + next.done)
    <3>1. Start(Oldest) + c.done \in Nat /\ (Start(Oldest) + c.done) + 1 = Start(Oldest) + next.done
      BY <1>6, <1>9, <2>1
    <3>2. At((Start(Oldest) + c.done) + 1) = Advance(At(Start(Oldest) + c.done)) BY <3>1, AtNext
    <3>3. c.ri = At(Start(Oldest) + c.done) BY <1>5 DEF Popping
    <3> QED BY <1>9, <3>1, <3>2, <3>3
  <2>3. next.done <= FrameCells BY <1>1, <1>6, <1>9
  <2>4. Len(next.frame) = next.done
    BY <1>5, <1>6, <1>9 DEF Popping
  <2>5. ASSUME NEW k \in 1 .. next.done
        PROVE  next.frame[k] = pushed[Oldest][k]
    <3>1. Len(c.frame) = c.done BY <1>5 DEF Popping
    <3>2. CASE k = next.done
      <4>1. k = Len(c.frame) + 1 BY <1>9, <3>1, <3>2
      <4>2. next.frame[k] = byte BY <1>6, <1>9, <4>1
      <4> QED BY <1>8, <1>9, <3>2, <4>2
    <3>3. CASE k # next.done
      <4>1. k \in 1 .. c.done BY <1>6, <1>9, <3>3
      <4>2. next.frame[k] = c.frame[k] BY <1>6, <1>9, <3>1, <4>1
      <4> QED BY <1>5, <4>1, <4>2 DEF Popping
    <3> QED BY <3>2, <3>3
  <2>6. next.cnt = msgCnt /\ msgCnt # 0 BY <1>1, <1>5, <1>9 DEF Popping
  <2> QED BY <1>1, <1>4, <1>10, <2>2, <2>3, <2>4, <2>5, <2>6 DEF Popping
<1>13. pc'[t] = "check" /\ \A u \in Tasks \ {t} : pc'[u] = "idle" BY <1>1, <1>2
<1>14. Local' BY <1>12, <1>13, LocalOfPop
<1>15. Placed' /\ Stored' /\ Counted' /\ InOrder'
  BY <1>1, <1>3, <1>4 DEF RaceInv, Placed, Stored, Counted, InOrder
<1> QED BY <1>3, <1>11, <1>14, <1>15 DEF RaceInv

LEMMA PopIndexKeeps ==
  ASSUME RaceInv, NEW t \in Poppers, PopIndex(t)
  PROVE  RaceInv'
<1> t \in Tasks /\ t \notin Pushers BY DEF Tasks
<1>1. pc[t] = "check" /\ cached[t].done = FrameCells /\ inside' = inside
      /\ readIndex' = cached[t].ri /\ pc' = [pc EXCEPT ![t] = "store"]
      /\ UNCHANGED <<buffer, writeIndex, msgCnt, cached, pushed, popped>>
  BY DEF PopIndex, MayRun, Goto
<1>2. /\ \A u \in Tasks \ {t} : pc[u] = "idle"
      /\ ~ Returning /\ ~ Uncounted /\ inside = t
  BY <1>1, OthersIdle DEF RaceInv, Alone
<1>3. /\ Alone' /\ Returning' /\ ~ Uncounted'
      /\ pc' \in [Tasks -> {"idle", "check", "write", "load", "store"}]
      /\ pc'[t] = "store" /\ \A u \in Tasks \ {t} : pc'[u] = "idle"
  BY <1>1, <1>2, Continues
<1>4. Newest' = Newest /\ Oldest' = Oldest BY <1>1 DEF Newest, Oldest
<1>5. Popping(t) BY <1>1 DEF RaceInv, Local
<1>6. msgCnt # 0 BY <1>1, <1>5 DEF Popping
<1>7. Oldest < Newest /\ pushed[Oldest] \in Frames BY <1>1, <1>6, FrameToTake
<1>8. Oldest \in Nat \ {0} /\ Start(Oldest) \in Nat /\ Start(Oldest + 1) = Start(Oldest) + FrameCells
  BY Counters, StartNat DEF RaceInv
<1>9. readIndex' = At(Start(Oldest + 1)) BY <1>1, <1>5, <1>8 DEF Popping
<1>10. readIndex' \in Index
  <2>1. Start(Oldest) + FrameCells \in Nat BY <1>8
  <2> QED BY <1>8, <1>9, <2>1, AtInside
<1>11. Typed' BY <1>1, <1>3, <1>10 DEF RaceInv, Typed, TypeOK, Alone
<1>12. Placed' /\ Stored' /\ Counted' /\ InOrder'
  BY <1>1, <1>2, <1>3, <1>4, <1>9 DEF RaceInv, Placed, Stored, Counted, InOrder
<1>13. cached[t].frame = pushed[Oldest]
  <2>1. cached[t].frame \in Seq(Bytes) BY Counters DEF RaceInv, Locals
  <2>2. Len(cached[t].frame) = FrameCells
        /\ \A k \in 1 .. FrameCells : cached[t].frame[k] = pushed[Oldest][k]
    BY <1>1, <1>5 DEF Popping
  <2> QED BY <1>7, <2>1, <2>2 DEF Frames
<1>14. Popped(t)' BY <1>1, <1>4, <1>5, <1>7, <1>13 DEF Popping, Popped
<1>15. Local' BY <1>3, <1>14, LocalOfPop
<1> QED BY <1>3, <1>11, <1>12, <1>15 DEF RaceInv

LEMMA PopStoreKeeps ==
  ASSUME RaceInv, NEW t \in Poppers, PopStore(t)
  PROVE  RaceInv'
<1> t \in Tasks BY DEF Tasks
<1> DEFINE frame == cached[t].frame
<1>1. pc[t] = "store" /\ inside' = "none" /\ pc' = [pc EXCEPT ![t] = "idle"]
      /\ msgCnt' = cached[t].cnt - 1 /\ popped' = Append(popped, frame)
      /\ UNCHANGED <<buffer, writeIndex, readIndex, cached, pushed>>
  BY DEF PopStore, MayRun, Leave, Goto
<1>2. Returning /\ ~ Uncounted BY <1>1, OthersIdle
<1>3. /\ Alone' /\ ~ Uncounted' /\ ~ Returning' /\ Local'
      /\ pc' \in [Tasks -> {"idle", "check", "write", "load", "store"}]
  BY <1>1, Ends
<1>4. cached[t].cnt = msgCnt /\ Oldest < Newest /\ frame = pushed[Oldest]
  BY <1>1 DEF RaceInv, Local, Popped
<1> HIDE DEF frame
<1>5. /\ Oldest \in Nat \ {0} /\ Newest \in Nat \ {0} /\ Start(Oldest) \in Nat
      /\ Start(Newest) \in Nat /\ msgCnt \in Nat
      /\ pushed \in Seq(Frames) /\ popped \in Seq(Frames)
      /\ Oldest = Len(popped) + 1 /\ Newest = Len(pushed) + 1
  BY Counters DEF RaceInv, Typed, TypeOK, Oldest, Newest
<1>6. frame \in Frames
  <2>1. Oldest \in 1 .. Len(pushed) BY <1>4, <1>5
  <2> QED BY <1>4, <1>5, <2>1
<1>7. /\ popped' \in Seq(Frames) /\ Len(popped') = Len(popped) + 1
      /\ \A i \in 1 .. Len(popped) : popped'[i] = popped[i]
      /\ popped'[Len(popped) + 1] = frame
  BY <1>1, <1>5, <1>6
<1>8. Newest' = Newest /\ Oldest' = Oldest + 1 BY <1>1, <1>5, <1>7 DEF Newest, Oldest
<1>9. msgCnt = Newest - Oldest /\ msgCnt' = msgCnt - 1
  BY <1>1, <1>2, <1>4, <1>5 DEF RaceInv, Counted
<1>10. msgCnt' \in Nat BY <1>4, <1>5, <1>9
<1>11. Typed' BY <1>1, <1>3, <1>7, <1>10 DEF RaceInv, Typed, TypeOK, Alone
<1>12. Start(Oldest + 1) = Start(Oldest) + FrameCells BY <1>5, StartNat
<1>13. Placed'
  <2>1. readIndex = At(Start(Oldest + 1)) /\ writeIndex = At(Start(Newest))
        /\ Start(Newest) - Start(Oldest) < BufferLength
    BY <1>2 DEF RaceInv, Placed
  <2>2. Start(Newest) - Start(Oldest + 1) < BufferLength /\ Oldest + 1 <= Newest
    BY <1>4, <1>5, <1>12, <2>1
  <2> QED BY <1>1, <1>3, <1>8, <2>1, <2>2 DEF Placed
<1>14. Stored'
  <2>1. \A m \in Oldest + 1 .. Newest - 1 : m \in Oldest .. Newest - 1 BY <1>5
  <2> QED BY <1>1, <1>8, <2>1 DEF RaceInv, Stored
<1>15. Counted' BY <1>3, <1>5, <1>8, <1>9 DEF Counted
<1>16. InOrder' BY <1>1, <1>4, <1>5, <1>7 DEF RaceInv, InOrder
<1> QED BY <1>3, <1>11, <1>13, <1>14, <1>15, <1>16 DEF RaceInv

-----------------------------------------------------------------------------
(* The invariant, and what it says of the queue.                           *)

LEMMA InitRaceInv == Init => RaceInv
<1> SUFFICES ASSUME Init PROVE RaceInv OBVIOUS
<1>1. \A t \in Tasks : pc[t] = "idle" BY DEF Init
<1>2. pushed = <<>> /\ popped = <<>> /\ Newest = 1 /\ Oldest = 1 BY DEF Init, Newest, Oldest
<1>3. ~ Returning /\ ~ Uncounted BY <1>1 DEF Returning, Uncounted, Tasks
<1>4. Typed
  <2>1. 0 \in Index /\ 0 \in Nat BY DEF Index
  <2>2. <<>> \in Seq(Bytes) /\ <<>> \in Seq(Frames) OBVIOUS
  <2>3. [wi |-> 0, ri |-> 0, cnt |-> 0, done |-> 0, frame |-> <<>>] \in Locals
    BY <2>2 DEF Locals
  <2>4. cached \in [Tasks -> Locals] BY <2>3 DEF Init
  <2>5. buffer \in [Index -> {NoByte} \cup ((1 .. MaxMessages) \X (1 .. FrameCells))] BY DEF Init
  <2> QED BY <1>2, <2>1, <2>2, <2>4, <2>5 DEF Init, Typed, TypeOK
<1>5. Alone BY <1>1 DEF Alone, Init, Tasks
<1>6. Placed
  <2>1. Start(1) = 0 BY DEF Start
  <2>2. At(0) = 0 BY AtUnique
  <2> QED BY <1>2, <1>3, <2>1, <2>2 DEF Placed, Init
<1>7. Stored /\ Counted /\ InOrder
  <2>1. Len(popped) = 0 /\ 1 .. 0 = {} BY <1>2
  <2>2. Stored BY <1>2, <2>1 DEF Stored
  <2>3. msgCnt = 0 /\ 1 - 1 - 0 = 0 BY DEF Init
  <2>4. Counted BY <1>2, <1>3, <2>3 DEF Counted
  <2> QED BY <2>1, <2>2, <2>4 DEF InOrder
<1>8. Local BY <1>1 DEF Local, Tasks
<1> QED BY <1>4, <1>5, <1>6, <1>7, <1>8 DEF RaceInv

LEMMA NextRaceInv ==
  ASSUME Guarded = {"push", "pop"}
  PROVE  RaceInv /\ [Next]_vars => RaceInv'
<1> SUFFICES ASSUME RaceInv, [Next]_vars PROVE RaceInv' OBVIOUS
<1>1. ASSUME NEW t \in Pushers, PushStep(t) PROVE RaceInv'
  BY <1>1, PushCacheKeeps, PushFullKeeps, PushFitsKeeps, PushByteKeeps, PushIndexKeeps,
     PushLoadKeeps, PushStoreKeeps DEF PushStep
<1>2. ASSUME NEW t \in Poppers, PopStep(t) PROVE RaceInv'
  BY <1>2, PopCacheKeeps, PopEmptyKeeps, PopByteKeeps, PopIndexKeeps, PopStoreKeeps DEF PopStep
<1>3. CASE UNCHANGED vars
  BY <1>3 DEF vars, block, RaceInv, Typed, TypeOK, Alone, Placed, Stored, Counted, InOrder, Local,
              Checking, Writing, Popping, Popped, Returning, Uncounted, Newest, Oldest
<1> QED BY <1>1, <1>2, <1>3 DEF Next

LEMMA InvariantHolds ==
  ASSUME Guarded = {"push", "pop"}
  PROVE  Spec => []RaceInv
<1>1. Init => RaceInv BY InitRaceInv
<1>2. RaceInv /\ [Next]_vars => RaceInv' BY NextRaceInv
<1> QED BY <1>1, <1>2, PTL DEF Spec

(* The room taken is that of the frames not yet popped.                    *)
LEMMA UsedIsFrames ==
  ASSUME RaceInv, \A t \in Tasks : pc[t] = "idle"
  PROVE  msgCnt * FrameCells = Used
<1>1. ~ Returning /\ ~ Uncounted BY DEF Returning, Uncounted, Tasks
<1>2. Newest \in Nat \ {0} /\ Oldest \in Nat \ {0} /\ Oldest <= Newest
      /\ Start(Newest) \in Nat /\ Start(Oldest) \in Nat
      /\ Start(Newest) - Start(Oldest) < BufferLength
  BY Counters DEF RaceInv, Placed
<1> DEFINE d == Newest - Oldest
<1>3. d \in Nat /\ Newest = Oldest + d BY <1>2
<1>4. msgCnt = d BY <1>1, <1>2 DEF RaceInv, Counted
<1> HIDE DEF d
<1>5. Start(Newest) = Start(Oldest) + d * FrameCells /\ d * FrameCells \in Nat
  BY <1>2, <1>3, StartSpan
<1>6. calcFreeSpace(writeIndex, readIndex) = BufferLength - 1 - (Start(Newest) - Start(Oldest))
  BY <1>1, <1>2, <1>5, Free DEF RaceInv, Placed
<1> QED BY <1>2, <1>4, <1>5, <1>6 DEF Used

LEMMA InvariantTells ==
  ASSUME RaceInv
  PROVE  TypeOK /\ FramesCounted /\ PopsInOrder
<1>1. TypeOK BY DEF RaceInv, Typed
<1>2. FramesCounted BY UsedIsFrames DEF FramesCounted
<1>3. PopsInOrder
  <2>1. /\ pushed \in Seq(Frames) /\ popped \in Seq(Frames) /\ Oldest <= Newest
        /\ \A i \in 1 .. Len(popped) : popped[i] = pushed[i]
    BY DEF RaceInv, Typed, Placed, InOrder
  <2>2. Len(popped) \in Nat /\ Len(popped) <= Len(pushed) BY <2>1 DEF Oldest, Newest
  <2>3. popped = SubSeq(pushed, 1, Len(popped)) BY <2>1, <2>2
  <2> QED BY <2>2, <2>3 DEF PopsInOrder, IsPrefix
<1> QED BY <1>1, <1>2, <1>3

(* lqueue.c:8-11: with both calls in critical sections, any number of      *)
(* tasks may push and pop, and whenever no call is under way the message   *)
(* count is the number of frames between the indices.                      *)
THEOREM GuardedCounts ==
  ASSUME Guarded = {"push", "pop"}
  PROVE  Spec => []FramesCounted
<1>1. RaceInv => FramesCounted BY InvariantTells
<1> QED BY <1>1, InvariantHolds, PTL

(* Of every byte copied while other tasks interleave, pops hand out only   *)
(* whole frames, in the order of the pushes, each once.                    *)
THEOREM GuardedPopsInOrder ==
  ASSUME Guarded = {"push", "pop"}
  PROVE  Spec => []PopsInOrder
<1>1. RaceInv => PopsInOrder BY InvariantTells
<1> QED BY <1>1, InvariantHolds, PTL

(* The indices stay in the ring and the message count does not go below    *)
(* zero: a pop decrements the count of a queue that holds a frame.         *)
THEOREM GuardedTypes ==
  ASSUME Guarded = {"push", "pop"}
  PROVE  Spec => []TypeOK
<1>1. RaceInv => TypeOK BY InvariantTells
<1> QED BY <1>1, InvariantHolds, PTL
=============================================================================
