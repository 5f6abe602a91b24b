------------------------- MODULE ReliableLinkProofs -------------------------
(* Proofs about a pair of reliable streams for every width of the sequence *)
(* numbers, every history, capacity and set of messages.                   *)
EXTENDS ReliableLink, FiniteSetTheorems, SequenceTheorems, WellFoundedInduction, TLAPS

-----------------------------------------------------------------------------
(* The laws of seq_num.c, for every width of the numbers, and where they   *)
(* end: half the range away.                                               *)

LEMMA Sizes ==
  /\ SEQ_NUM_MIDSIZE \in Nat \ {0} /\ SEQ_NUM_SIZE \in Nat \ {0}
  /\ SEQ_NUM_SIZE = 2 * SEQ_NUM_MIDSIZE /\ SEQ_NUM_MAX = SEQ_NUM_SIZE - 1
  /\ History \in Nat \ {0} /\ 2 * History <= SEQ_NUM_MIDSIZE
  BY MidsizeAssumption, HistoryAssumption DEF SEQ_NUM_SIZE, SEQ_NUM_MAX

\* uxr_seq_num_add goes round once: the modulo is a subtraction.
LEMMA AddWraps ==
  ASSUME NEW s \in SeqNums, NEW d \in SeqNums
  PROVE  seq_num_add(s, d) = IF s + d < SEQ_NUM_SIZE THEN s + d ELSE s + d - SEQ_NUM_SIZE
<1> DEFINE M == SEQ_NUM_SIZE
<1>1. M \in Nat \ {0} BY Sizes
<1>2. s \in Nat /\ d \in Nat /\ s < M /\ d < M BY <1>1 DEF SeqNums
<1> HIDE DEF M
<1>3. ASSUME NEW x \in Nat, x < M PROVE x % M = x BY <1>1, <1>3
<1>4. ASSUME NEW x \in Nat, M <= x, x < 2 * M PROVE x % M = x - M BY <1>1, <1>4
<1> QED BY <1>1, <1>2, <1>3, <1>4 DEF seq_num_add, M

\* A number stays in its sixteen bits, and uxr_seq_num_sub undoes uxr_seq_num_add, also
\* across the wrap: the numbers of a window can be walked both ways.
THEOREM SubUndoesAdd ==
  ASSUME NEW s \in SeqNums, NEW d \in SeqNums
  PROVE  /\ seq_num_add(s, d) \in SeqNums
         /\ seq_num_sub(s, d) \in SeqNums
         /\ seq_num_sub(seq_num_add(s, d), d) = s
         /\ seq_num_add(seq_num_sub(s, d), d) = s
<1>1. s \in Nat /\ d \in Nat /\ s < SEQ_NUM_SIZE /\ d < SEQ_NUM_SIZE
  BY Sizes DEF SeqNums
<1>2. seq_num_add(s, d) \in SeqNums
  BY <1>1, AddWraps, Sizes DEF SeqNums
<1>3. seq_num_sub(s, d) \in SeqNums
  BY <1>1, Sizes DEF SeqNums, seq_num_sub
<1>4. seq_num_sub(seq_num_add(s, d), d) = s
  BY <1>1, AddWraps, Sizes DEF seq_num_sub
<1>5. seq_num_add(seq_num_sub(s, d), d) = s
  <2>1. seq_num_add(seq_num_sub(s, d), d)
          = IF seq_num_sub(s, d) + d < SEQ_NUM_SIZE THEN seq_num_sub(s, d) + d
            ELSE seq_num_sub(s, d) + d - SEQ_NUM_SIZE
    BY <1>3, AddWraps
  <2> QED BY <1>1, <2>1, Sizes DEF seq_num_sub
<1> QED BY <1>2, <1>3, <1>4, <1>5

\* Inside a window of less than half the range uxr_seq_num_cmp orders the numbers as
\* they were given out, wherever the window wraps: what the heartbeat, the ACKNACK and
\* the acceptance of a message count on.
THEOREM CmpOrdersWindow ==
  ASSUME NEW base \in SeqNums, NEW d \in SeqNums, NEW e \in SeqNums,
         d < e, e - d < SEQ_NUM_MIDSIZE
  PROVE  /\ seq_num_cmp(seq_num_add(base, d), seq_num_add(base, e)) = -1
         /\ seq_num_cmp(seq_num_add(base, e), seq_num_add(base, d)) = 1
<1> DEFINE s == seq_num_add(base, d)
           t == seq_num_add(base, e)
<1>1. /\ base \in Nat /\ d \in Nat /\ e \in Nat
      /\ base < SEQ_NUM_SIZE /\ d < SEQ_NUM_SIZE /\ e < SEQ_NUM_SIZE
  BY Sizes DEF SeqNums
<1>2. s = (IF base + d < SEQ_NUM_SIZE THEN base + d ELSE base + d - SEQ_NUM_SIZE)
  BY AddWraps
<1>3. t = (IF base + e < SEQ_NUM_SIZE THEN base + e ELSE base + e - SEQ_NUM_SIZE)
  BY AddWraps
<1>4. s \in Nat /\ t \in Nat BY <1>1, <1>2, <1>3, Sizes
<1>5. \/ s < t /\ t - s = e - d
      \/ s > t /\ s - t = SEQ_NUM_SIZE - (e - d)
  BY <1>1, <1>2, <1>3, Sizes
<1> HIDE DEF s, t
<1>6. seq_num_cmp(s, t) = -1
  BY <1>1, <1>4, <1>5, Sizes DEF seq_num_cmp
<1>7. seq_num_cmp(t, s) = 1
  BY <1>1, <1>4, <1>5, Sizes DEF seq_num_cmp
<1> QED BY <1>6, <1>7 DEF s, t

\* Two numbers compare the opposite way when they are swapped, but half the range apart:
\* there each is greater than the other.
THEOREM CmpAntisymmetric ==
  ASSUME NEW s \in SeqNums, NEW t \in SeqNums, s # t
  PROVE  IF s - t = SEQ_NUM_MIDSIZE \/ t - s = SEQ_NUM_MIDSIZE
         THEN seq_num_cmp(s, t) = 1 /\ seq_num_cmp(t, s) = 1
         ELSE seq_num_cmp(s, t) = -seq_num_cmp(t, s)
<1>1. s \in Nat /\ t \in Nat BY Sizes DEF SeqNums
<1>2. s < t \/ t < s BY <1>1
<1>3. CASE s - t = SEQ_NUM_MIDSIZE \/ t - s = SEQ_NUM_MIDSIZE
  BY <1>1, <1>2, <1>3, Sizes DEF seq_num_cmp
<1>4. CASE ~(s - t = SEQ_NUM_MIDSIZE \/ t - s = SEQ_NUM_MIDSIZE)
  BY <1>1, <1>2, <1>4, Sizes DEF seq_num_cmp
<1> QED BY <1>3, <1>4

-----------------------------------------------------------------------------
(* Sequence numbers count without end; the streams keep their remainders.  *)

Num(n) == n % SEQ_NUM_SIZE
Place(n) == n % History

(* A non-empty set of numbers has a least one: what an induction needs.    *)
LEMMA Least ==
  ASSUME NEW T \in SUBSET Nat, T # {}
  PROVE  \E x \in T : \A y \in T : x <= y
<1>1. IsWellFoundedOn(OpToRel(<, Nat), Nat)
  BY NatLessThanWellFounded
<1>2. PICK x \in T : \A y \in T : <<y, x>> \notin OpToRel(<, Nat)
  BY <1>1, WFMin
<1>3. \A y \in T : ~(y < x)
  BY <1>2 DEF OpToRel
<1> QED
  BY <1>3

LEMMA DivMod ==
  ASSUME NEW a \in Nat, NEW d \in Nat \ {0}
  PROVE  a \div d \in Nat /\ a % d \in 0 .. d - 1 /\ (a \div d) * d + (a % d) = a
  OBVIOUS

LEMMA DivUnique ==
  ASSUME NEW d \in Nat \ {0}, NEW q \in Nat, NEW r \in 0 .. d - 1,
         NEW a, a = q * d + r
  PROVE  a \div d = q /\ a % d = r
  OBVIOUS

(* Less than a round further the remainder has wrapped once or not at all. *)
LEMMA ModStep ==
  ASSUME NEW d \in Nat \ {0}, NEW n \in Nat, NEW k \in Nat, k < d
  PROVE  /\ n % d \in 0 .. d - 1
         /\ (n + k) % d = IF (n % d) + k < d THEN (n % d) + k ELSE (n % d) + k - d
<1> DEFINE q == n \div d
           r == n % d
<1>1. q \in Nat /\ r \in 0 .. d - 1 /\ q * d + r = n
  BY DivMod
<1> HIDE DEF q, r
<1>2. CASE r + k < d
  <2>1. r + k \in 0 .. d - 1
    BY <1>1, <1>2
  <2>2. q * d \in Nat
    BY <1>1
  <2>3. n + k = q * d + (r + k)
    BY <1>1, <2>2
  <2>4. (n + k) % d = r + k
    <3> DEFINE t == r + k
    <3>1. q \in Nat /\ t \in 0 .. d - 1
      BY <1>1, <2>1
    <3> HIDE DEF t
    <3>2. \A a : a = q * d + t => a % d = t
      BY <3>1, DivUnique
    <3> QED
      BY <2>3, <3>2 DEF t
  <2> QED
    BY <1>1, <1>2, <2>4 DEF r
<1>3. CASE r + k >= d
  <2>1. r + k - d \in 0 .. d - 1
    BY <1>1, <1>3
  <2>2. q * d \in Nat /\ (q + 1) * d = q * d + d /\ q + 1 \in Nat
    BY <1>1
  <2>3. n + k = (q + 1) * d + (r + k - d)
    BY <1>1, <2>2
  <2>4. (n + k) % d = r + k - d
    <3>1. \A a : a = (q + 1) * d + (r + k - d) => a % d = r + k - d
      BY <2>1, <2>2, DivUnique
    <3> QED
      BY <2>3, <3>1
  <2> QED
    BY <1>1, <1>3, <2>4 DEF r
<1> QED
  BY <1>1, <1>2, <1>3

LEMMA NumType ==
  ASSUME NEW n \in Nat
  PROVE  Num(n) \in Nat /\ Num(n) < SEQ_NUM_SIZE /\ Num(n) \in SeqNums
  BY ModStep, Sizes DEF Num, SeqNums

(* The difference of two numbers, and of their remainders.                 *)
LEMMA NumStep ==
  ASSUME NEW n \in Nat, NEW k \in Nat, k < SEQ_NUM_SIZE
  PROVE  Num(n + k) = IF Num(n) + k < SEQ_NUM_SIZE THEN Num(n) + k
                      ELSE Num(n) + k - SEQ_NUM_SIZE
  BY ModStep, Sizes DEF Num

LEMMA AddNum ==
  ASSUME NEW n \in Nat, NEW k \in Nat, k < SEQ_NUM_SIZE
  PROVE  seq_num_add(Num(n), k) = Num(n + k)
<1> DEFINE r == Num(n)
<1>1. r \in Nat /\ r < SEQ_NUM_SIZE
  BY NumType
<1> HIDE DEF r
<1>2. Num(r) = r
  BY <1>1, Sizes DEF Num
<1>3. Num(r + k) = IF r + k < SEQ_NUM_SIZE THEN r + k ELSE r + k - SEQ_NUM_SIZE
  BY <1>1, <1>2, NumStep
<1>4. Num(n + k) = IF r + k < SEQ_NUM_SIZE THEN r + k ELSE r + k - SEQ_NUM_SIZE
  BY NumStep DEF r
<1> QED
  BY <1>3, <1>4 DEF seq_num_add, Num, r

LEMMA SubNum ==
  ASSUME NEW n \in Nat, NEW m \in Nat, n <= m, m - n < SEQ_NUM_SIZE
  PROVE  seq_num_sub(Num(m), Num(n)) = m - n
<1> DEFINE k == m - n
<1>1. k \in Nat /\ m = n + k /\ k < SEQ_NUM_SIZE
  OBVIOUS
<1> HIDE DEF k
<1>2. Num(m) = IF Num(n) + k < SEQ_NUM_SIZE THEN Num(n) + k ELSE Num(n) + k - SEQ_NUM_SIZE
  BY <1>1, NumStep
<1>3. Num(n) \in Nat /\ Num(n) < SEQ_NUM_SIZE
  BY NumType
<1>4. seq_num_sub(Num(m), Num(n)) = k
  BY <1>1, <1>2, <1>3, Sizes DEF seq_num_sub
<1> QED
  BY <1>4 DEF k

(* Less than a round apart two numbers have remainders of their own.       *)
LEMMA NumApart ==
  ASSUME NEW n \in Nat, NEW m \in Nat, Num(n) = Num(m),
         n - m < SEQ_NUM_SIZE, m - n < SEQ_NUM_SIZE
  PROVE  n = m
<1>1. seq_num_sub(Num(n), Num(n)) = 0
  BY NumType DEF seq_num_sub
<1>2. CASE n <= m
  <2>1. seq_num_sub(Num(m), Num(n)) = m - n
    BY <1>2, SubNum
  <2> QED
    BY <1>1, <2>1
<1>3. CASE m <= n
  <2>1. seq_num_sub(Num(n), Num(m)) = n - m
    BY <1>3, SubNum
  <2> QED
    BY <1>1, <2>1
<1> QED
  BY <1>2, <1>3

LEMMA BackNum ==
  ASSUME NEW n \in Nat, NEW k \in Nat, k < SEQ_NUM_SIZE
  PROVE  seq_num_sub(Num(n + k), k) = Num(n)
<1>1. Num(n + k) = IF Num(n) + k < SEQ_NUM_SIZE THEN Num(n) + k ELSE Num(n) + k - SEQ_NUM_SIZE
  BY NumStep
<1>2. Num(n) \in Nat /\ Num(n) < SEQ_NUM_SIZE /\ SEQ_NUM_SIZE \in Nat
  BY NumType, Sizes
<1> QED
  BY <1>1, <1>2 DEF seq_num_sub

(* Less than half the range apart they are ordered as they were given out; *)
(* half the range apart the one ahead compares as greater, too.            *)
LEMMA CmpNum ==
  ASSUME NEW x \in Nat, NEW y \in Nat,
         x - y <= SEQ_NUM_MIDSIZE, y - x < SEQ_NUM_MIDSIZE
  PROVE  /\ seq_num_cmp(Num(x), Num(y)) \in Int
         /\ seq_num_cmp(Num(x), Num(y)) < 0 <=> x < y
         /\ seq_num_cmp(Num(x), Num(y)) <= 0 <=> x <= y
         /\ seq_num_cmp(Num(x), Num(y)) >= 0 <=> x >= y
<1>1. /\ Num(x) \in Nat /\ Num(x) < SEQ_NUM_SIZE
      /\ Num(y) \in Nat /\ Num(y) < SEQ_NUM_SIZE
  BY NumType
<1>2. CASE x <= y
  <2> DEFINE k == y - x
  <2>1. k \in Nat /\ y = x + k /\ k < SEQ_NUM_MIDSIZE /\ (k = 0 <=> x = y)
    BY <1>2
  <2> HIDE DEF k
  <2>2. Num(y) = IF Num(x) + k < SEQ_NUM_SIZE THEN Num(x) + k ELSE Num(x) + k - SEQ_NUM_SIZE
    BY <2>1, NumStep, Sizes
  <2>3. seq_num_cmp(Num(x), Num(y)) = IF k = 0 THEN 0 ELSE -1
    BY <1>1, <2>1, <2>2, Sizes DEF seq_num_cmp
  <2> QED
    BY <1>2, <2>1, <2>3
<1>3. CASE y < x
  <2> DEFINE k == x - y
  <2>1. k \in Nat \ {0} /\ x = y + k /\ k <= SEQ_NUM_MIDSIZE
    BY <1>3
  <2> HIDE DEF k
  <2>2. Num(x) = IF Num(y) + k < SEQ_NUM_SIZE THEN Num(y) + k ELSE Num(y) + k - SEQ_NUM_SIZE
    BY <2>1, NumStep, Sizes
  <2>3. seq_num_cmp(Num(x), Num(y)) = 1
    BY <1>1, <2>1, <2>2, Sizes DEF seq_num_cmp
  <2> QED
    BY <1>3, <2>3
<1> QED
  BY <1>2, <1>3

LEMMA PlaceType ==
  ASSUME NEW n \in Nat
  PROVE  Place(n) \in Slots
  BY ModStep, Sizes DEF Place, Slots

(* The slots go round in the numbers, so a number and its remainder have   *)
(* the same one.                                                           *)
LEMMA SlotNum ==
  ASSUME NEW n \in Nat
  PROVE  Slot(Num(n)) = Place(n)
<1> DEFINE M == SEQ_NUM_SIZE
           q == n \div M
           r == n % M
           e == M \div History
           b == r \div History
           t == r % History
<1>1. q \in Nat /\ r \in 0 .. M - 1 /\ q * M + r = n
  BY DivMod, Sizes
<1>2. e \in Nat /\ e * History + 0 = M
  <2>1. M % History = 0
    BY HistoryAssumption
  <2> HIDE DEF M
  <2>2. M \in Nat /\ History \in Nat \ {0}
    BY Sizes DEF M
  <2> QED
    BY <2>1, <2>2, DivMod
<1> HIDE DEF q, r, e
<1>3. b \in Nat /\ t \in 0 .. History - 1 /\ b * History + t = r
  <2>1. r \in Nat /\ History \in Nat \ {0}
    BY <1>1, Sizes
  <2> QED
    BY <2>1, DivMod
<1> HIDE DEF M, b, t
<1>4. History \in Nat \ {0} /\ M \in Nat
  BY Sizes DEF M
<1>5. q * M = (q * e) * History
  BY <1>1, <1>2, <1>4
<1>6. q * e \in Nat /\ q * e + b \in Nat /\ (q * e) * History \in Nat /\ b * History \in Nat
  BY <1>1, <1>2, <1>3, <1>4
<1>7. (q * e + b) * History = (q * e) * History + b * History
  BY <1>3, <1>4, <1>6
<1>8. n = (q * e + b) * History + t
  BY <1>1, <1>3, <1>5, <1>6, <1>7
<1>9. n % History = t
  BY <1>3, <1>4, <1>6, <1>8, DivUnique
<1> QED
  BY <1>9 DEF Slot, Num, Place, t, r, M

(* A history further on is the same slot.                                  *)
LEMMA PlaceAgain ==
  ASSUME NEW n \in Nat
  PROVE  Place(n + History) = Place(n)
<1> DEFINE q == n \div History
           r == n % History
<1>1. q \in Nat /\ r \in 0 .. History - 1 /\ q * History + r = n /\ History \in Nat \ {0}
  BY DivMod, Sizes
<1> HIDE DEF q, r
<1>2. q * History \in Nat /\ (q + 1) * History = q * History + History /\ q + 1 \in Nat
  BY <1>1
<1>3. n + History = (q + 1) * History + r
  BY <1>1, <1>2
<1>4. (n + History) % History = r
  <2> DEFINE p == q + 1
  <2>1. p \in Nat /\ r \in 0 .. History - 1 /\ History \in Nat \ {0}
    BY <1>1, <1>2
  <2> HIDE DEF p
  <2>2. \A a : a = p * History + r => a % History = r
    BY <2>1, DivUnique
  <2> QED
    BY <1>3, <2>2 DEF p
<1> QED
  BY <1>4 DEF Place, r

(* Numbers less than a history apart have slots of their own, and every    *)
(* slot is the slot of one of History numbers.                             *)
LEMMA PlaceApart ==
  ASSUME NEW n \in Nat, NEW m \in Nat, n - m < History, m - n < History,
         Place(n) = Place(m)
  PROVE  n = m
<1>1. ASSUME NEW x \in Nat, NEW y \in Nat, x <= y, y - x < History, Place(x) = Place(y)
      PROVE  x = y
  <2> DEFINE k == y - x
  <2>1. k \in Nat /\ y = x + k /\ k < History
    BY <1>1
  <2> HIDE DEF k
  <2>2. /\ Place(x) \in 0 .. History - 1
        /\ Place(y) = IF Place(x) + k < History THEN Place(x) + k ELSE Place(x) + k - History
    BY <2>1, ModStep, Sizes DEF Place
  <2> QED
    BY <1>1, <2>1, <2>2, Sizes
<1>2. n <= m \/ m <= n
  OBVIOUS
<1> QED
  BY <1>1, <1>2

LEMMA PlaceHit ==
  ASSUME NEW n \in Nat, NEW i \in Slots
  PROVE  \E m \in n + 1 .. n + History : Place(m) = i
<1>1. History \in Nat \ {0} /\ Place(n) \in 0 .. History - 1 /\ i \in 0 .. History - 1
  BY PlaceType, Sizes DEF Slots
<1>2. \A k \in Nat : k < History =>
         Place(n + k) = IF Place(n) + k < History THEN Place(n) + k ELSE Place(n) + k - History
  BY <1>1, ModStep DEF Place
<1>3. CASE i > Place(n)
  <2> DEFINE k == i - Place(n)
  <2>1. k \in Nat /\ k < History /\ k > 0 /\ Place(n) + k = i
    BY <1>1, <1>3
  <2> HIDE DEF k
  <2>2. Place(n + k) = i /\ n + k \in n + 1 .. n + History
    BY <1>1, <1>2, <2>1
  <2> QED
    BY <2>2
<1>4. CASE i < Place(n)
  <2> DEFINE k == i - Place(n) + History
  <2>1. k \in Nat /\ k < History /\ k > 0 /\ Place(n) + k = i + History
    BY <1>1, <1>4
  <2> HIDE DEF k
  <2>2. Place(n + k) = i /\ n + k \in n + 1 .. n + History
    BY <1>1, <1>2, <2>1
  <2> QED
    BY <2>2
<1>5. CASE i = Place(n)
  <2>1. Place(n + History) = Place(n)
    BY PlaceAgain
  <2> QED
    BY <1>1, <1>5, <2>1
<1> QED
  BY <1>1, <1>3, <1>4, <1>5
-----------------------------------------------------------------------------
(* The inductive invariant: numbers that count without end stand behind    *)
(* the remainders, and a content behind every copy of a slot.              *)

(* What stands in uxrOutputReliableStream: acked, sent and filled count    *)
(* the slots given out since the start.                                    *)
Written(sent, filled) == IF filled = sent THEN filled + 1 ELSE filled

Counts(acked, sent, filled) ==
  /\ SEQ_NUM_MAX <= acked
  /\ acked <= sent /\ sent <= filled /\ filled <= acked + History
  /\ last_acknown = Num(acked) /\ last_sent = Num(sent)
  /\ last_written = Num(Written(sent, filled))

OutSlots == [size : 0 .. Capacity, items : Seq(Items)]

SlotsKept(acked, filled, content) ==
  /\ out \in [Slots -> OutSlots]
  /\ \A n \in acked + 1 .. acked + History :
       /\ n <= filled => /\ out[Place(n)].items = content[n]
                         /\ out[Place(n)].size > header_offset
       /\ n > filled => out[Place(n)] = EmptySlot

(* Behind a slot that begins with a part of a message lie the rest of its  *)
(* parts and the last one, within a history.                               *)
Begins(items, frag) == Head(items).frag = frag

Completed(content, filled, n) ==
  \E k \in 1 .. History - 1 :
    /\ n + k <= filled /\ Begins(content[n + k], "last")
    /\ \A j \in 1 .. k - 1 : Begins(content[n + j], "part")

Contents(content, filled) ==
  /\ content \in [Nat -> Seq(Items)]
  /\ \A n \in SEQ_NUM_SIZE .. filled :
       /\ content[n] # <<>>
       /\ Begins(content[n], "part") => Completed(content, filled, n)

(* A datagram on its way is not half the numbers old, and what it carries  *)
(* is what was sent under its number.                                      *)
Datagrams == [seq : SeqNums, items : Seq(Items)]

Carried(sent, content) ==
  \A d \in net :
    /\ d \in Datagrams
    /\ \E n \in Nat :
         /\ d.seq = Num(n) /\ n <= sent /\ sent - n < SEQ_NUM_MIDSIZE
         /\ d.items # <<>> => n >= SEQ_NUM_SIZE /\ d.items = content[n]

(* The reader's slots hold what was sent under their numbers ...           *)
Stored(slots, handled, sent, content) ==
  /\ SEQ_NUM_MAX <= handled /\ handled <= sent
  /\ slots \in [Slots -> Seq(Items)]
  /\ \A n \in handled + 1 .. handled + History :
       slots[Place(n)] # <<>> => n <= sent /\ slots[Place(n)] = content[n]

(* ... and hold back only what cannot be read yet.                         *)
Waiting(slots, handled) ==
  LET items == slots[Place(handled + 1)]
  IN items # <<>> => Looks(items) # "whole" /\ LastFragment(slots, Num(handled)) = 0

(* The reader has every number up to n.                                    *)
Has(slots, handled, n) ==
  \/ n <= handled
  \/ /\ n < handled + History
     /\ \A k \in handled + 1 .. n : slots[Place(k)] # <<>>

(* The ACKNACKs on their way confirm more and more of what the reader has. *)
Confirmed(acked, handled, acking) ==
  /\ acks \in Seq([from : SeqNums, nack : BOOLEAN])
  /\ acking \in [1 .. Len(acks) -> Nat]
  /\ Has(in, handled, acked)
  /\ \A i \in 1 .. Len(acks) :
       /\ acks[i].from = Num(acking[i] + 1)
       /\ acked <= acking[i] /\ Has(in, handled, acking[i])
  /\ \A i, j \in 1 .. Len(acks) : i <= j => acking[i] <= acking[j]

LinkInv(acked, sent, filled, handled, content, acking) ==
  /\ Counts(acked, sent, filled)
  /\ SlotsKept(acked, filled, content)
  /\ Contents(content, filled)
  /\ Carried(sent, content)
  /\ Stored(in, handled, sent, content)
  /\ last_handled = Num(handled) /\ last_announced \in SeqNums
  /\ Waiting(in, handled)
  /\ Confirmed(acked, handled, acking)

IInv ==
  \E acked, sent, filled, handled \in Nat : \E content, acking :
    LinkInv(acked, sent, filled, handled, content, acking)

-----------------------------------------------------------------------------
(* Lemmas about the writer.                                                *)

(* The slot that is written to, and whether it may be.                     *)
LEMMA CurrentSlot ==
  ASSUME NEW acked \in Nat, NEW sent \in Nat, NEW filled \in Nat,
         NEW content,
         Counts(acked, sent, filled), SlotsKept(acked, filled, content)
  PROVE  LET w == Written(sent, filled) IN
         /\ w \in Nat /\ w > sent /\ w <= acked + History + 1
         /\ Slot(last_written) = Place(w) /\ Place(w) \in Slots
         /\ Current = out[Place(w)] /\ Current \in OutSlots
         /\ Room(last_written) <=> w <= acked + History
         /\ w <= acked + History =>
              IF w <= filled THEN Current.items = content[w] /\ Current.size > 0
              ELSE Current = EmptySlot
<1> DEFINE w == Written(sent, filled)
<1>1. /\ w \in Nat /\ w > sent /\ w <= acked + History + 1 /\ acked \in Nat /\ acked < w
      /\ last_written = Num(w) /\ last_acknown = Num(acked)
  BY Sizes DEF Counts, Written
<1> HIDE DEF w
<1>2. Slot(last_written) = Place(w) /\ Place(w) \in Slots
  BY <1>1, SlotNum, PlaceType
<1>3. Current = out[Place(w)] /\ Current \in OutSlots
  BY <1>2 DEF Current, SlotsKept
<1>4. Room(last_written) <=> w <= acked + History
  <2>1. seq_num_add(last_acknown, History) = Num(acked + History)
    BY <1>1, AddNum, Sizes
  <2>2. acked + History \in Nat /\ w - (acked + History) < SEQ_NUM_MIDSIZE
        /\ (acked + History) - w < SEQ_NUM_MIDSIZE
    BY <1>1, Sizes
  <2> QED
    BY <1>1, <2>1, <2>2, CmpNum, Sizes DEF Room
<1>5. w <= acked + History =>
        IF w <= filled THEN Current.items = content[w] /\ Current.size > 0
        ELSE Current = EmptySlot
  <2> SUFFICES ASSUME w <= acked + History
               PROVE IF w <= filled THEN Current.items = content[w] /\ Current.size > 0
                     ELSE Current = EmptySlot
    OBVIOUS
  <2>1. w \in acked + 1 .. acked + History /\ (w <= filled \/ w > filled)
    BY <1>1, Sizes DEF Counts
  <2> QED
    BY <1>3, <2>1 DEF SlotsKept, header_offset
<1> QED
  BY <1>1, <1>2, <1>3, <1>4, <1>5 DEF w

(* The free slots are those of the numbers behind the last filled one.     *)
LEMMA FreeSlotsLeft ==
  ASSUME NEW acked \in Nat, NEW sent \in Nat, NEW filled \in Nat,
         NEW content,
         Counts(acked, sent, filled), SlotsKept(acked, filled, content)
  PROVE  /\ Cardinality(FreeSlots) \in Nat
         /\ Cardinality(FreeSlots) <= acked + History - filled
<1> DEFINE T == filled + 1 .. acked + History
           f == [n \in T |-> Place(n)]
<1>1. acked \in Nat /\ filled \in Nat /\ acked <= filled /\ filled <= acked + History
  BY DEF Counts
<1>2. History \in Nat \ {0}
  BY Sizes
<1>3. \A n \in T : Place(n) \in FreeSlots
  <2> SUFFICES ASSUME NEW n \in T PROVE Place(n) \in FreeSlots
    OBVIOUS
  <2>1. n \in Nat /\ n \in acked + 1 .. acked + History /\ n > filled
    BY <1>1, <1>2
  <2>2. out[Place(n)] = EmptySlot
    BY <2>1 DEF SlotsKept
  <2> QED
    BY <2>1, <2>2, PlaceType DEF FreeSlots, EmptySlot
<1>4. \A i \in FreeSlots : \E n \in T : f[n] = i
  <2> SUFFICES ASSUME NEW i \in FreeSlots PROVE \E n \in T : f[n] = i
    OBVIOUS
  <2>1. i \in Slots /\ out[i].size = header_offset
    BY DEF FreeSlots
  <2>2. PICK n \in acked + 1 .. acked + History : Place(n) = i
    BY <1>1, <2>1, PlaceHit
  <2>3. ~(n <= filled)
    BY <2>1, <2>2 DEF SlotsKept, header_offset
  <2>4. n \in T
    BY <1>1, <1>2, <2>2, <2>3
  <2> QED
    BY <2>2, <2>4
<1>5. IsFiniteSet(T) /\ Cardinality(T) = acked + History - filled
  <2> DEFINE a == filled + 1
             b == acked + History
  <2>1. a \in Int /\ b \in Int
    BY <1>1, <1>2
  <2> HIDE DEF a, b
  <2>2. IsFiniteSet(a .. b) /\ Cardinality(a .. b) = IF a > b THEN 0 ELSE b - a + 1
    BY <2>1, FS_Interval
  <2>3. T = a .. b
    BY DEF a, b
  <2> HIDE DEF T
  <2>4. (IF a > b THEN 0 ELSE b - a + 1) = acked + History - filled
    BY <1>1, <1>2 DEF a, b
  <2> QED
    BY <2>2, <2>3, <2>4
<1>6. f \in Surjection(T, FreeSlots)
  BY <1>3, <1>4 DEF Surjection
<1> HIDE DEF T, f
<1>7. IsFiniteSet(FreeSlots) /\ Cardinality(FreeSlots) <= Cardinality(T)
  BY <1>5, <1>6, FS_Surjection
<1> QED
  BY <1>5, <1>7, FS_CardinalityType

(* A quotient rounded up.                                                  *)
LEMMA RoundedUp ==
  ASSUME NEW x \in Nat \ {0}, NEW d \in Nat \ {0}
  PROVE  LET c == (x \div d) + (IF x % d = 0 THEN 0 ELSE 1) IN
         /\ c \in Nat \ {0}
         /\ \A b \in Nat : x <= d * b => c <= b
<1> DEFINE q == x \div d
           r == x % d
<1>1. q \in Nat /\ r \in 0 .. d - 1 /\ q * d + r = x
  BY DivMod
<1> HIDE DEF q, r
<1>2. \A m, n \in Nat : m <= n => m * d <= n * d
  <2> SUFFICES ASSUME NEW m \in Nat, NEW n \in Nat, m <= n PROVE m * d <= n * d
    OBVIOUS
  <2>1. n - m \in Nat /\ n = m + (n - m)
    OBVIOUS
  <2>2. (n - m) * d \in Nat /\ n * d = m * d + (n - m) * d /\ m * d \in Nat
    BY <2>1
  <2> QED
    BY <2>2
<1>3. CASE r = 0
  <2>1. q # 0
    BY <1>1, <1>3
  <2>2. ASSUME NEW b \in Nat, x <= d * b PROVE q <= b
    <3> SUFFICES ASSUME b + 1 <= q PROVE FALSE
      BY <1>1
    <3>1. (b + 1) * d <= q * d /\ (b + 1) * d = d * b + d /\ d * b \in Nat /\ q * d \in Nat
      BY <1>1, <1>2
    <3> QED
      BY <1>1, <1>3, <2>2, <3>1
  <2> QED
    BY <1>1, <1>3, <2>1, <2>2 DEF q, r
<1>4. CASE r # 0
  <2>1. ASSUME NEW b \in Nat, x <= d * b PROVE q + 1 <= b
    <3> SUFFICES ASSUME b <= q PROVE FALSE
      BY <1>1
    <3>1. b * d <= q * d /\ b * d = d * b /\ d * b \in Nat /\ q * d \in Nat
      BY <1>1, <1>2
    <3> QED
      BY <1>1, <1>4, <2>1, <3>1
  <2> QED
    BY <1>1, <1>4, <2>1 DEF q, r
<1> QED
  BY <1>3, <1>4

(* Within the filled numbers is within more of them, and nearer is too.    *)
LEMMA Further ==
  ASSUME NEW lo \in Nat, NEW hi \in Nat, NEW more \in Nat, hi <= more,
         NEW n \in lo .. hi, NEW top \in Nat, NEW k \in 1 .. top - 1, n + k <= hi
  PROVE  n + k \in lo .. hi /\ n + k <= more
  OBVIOUS

LEMMA Nearer ==
  ASSUME NEW lo \in Nat, NEW hi \in Nat, NEW n \in lo .. hi, NEW top \in Nat,
         NEW k \in 1 .. top - 1, n + k <= hi, NEW j \in 1 .. k - 1
  PROVE  n + j \in lo .. hi
  OBVIOUS

(* Writing keeps the heads of what is filled, and completes what it adds.  *)
LEMMA ContentsGrow ==
  ASSUME NEW content, NEW filled \in Nat, Contents(content, filled),
         NEW more \in Nat, filled <= more,
         NEW wider \in [Nat -> Seq(Items)],
         \A n \in SEQ_NUM_SIZE .. filled :
           wider[n] # <<>> /\ Head(wider[n]).frag = Head(content[n]).frag,
         \A n \in filled + 1 .. more :
           wider[n] # <<>> /\ (Begins(wider[n], "part") => Completed(wider, more, n))
  PROVE  Contents(wider, more)
<1> SUFFICES ASSUME NEW n \in SEQ_NUM_SIZE .. more
             PROVE  /\ wider[n] # <<>>
                    /\ Begins(wider[n], "part") => Completed(wider, more, n)
  BY DEF Contents
<1>0. SEQ_NUM_SIZE \in Nat \ {0} /\ History \in Nat \ {0}
  BY Sizes
<1>1. CASE n \in filled + 1 .. more
  BY <1>1
<1>2. CASE n <= filled
  <2>1. n \in SEQ_NUM_SIZE .. filled /\ n \in Nat
    BY <1>0, <1>2
  <2> SUFFICES ASSUME Begins(wider[n], "part")
               PROVE  Completed(wider, more, n)
    BY <2>1
  <2>2. Begins(content[n], "part")
    BY <2>1 DEF Begins
  <2>3. PICK k \in 1 .. History - 1 :
              /\ n + k <= filled /\ Begins(content[n + k], "last")
              /\ \A j \in 1 .. k - 1 : Begins(content[n + j], "part")
    BY <2>1, <2>2 DEF Contents, Completed
  <2>4. n + k \in SEQ_NUM_SIZE .. filled /\ n + k <= more
    BY <1>0, <2>1, <2>3, Further
  <2>5. Begins(wider[n + k], "last")
    BY <2>3, <2>4 DEF Begins
  <2>6. \A j \in 1 .. k - 1 : Begins(wider[n + j], "part")
    <3> SUFFICES ASSUME NEW j \in 1 .. k - 1 PROVE Begins(wider[n + j], "part")
      OBVIOUS
    <3>1. n + j \in SEQ_NUM_SIZE .. filled
      BY <1>0, <2>1, <2>3, Nearer
    <3> QED
      BY <2>3, <3>1 DEF Begins
  <2> QED
    BY <2>4, <2>5, <2>6 DEF Completed
<1> QED
  BY <1>0, <1>1, <1>2

-----------------------------------------------------------------------------
(* Writing.                                                                *)

(* A write that fills slots up to `more` with what was not yet sent leaves *)
(* the rest of the link as it is.                                          *)
LEMMA NewlyWritten ==
  ASSUME NEW acked \in Nat, NEW sent \in Nat, NEW filled \in Nat, NEW handled \in Nat,
         NEW content, NEW acking,
         LinkInv(acked, sent, filled, handled, content, acking),
         NEW more \in Nat, more > sent, more <= acked + History,
         NEW wider, Contents(wider, more),
         \A n \in Nat : n <= sent => wider[n] = content[n],
         last_written' = Num(more), SlotsKept(acked, more, wider)',
         UNCHANGED <<last_sent, last_acknown, tries, reader, net, acks>>
  PROVE  LinkInv(acked, sent, more, handled, wider, acking)'
<1>1. Counts(acked, sent, more)'
  BY DEF LinkInv, Counts, Written
<1>2. Carried(sent, wider)'
  <2> SUFFICES ASSUME NEW d \in net
               PROVE  /\ d \in Datagrams
                      /\ \E n \in Nat :
                           /\ d.seq = Num(n) /\ n <= sent /\ sent - n < SEQ_NUM_MIDSIZE
                           /\ d.items # <<>> => n >= SEQ_NUM_SIZE /\ d.items = wider[n]
    BY DEF Carried
  <2> QED
    BY DEF LinkInv, Carried
<1>3. Stored(in, handled, sent, wider)'
  <2>1. reader' = reader /\ in' = in
    BY DEF reader
  <2>2. Stored(in, handled, sent, content)
    BY DEF LinkInv
  <2>3. \A n \in handled + 1 .. handled + History :
          in[Place(n)] # <<>> => n <= sent /\ in[Place(n)] = wider[n]
    <3> SUFFICES ASSUME NEW n \in handled + 1 .. handled + History, in[Place(n)] # <<>>
                 PROVE  n <= sent /\ in[Place(n)] = wider[n]
      OBVIOUS
    <3>1. n <= sent /\ in[Place(n)] = content[n] /\ n \in Nat
      BY <2>2, Sizes DEF Stored
    <3> QED
      BY <3>1
  <2> QED
    BY <2>1, <2>2, <2>3 DEF Stored
<1> QED
  BY <1>1, <1>2, <1>3 DEF LinkInv, Waiting, Confirmed, Has, reader, Contents, Completed

(* One slot is written: the current one goes on, or the next one begins.   *)
OneSlot(filled, content, more, size, items) ==
  /\ more = filled \/ more = filled + 1
  /\ size \in 1 .. Capacity /\ items \in Seq(Items) /\ items # <<>>
  /\ IF more = filled THEN Head(items).frag = Head(content[more]).frag
                      ELSE ~ Begins(items, "part")
  /\ out' = [out EXCEPT ![Place(more)] = [size |-> size, items |-> items]]

Rewritten(content, more, items, wider) == wider = [content EXCEPT ![more] = items]

LEMMA OneSlotWritten ==
  ASSUME NEW acked \in Nat, NEW sent \in Nat, NEW filled \in Nat, NEW handled \in Nat,
         NEW content, NEW acking,
         LinkInv(acked, sent, filled, handled, content, acking),
         NEW more \in Nat, more > sent, more <= acked + History,
         NEW size, NEW items, OneSlot(filled, content, more, size, items),
         last_written' = Num(more),
         UNCHANGED <<last_sent, last_acknown, tries, reader, net, acks>>,
         NEW wider, Rewritten(content, more, items, wider)
  PROVE  LinkInv(acked, sent, more, handled, wider, acking)'
<1>0. /\ SlotsKept(acked, filled, content) /\ out \in [Slots -> OutSlots]
      /\ Contents(content, filled) /\ content \in [Nat -> Seq(Items)]
  BY DEF LinkInv, Contents, SlotsKept
<1>1. /\ acked \in Nat /\ filled \in Nat /\ sent \in Nat /\ acked <= sent
      /\ SEQ_NUM_SIZE \in Nat \ {0} /\ SEQ_NUM_MAX = SEQ_NUM_SIZE - 1 /\ SEQ_NUM_MAX <= acked
  BY Sizes DEF LinkInv, Counts
<1>2. /\ wider \in [Nat -> Seq(Items)] /\ wider[more] = items
      /\ \A n \in Nat : n # more => wider[n] = content[n]
  BY <1>0 DEF OneSlot, Rewritten
<1>6. more = filled \/ more = filled + 1
  BY DEF OneSlot
<1>7. /\ items # <<>>
      /\ more = filled => Head(items).frag = Head(content[more]).frag
      /\ more # filled => ~ Begins(items, "part")
  BY DEF OneSlot
<1>3. Contents(wider, more)
  <2>1. \A n \in SEQ_NUM_SIZE .. filled :
           wider[n] # <<>> /\ Head(wider[n]).frag = Head(content[n]).frag
    <3> SUFFICES ASSUME NEW n \in SEQ_NUM_SIZE .. filled
                 PROVE wider[n] # <<>> /\ Head(wider[n]).frag = Head(content[n]).frag
      OBVIOUS
    <3>1. CASE n = more
      <4>1. more = filled
        BY <1>1, <1>6, <3>1
      <4> QED
        BY <1>2, <1>7, <3>1, <4>1
    <3>2. CASE n # more
      <4>1. content[n] # <<>>
        BY <1>0 DEF Contents
      <4>2. wider[n] = content[n]
        <5>1. n \in Nat
          BY <1>1
        <5> QED
          BY <1>2, <3>2, <5>1
      <4> QED
        BY <4>1, <4>2
    <3> QED
      BY <3>1, <3>2
  <2>2. \A n \in filled + 1 .. more :
           wider[n] # <<>> /\ (Begins(wider[n], "part") => Completed(wider, more, n))
    <3> SUFFICES ASSUME NEW n \in filled + 1 .. more
                 PROVE wider[n] # <<>> /\ ~ Begins(wider[n], "part")
      OBVIOUS
    <3>1. n = more /\ more # filled
      BY <1>1, <1>6
    <3> QED
      BY <1>2, <1>7, <3>1
  <2>3. filled <= more
    BY <1>1, <1>6
  <2> QED
    BY <1>0, <1>2, <2>1, <2>2, <2>3, ContentsGrow
<1>4. SlotsKept(acked, more, wider)'
  <2>1. /\ [size |-> size, items |-> items] \in OutSlots /\ size > header_offset
        /\ out' = [out EXCEPT ![Place(more)] = [size |-> size, items |-> items]]
    BY SlotsAssumption DEF OutSlots, OneSlot, header_offset
  <2>2. Place(more) \in Slots
    BY PlaceType
  <2>3. out' \in [Slots -> OutSlots]
    BY <1>0, <2>1, <2>2
  <2>4. ASSUME NEW n \in acked + 1 .. acked + History
        PROVE  /\ n <= more => /\ out'[Place(n)].items = wider[n]
                               /\ out'[Place(n)].size > header_offset
               /\ n > more => out'[Place(n)] = EmptySlot
    <3>1. n \in Nat /\ History \in Nat \ {0} /\ Place(n) \in Slots
      BY <1>1, PlaceType, Sizes
    <3>2. CASE n = more
      <4>1. out'[Place(n)] = [size |-> size, items |-> items]
        BY <1>0, <2>1, <2>2, <3>2
      <4>2. out'[Place(n)].items = items /\ out'[Place(n)].size > header_offset
        BY <2>1, <4>1
      <4>3. ~(n > more)
        BY <3>2
      <4> QED
        BY <1>2, <3>2, <4>2, <4>3
    <3>3. CASE n # more
      <4>1. Place(n) # Place(more)
        <5>1. n - more < History /\ more - n < History
          BY <1>1, <3>1
        <5> QED
          BY <3>1, <3>3, <5>1, PlaceApart
      <4>2. out'[Place(n)] = out[Place(n)] /\ wider[n] = content[n]
        BY <1>0, <1>2, <2>1, <3>1, <3>3, <4>1
      <4>3. (n <= more => n <= filled) /\ (n > more => n > filled)
        BY <1>1, <1>6, <3>1, <3>3
      <4> QED
        BY <1>0, <4>2, <4>3 DEF SlotsKept
    <3> QED
      BY <3>2, <3>3
  <2> QED
    BY <2>3, <2>4 DEF SlotsKept
<1>5. \A n \in Nat : n <= sent => wider[n] = content[n]
  <2> SUFFICES ASSUME NEW n \in Nat, n <= sent PROVE wider[n] = content[n]
    OBVIOUS
  <2>1. n # more
    OBVIOUS
  <2> QED
    BY <1>2, <2>1
<1>8. UNCHANGED <<last_sent, last_acknown, tries, reader, net, acks>>
  OBVIOUS
<1> QED
  BY <1>3, <1>4, <1>5, <1>8, NewlyWritten

(* What a write adds: a whole message to one slot, or pieces to several.   *)
AddedWhole(content, filled, wider, more, m) ==
  /\ more = filled \/ more = filled + 1
  /\ wider = [content EXCEPT ![more] =
                Append(IF more = filled THEN content[more] ELSE <<>>, Item(m, "whole", TRUE))]

AddedPieces(content, filled, wider, first, more, m) ==
  /\ first = filled \/ first = filled + 1
  /\ first < more /\ more - first < History
  /\ wider \in [Nat -> Seq(Items)]
  /\ \A n \in first .. more - 1 :
       wider[n] = Append(IF n = filled THEN content[n] ELSE <<>>, Item(m, "part", n = first))
  /\ wider[more] = <<Item(m, "last", FALSE)>>
  /\ \A n \in Nat : n < first \/ n > more => wider[n] = content[n]

LEMMA AlignedUp ==
  ASSUME NEW n \in Nat
  PROVE  Aligned(n) \in Nat /\ Aligned(n) >= n /\ Aligned(0) = 0
  BY DEF Aligned

LEMMA WrittenItem ==
  ASSUME NEW m \in MessageIds, NEW frag \in {"whole", "part", "last"},
         NEW begins \in BOOLEAN
  PROVE  /\ Item(m, frag, begins) \in Items /\ Item(m, frag, begins).frag = frag
         /\ Item(m, frag, begins).msg = m /\ Item(m, frag, begins).begins = begins
  BY DEF Item, Items

LEMMA Lengths == Capacity \in Nat /\ \A m \in MessageIds : Length[m] \in Nat \ {0}
  BY SlotsAssumption

(* What is added to a slot leaves its head, if it has one.                 *)
LEMMA Appended ==
  ASSUME NEW items \in Seq(Items), NEW i \in Items
  PROVE  /\ Append(items, i) \in Seq(Items) /\ Append(items, i) # <<>>
         /\ items = <<>> => Head(Append(items, i)) = i
         /\ items # <<>> => Head(Append(items, i)) = Head(items)
<1>1. Append(items, i) \in Seq(Items) /\ Len(Append(items, i)) = Len(items) + 1 /\ Len(items) \in Nat
  OBVIOUS
<1>2. Append(items, i) # <<>>
  BY <1>1
<1>3. Head(Append(items, i)) = Append(items, i)[1]
  BY <1>1, <1>2
<1>4. CASE items = <<>>
  BY <1>2, <1>3, <1>4
<1>5. CASE items # <<>>
  <2>1. Len(items) > 0
    BY <1>1, <1>5
  <2>2. Append(items, i)[1] = items[1]
    BY <1>1, <2>1
  <2> QED
    BY <1>2, <1>3, <1>5, <2>2
<1> QED
  BY <1>1, <1>2, <1>4, <1>5

LEMMA WriteCurrentStep ==
  ASSUME NEW acked \in Nat, NEW sent \in Nat, NEW filled \in Nat, NEW handled \in Nat,
         NEW content, NEW acking,
         LinkInv(acked, sent, filled, handled, content, acking),
         NEW m \in MessageIds, WriteCurrent(m),
         UNCHANGED <<last_sent, last_acknown, tries, reader, net, acks>>
  PROVE  \E more \in Nat : \E wider :
           /\ LinkInv(acked, sent, more, handled, wider, acking)' /\ sent < more
           /\ AddedWhole(content, filled, wider, more, m)
<1> DEFINE w == Written(sent, filled)
           size == Aligned(Current.size) + Length[m]
           items == Append(Current.items, Item(m, "whole", TRUE))
<1>1. /\ Counts(acked, sent, filled) /\ SlotsKept(acked, filled, content)
      /\ Contents(content, filled)
      /\ acked \in Nat /\ sent \in Nat /\ filled \in Nat /\ acked <= sent /\ sent <= filled
      /\ last_written = Num(w)
      /\ SEQ_NUM_SIZE \in Nat \ {0} /\ SEQ_NUM_MAX = SEQ_NUM_SIZE - 1 /\ SEQ_NUM_MAX <= acked
  BY Sizes DEF LinkInv, Counts
<1>2. w = filled \/ w = filled + 1
  BY DEF Written
<1> HIDE DEF w
<1>3. /\ w \in Nat /\ w > sent /\ w <= acked + History
      /\ Slot(last_written) = Place(w) /\ Current = out[Place(w)] /\ Current \in OutSlots
      /\ IF w <= filled THEN Current.items = content[w] /\ Current.size > 0
         ELSE Current = EmptySlot
  BY <1>1, CurrentSlot DEF WriteCurrent, w
<1>4. Current.size \in Nat /\ Current.items \in Seq(Items)
  BY <1>3, Lengths DEF OutSlots
<1>9. Item(m, "whole", TRUE) \in Items /\ Item(m, "whole", TRUE).frag = "whole"
  BY WrittenItem
<1>5. size \in 1 .. Capacity
  <2>1. Aligned(Current.size) \in Nat
    BY <1>4, AlignedUp
  <2> QED
    BY <2>1, Lengths DEF WriteCurrent, FitsCurrent
<1>6. items \in Seq(Items) /\ items # <<>>
  BY <1>4, <1>9, Appended
<1>7. IF w = filled THEN Head(items).frag = Head(content[w]).frag ELSE ~ Begins(items, "part")
  <2>1. CASE w = filled
    <3>1. Current.items = content[w] /\ w \in SEQ_NUM_SIZE .. filled
      BY <1>1, <1>3, <2>1
    <3>2. content[w] # <<>>
      BY <1>1, <3>1 DEF Contents
    <3> QED
      BY <1>4, <1>9, <2>1, <3>1, <3>2, Appended
  <2>2. CASE w # filled
    <3>1. ~(w <= filled)
      BY <1>1, <1>2, <1>3, <2>2
    <3>2. Current.items = <<>>
      BY <1>3, <3>1 DEF EmptySlot
    <3>3. Head(items).frag = "whole"
      BY <1>4, <1>9, <3>2, Appended
    <3> QED
      BY <2>2, <3>3 DEF Begins
  <2> QED
    BY <2>1, <2>2
<1>8. out' = [out EXCEPT ![Place(w)] = [size |-> size, items |-> items]] /\ last_written' = Num(w)
  BY <1>1, <1>3 DEF WriteCurrent
<1> HIDE DEF size, items
<1> QED
  <2>1. OneSlot(filled, content, w, size, items)
    BY <1>2, <1>5, <1>6, <1>7, <1>8 DEF OneSlot
  <2>2. w \in Nat /\ w > sent /\ w <= acked + History /\ last_written' = Num(w)
    BY <1>3, <1>8
  <2>3. UNCHANGED <<last_sent, last_acknown, tries, reader, net, acks>>
    OBVIOUS
  <2>4. PICK wider : wider = [content EXCEPT ![w] = items]
    OBVIOUS
  <2>5. LinkInv(acked, sent, w, handled, wider, acking)'
    BY <2>1, <2>2, <2>3, <2>4, OneSlotWritten DEF Rewritten
  <2>6. items = Append(IF w = filled THEN content[w] ELSE <<>>, Item(m, "whole", TRUE))
    <3>1. w <= filled <=> w = filled
      BY <1>1, <1>2
    <3>2. CASE w = filled
      BY <1>3, <3>1, <3>2 DEF items
    <3>3. CASE w # filled
      <4>1. Current = EmptySlot
        BY <1>3, <3>1, <3>3
      <4>2. Current.items = <<>>
        BY <4>1 DEF EmptySlot
      <4> QED
        BY <3>3, <4>2 DEF items
    <3> QED
      BY <3>2, <3>3
  <2>7. AddedWhole(content, filled, wider, w, m)
    BY <1>2, <2>4, <2>6 DEF AddedWhole
  <2> QED
    BY <2>2, <2>5, <2>7

LEMMA WriteNewStep ==
  ASSUME NEW acked \in Nat, NEW sent \in Nat, NEW filled \in Nat, NEW handled \in Nat,
         NEW content, NEW acking,
         LinkInv(acked, sent, filled, handled, content, acking),
         NEW m \in MessageIds, WriteNew(m),
         UNCHANGED <<last_sent, last_acknown, tries, reader, net, acks>>
  PROVE  \E more \in Nat : \E wider :
           /\ LinkInv(acked, sent, more, handled, wider, acking)' /\ sent < more
           /\ AddedWhole(content, filled, wider, more, m)
<1> DEFINE w == Written(sent, filled)
           size == header_offset + Length[m]
           items == <<Item(m, "whole", TRUE)>>
<1>1. /\ Counts(acked, sent, filled) /\ SlotsKept(acked, filled, content)
      /\ acked \in Nat /\ sent \in Nat /\ filled \in Nat /\ acked <= sent /\ sent <= filled
      /\ last_written = Num(w) /\ last_acknown = Num(acked)
  BY DEF LinkInv, Counts
<1>2. w = filled \/ w = filled + 1
  BY DEF Written
<1> HIDE DEF w
<1>3. /\ w \in Nat /\ w > sent /\ w <= acked + History + 1
      /\ w <= acked + History =>
           IF w <= filled THEN Current.items = content[w] /\ Current.size > 0
           ELSE Current = EmptySlot
  BY <1>1, CurrentSlot DEF w
<1>4. seq_num_add(last_written, 1) = Num(w + 1) /\ Slot(Num(w + 1)) = Place(w + 1)
  BY <1>1, <1>3, AddNum, SlotNum, Sizes
<1>5. w + 1 <= acked + History
  <2>1. Room(Num(w + 1))
    BY <1>4 DEF WriteNew
  <2>2. seq_num_add(last_acknown, History) = Num(acked + History)
    BY <1>1, AddNum, Sizes
  <2>3. /\ w + 1 \in Nat /\ acked + History \in Nat
        /\ (w + 1) - (acked + History) <= SEQ_NUM_MIDSIZE
        /\ (acked + History) - (w + 1) < SEQ_NUM_MIDSIZE
    BY <1>1, <1>3, Sizes
  <2> QED
    BY <2>1, <2>2, <2>3, CmpNum DEF Room
<1>6. w = filled
  <2> SUFFICES ASSUME w = filled + 1 PROVE FALSE
    BY <1>2
  <2>1. Current = EmptySlot
    BY <1>1, <1>3, <1>5, Sizes
  <2>2. Aligned(Current.size) = 0
    BY <2>1, AlignedUp DEF EmptySlot, header_offset
  <2> QED
    BY <2>2, Lengths DEF WriteNew, FitsNew, FitsCurrent, header_offset
<1>7. size \in 1 .. Capacity /\ items \in Seq(Items) /\ items # <<>> /\ ~ Begins(items, "part")
  <2>1. PICK i : i = Item(m, "whole", TRUE)
    OBVIOUS
  <2>2. i \in Items /\ i.frag = "whole"
    BY <2>1, WrittenItem
  <2>3. <<i>> \in Seq(Items) /\ <<i>> # <<>> /\ Head(<<i>>) = i
    BY <2>2
  <2>4. size \in 1 .. Capacity
    BY Lengths DEF WriteNew, FitsNew, header_offset
  <2> QED
    BY <2>1, <2>2, <2>3, <2>4 DEF Begins
<1>8. out' = [out EXCEPT ![Place(w + 1)] = [size |-> size, items |-> items]]
      /\ last_written' = Num(w + 1)
  BY <1>4 DEF WriteNew
<1> HIDE DEF size, items
<1>9. w + 1 \in Nat /\ w + 1 > sent /\ w + 1 = filled + 1 /\ w + 1 # filled
  BY <1>1, <1>3, <1>6
<1> QED
  <2> DEFINE more == w + 1
  <2>1. OneSlot(filled, content, more, size, items)
    BY <1>7, <1>8, <1>9 DEF OneSlot
  <2>2. more \in Nat /\ more > sent /\ more <= acked + History /\ last_written' = Num(more)
    BY <1>5, <1>8, <1>9
  <2>3. UNCHANGED <<last_sent, last_acknown, tries, reader, net, acks>>
    OBVIOUS
  <2>4. items = Append(IF more = filled THEN content[more] ELSE <<>>, Item(m, "whole", TRUE))
    <3>1. more # filled
      BY <1>9
    <3>2. \A i : <<i>> = Append(<<>>, i)
      OBVIOUS
    <3> QED
      BY <3>1, <3>2 DEF items
  <2>5. more = filled + 1
    BY <1>9
  <2> HIDE DEF more
  <2>6. PICK wider : wider = [content EXCEPT ![more] = items]
    OBVIOUS
  <2>7. LinkInv(acked, sent, more, handled, wider, acking)'
    BY <2>1, <2>2, <2>3, <2>6, OneSlotWritten DEF Rewritten
  <2>8. AddedWhole(content, filled, wider, more, m)
    BY <2>4, <2>5, <2>6 DEF AddedWhole
  <2> QED
    BY <2>2, <2>7, <2>8

(* A product of what is left and the size of a block.                      *)
LEMMA Blocks ==
  ASSUME NEW b \in Int, NEW f \in Nat, NEW len \in Nat \ {0}, len <= b * f
  PROVE  /\ b \in Nat \ {0} /\ f \in Nat \ {0} /\ f - 1 \in Nat
         /\ len - b <= b * (f - 1)
<1>1. f # 0
  OBVIOUS
<1>2. ~(b <= 0)
  <2> SUFFICES ASSUME b <= 0 PROVE FALSE
    OBVIOUS
  <2> DEFINE c == 0 - b
  <2>1. c \in Nat /\ b = 0 - c
    OBVIOUS
  <2> HIDE DEF c
  <2>2. c * f \in Nat /\ b * f = 0 - c * f
    BY <2>1
  <2> QED
    BY <2>2
<1>3. b * (f - 1) = b * f - b /\ b * f \in Int
  OBVIOUS
<1> QED
  BY <1>1, <1>2, <1>3

(* The slots from first on are completed with parts of the message, and    *)
(* the last of them takes the rest.                                        *)
Fragments(m, first, count, rest) ==
  /\ out' = [i \in Slots |->
       IF \E k \in 0 .. count - 1 : i = Place(first + k)
       THEN [size |-> Capacity, items |-> Append(out[i].items, Item(m, "part", i = Place(first)))]
       ELSE IF i = Place(first + count)
       THEN [size |-> header_offset + SUBHEADER_SIZE + rest,
             items |-> Append(out[i].items, Item(m, "last", FALSE))]
       ELSE out[i]]
  /\ last_written' = Num(first + count)

(* Whatever the current slot holds, the message goes behind what is        *)
(* filled, and into free slots.                                            *)
Tight == Aligned(Current.size) + SUBHEADER_SIZE >= Capacity
Behind(items) == ~ Tight /\ Current.items = items

GoesBehind(acked, sent, filled, content, m, first, count, rest) ==
  /\ first = filled => Behind(content[filled])
  /\ first > sent /\ (first = filled \/ first = filled + 1)
  /\ count > 0 /\ first + count <= acked + History
  /\ rest > 0 /\ SUBHEADER_SIZE + rest <= Capacity
  /\ Fragments(m, first, count, rest)

LEMMA FragmentsFit ==
  ASSUME NEW acked \in Nat, NEW sent \in Nat, NEW filled \in Nat, NEW content,
         Counts(acked, sent, filled), SlotsKept(acked, filled, content),
         NEW m \in MessageIds, WriteFragments(m)
  PROVE  \E first, count, rest \in Nat :
           GoesBehind(acked, sent, filled, content, m, first, count, rest)
<1> DEFINE w == Written(sent, filled)
           free == Cardinality(FreeSlots)
           tight == Aligned(Current.size) + SUBHEADER_SIZE >= Capacity
           from == IF tight THEN seq_num_add(last_written, 1) ELSE last_written
           used == IF tight THEN out[Slot(from)].size ELSE Aligned(Current.size)
           rest == Length[m] - (Capacity - (used + SUBHEADER_SIZE))
           lastSize == IF rest % Block = 0 THEN Block ELSE rest % Block
           complete == (rest \div Block) + (IF rest % Block = 0 THEN 0 ELSE 1)
           first == IF tight THEN w + 1 ELSE w
<1>1. /\ acked <= sent /\ sent <= filled /\ filled <= acked + History
      /\ last_written = Num(w) /\ (w = filled \/ w = filled + 1) /\ w \in Nat /\ w > sent
      /\ History \in Nat \ {0} /\ History < SEQ_NUM_SIZE /\ SEQ_NUM_SIZE \in Nat
  BY Sizes DEF Counts, Written
<1>2. free \in Nat /\ free <= acked + History - filled
  BY FreeSlotsLeft
<1>3. Length[m] \in Nat \ {0} /\ Capacity \in Nat /\ Block \in Int /\ Block = Capacity - 4
      /\ SUBHEADER_SIZE = 4 /\ header_offset = 0
  BY Lengths DEF Block, header_offset, SUBHEADER_SIZE
<1>4. /\ Length[m] <= Block * free
      /\ ~(Aligned(Current.size) + Length[m] <= Capacity)
      /\ ~(Length[m] <= Capacity)
      /\ complete <= free
      /\ out' = [i \in Slots |->
             IF \E k \in 0 .. complete - 1 : i = Slot(seq_num_add(from, k))
             THEN [size |-> Capacity, items |-> Append(out[i].items, Item(m, "part", i = Slot(from)))]
             ELSE IF i = Slot(seq_num_add(from, complete))
             THEN [size |-> header_offset + SUBHEADER_SIZE + lastSize,
                   items |-> Append(out[i].items, Item(m, "last", FALSE))]
             ELSE out[i]]
      /\ last_written' = seq_num_add(from, complete)
  BY <1>3 DEF WriteFragments, FitsCurrent, FitsNew, FitsFragments
<1> HIDE DEF free
<1>5. Block \in Nat \ {0} /\ free \in Nat \ {0} /\ Length[m] - Block <= Block * (free - 1)
  BY <1>2, <1>3, <1>4, Blocks
<1>6. /\ w <= acked + History
      /\ IF w = filled THEN Current \in OutSlots /\ Current.items = content[filled]
         ELSE Current = EmptySlot
  <2>1. w <= acked + History
    BY <1>1, <1>2, <1>5
  <2>2. CASE w = filled
    BY <2>1, <2>2, CurrentSlot DEF w
  <2>3. CASE w # filled
    <3>1. ~(w <= filled)
      BY <1>1, <2>3
    <3> QED
      BY <2>1, <2>3, <3>1, CurrentSlot DEF w
  <2> QED
    BY <2>1, <2>2, <2>3
<1>7. Aligned(Current.size) \in Nat /\ (w # filled => Aligned(Current.size) = 0)
  <2>1. Current.size \in Nat
    BY <1>3, <1>6 DEF OutSlots, EmptySlot
  <2>2. Aligned(Current.size) \in Nat /\ Aligned(0) = 0
    BY <2>1, AlignedUp
  <2>3. w # filled => Current.size = 0
    BY <1>6 DEF EmptySlot, header_offset
  <2> QED
    BY <2>2, <2>3
<1> HIDE DEF w
<1>8. tight => w = filled /\ w + 1 <= acked + History
  BY <1>1, <1>2, <1>3, <1>5, <1>7
<1>9. first \in Nat /\ from = Num(first) /\ first > sent /\ first <= acked + History
      /\ (first = filled \/ first = filled + 1)
  BY <1>1, <1>6, <1>8, AddNum
<1>17. first = filled => Behind(content[filled])
  <2> SUFFICES ASSUME first = filled PROVE Behind(content[filled])
    OBVIOUS
  <2>1. ~ tight
    BY <1>1, <1>8
  <2> QED
    BY <1>6, <2>1 DEF Tight, Behind
<1>10. first # filled => used = 0
  <2> SUFFICES ASSUME first # filled PROVE used = 0
    OBVIOUS
  <2>1. CASE ~ tight
    BY <1>7, <2>1
  <2>2. CASE tight
    <3>1. first = filled + 1 /\ Slot(from) = Place(first)
      BY <1>9, SlotNum
    <3>2. first \in acked + 1 .. acked + History /\ first > filled
      BY <1>1, <1>9, <3>1
    <3>3. out[Place(first)] = EmptySlot
      BY <3>2 DEF SlotsKept
    <3> QED
      BY <2>2, <3>1, <3>3 DEF EmptySlot, header_offset
  <2> QED
    BY <2>1, <2>2
<1>11. used \in Nat /\ rest \in Nat \ {0} /\ (first # filled => rest = Length[m] - Block)
  <2>1. CASE ~ tight
    <3>1. used = Aligned(Current.size)
      BY <2>1
    <3>2. first # filled => used = 0
      BY <1>10
    <3>3. used \in Nat /\ used + Length[m] > Capacity
      BY <1>3, <1>4, <1>7, <3>1
    <3>4. rest = Length[m] - (Capacity - (used + 4))
      BY <1>3
    <3> HIDE DEF used, rest
    <3>5. rest \in Nat \ {0} /\ (used = 0 => rest = Length[m] - Block)
      BY <1>3, <3>3, <3>4
    <3> QED
      BY <3>2, <3>3, <3>5
  <2>2. CASE tight
    <3>1. first # filled
      BY <1>1, <1>8, <2>2
    <3>2. used = 0 /\ ~(Length[m] <= Capacity)
      BY <1>4, <1>10, <3>1
    <3>3. rest = Length[m] - (Capacity - 4)
      BY <1>3, <3>2
    <3> HIDE DEF used, rest
    <3>4. rest \in Nat \ {0}
      BY <1>3, <3>2, <3>3
    <3> QED
      BY <1>3, <3>2, <3>3, <3>4
  <2> QED
    BY <2>1, <2>2
<1> HIDE DEF used, tight, first, from
<1>12. /\ complete \in Nat \ {0}
       /\ first # filled => complete <= free - 1
       /\ lastSize \in Nat \ {0} /\ lastSize <= Block
  <2> HIDE DEF rest
  <2>1. complete \in Nat \ {0} /\ \A b \in Nat : rest <= Block * b => complete <= b
    BY <1>5, <1>11, RoundedUp
  <2>2. first # filled => complete <= free - 1
    <3>1. free - 1 \in Nat
      BY <1>5
    <3> HIDE DEF complete
    <3> QED
      BY <1>5, <1>11, <2>1, <3>1
  <2>3. rest % Block \in 0 .. Block - 1
    BY <1>5, <1>11, DivMod
  <2>4. lastSize \in Nat \ {0} /\ lastSize <= Block
    BY <1>5, <2>3
  <2> QED
    BY <2>1, <2>2, <2>4
<1> HIDE DEF complete, lastSize, rest
<1>13. first + complete <= acked + History
  BY <1>1, <1>2, <1>4, <1>9, <1>12
<1>14. \A k \in 0 .. complete : Slot(seq_num_add(from, k)) = Place(first + k)
                                /\ seq_num_add(from, k) = Num(first + k)
  <2> SUFFICES ASSUME NEW k \in 0 .. complete
               PROVE  Slot(seq_num_add(from, k)) = Place(first + k)
                      /\ seq_num_add(from, k) = Num(first + k)
    OBVIOUS
  <2>1. k \in Nat /\ k < SEQ_NUM_SIZE /\ first + k \in Nat
    BY <1>1, <1>9, <1>12, <1>13
  <2>2. seq_num_add(from, k) = Num(first + k)
    BY <1>9, <2>1, AddNum
  <2> QED
    BY <2>1, <2>2, SlotNum
<1>15. Fragments(m, first, complete, lastSize)
  <2>3. Slot(from) = Place(first)
    BY <1>9, SlotNum
  <2>1. complete \in 0 .. complete /\ \A k \in 0 .. complete - 1 : k \in 0 .. complete
    BY <1>12
  <2>2. \A i : (\E k \in 0 .. complete - 1 : i = Slot(seq_num_add(from, k)))
               <=> (\E k \in 0 .. complete - 1 : i = Place(first + k))
    BY <1>14, <2>1
  <2> QED
    BY <1>4, <1>14, <2>1, <2>2, <2>3 DEF Fragments
<1>16. first \in Nat /\ complete \in Nat /\ lastSize \in Nat /\ complete > 0 /\ lastSize > 0
       /\ SUBHEADER_SIZE + lastSize <= Capacity
  BY <1>3, <1>9, <1>12
<1> QED
  BY <1>9, <1>13, <1>15, <1>16, <1>17 DEF GoesBehind

LEMMA WriteFragmentsStep ==
  ASSUME NEW acked \in Nat, NEW sent \in Nat, NEW filled \in Nat, NEW handled \in Nat,
         NEW content, NEW acking,
         LinkInv(acked, sent, filled, handled, content, acking),
         NEW m \in MessageIds, WriteFragments(m),
         UNCHANGED <<last_sent, last_acknown, tries, reader, net, acks>>
  PROVE  \E more, first \in Nat : \E wider :
           /\ LinkInv(acked, sent, more, handled, wider, acking)' /\ sent < more
           /\ AddedPieces(content, filled, wider, first, more, m)
           /\ sent < first /\ (first = filled => Behind(content[filled]))
<1>1. /\ Counts(acked, sent, filled) /\ SlotsKept(acked, filled, content)
      /\ Contents(content, filled) /\ content \in [Nat -> Seq(Items)]
      /\ out \in [Slots -> OutSlots]
  BY DEF LinkInv, Contents, SlotsKept
<1>22. PICK first \in Nat, count \in Nat, rest \in Nat :
         GoesBehind(acked, sent, filled, content, m, first, count, rest)
  BY <1>1, FragmentsFit
<1>2. /\ first = filled => Behind(content[filled])
      /\ first > sent /\ (first = filled \/ first = filled + 1)
      /\ count > 0 /\ first + count <= acked + History
      /\ rest > 0 /\ SUBHEADER_SIZE + rest <= Capacity
      /\ Fragments(m, first, count, rest)
  BY <1>22 DEF GoesBehind
<1> DEFINE more == first + count
           part(n) == Item(m, "part", n = first)
           last == Item(m, "last", FALSE)
           grown == [n \in Nat |->
                       IF n \in first .. more - 1 THEN Append(out[Place(n)].items, part(n))
                       ELSE IF n = more THEN Append(out[Place(n)].items, last)
                       ELSE content[n]]
<1>3. /\ acked <= sent /\ sent <= filled /\ filled <= acked + History
      /\ SEQ_NUM_MAX = SEQ_NUM_SIZE - 1 /\ SEQ_NUM_MAX <= acked /\ SEQ_NUM_SIZE \in Nat \ {0}
      /\ History \in Nat \ {0}
  BY <1>1, Sizes DEF Counts
<1>4. /\ more \in Nat /\ more > sent /\ more <= acked + History /\ more > filled
      /\ last_written' = Num(more)
  BY <1>2, <1>3 DEF Fragments
<1>5. \A n \in Nat : Place(n) \in Slots /\ out[Place(n)].items \in Seq(Items)
                     /\ out[Place(n)].size \in 0 .. Capacity
  BY <1>1, PlaceType DEF OutSlots
<1>6. /\ last \in Items /\ last.frag = "last" /\ last.msg = m
      /\ \A n : part(n) \in Items /\ part(n).frag = "part" /\ part(n).msg = m
                /\ part(n).begins = (n = first)
  BY WrittenItem
<1> HIDE DEF part, last
<1>18. grown \in [Nat -> Seq(Items)]
  <2> SUFFICES ASSUME NEW n \in Nat
               PROVE  /\ Append(out[Place(n)].items, part(n)) \in Seq(Items)
                      /\ Append(out[Place(n)].items, last) \in Seq(Items)
                      /\ content[n] \in Seq(Items)
    OBVIOUS
  <2> QED
    BY <1>1, <1>5, <1>6, Appended
<1>19. /\ \A n \in first .. more - 1 : grown[n] = Append(out[Place(n)].items, part(n))
      /\ grown[more] = Append(out[Place(more)].items, last)
      /\ \A n \in Nat : n < first \/ n > more => grown[n] = content[n]
  <2>1. \A n \in first .. more - 1 : n \in Nat
    BY <1>2, <1>4
  <2>2. more \notin first .. more - 1
    BY <1>2, <1>4
  <2>3. \A n \in Nat : n < first \/ n > more => n \notin first .. more - 1 /\ n # more
    BY <1>2, <1>4
  <2> HIDE DEF more
  <2> QED
    BY <1>4, <2>1, <2>2, <2>3
<1> HIDE DEF grown
<1>7. PICK wider : wider = grown
  OBVIOUS
<1>8. /\ wider \in [Nat -> Seq(Items)]
      /\ \A n \in first .. more - 1 : wider[n] = Append(out[Place(n)].items, part(n))
      /\ wider[more] = Append(out[Place(more)].items, last)
      /\ \A n \in Nat : n < first \/ n > more => wider[n] = content[n]
  BY <1>7, <1>18, <1>19
\* The slots behind what is filled are empty.
<1>9. \A n \in filled + 1 .. more : out[Place(n)] = EmptySlot /\ out[Place(n)].items = <<>>
  <2> SUFFICES ASSUME NEW n \in filled + 1 .. more PROVE out[Place(n)] = EmptySlot
    BY DEF EmptySlot
  <2>1. n \in acked + 1 .. acked + History /\ n > filled
    BY <1>3, <1>4
  <2> QED
    BY <1>1, <2>1 DEF SlotsKept
<1>10. \A n \in SEQ_NUM_SIZE .. filled :
         wider[n] # <<>> /\ Head(wider[n]).frag = Head(content[n]).frag
  <2> SUFFICES ASSUME NEW n \in SEQ_NUM_SIZE .. filled
               PROVE wider[n] # <<>> /\ Head(wider[n]).frag = Head(content[n]).frag
    OBVIOUS
  <2>1. content[n] # <<>>
    BY <1>1 DEF Contents
  <2>2. CASE n < first
    <3>1. n \in Nat
      BY <1>3
    <3> QED
      BY <1>8, <2>1, <2>2, <3>1
  <2>3. CASE ~(n < first)
    <3>1. n = first /\ first = filled /\ n \in first .. more - 1
          /\ n \in acked + 1 .. acked + History /\ n <= filled /\ n \in Nat
      BY <1>2, <1>3, <1>4, <2>3
    <3>2. out[Place(n)].items = content[n]
      BY <1>1, <3>1 DEF SlotsKept
    <3>3. wider[n] = Append(out[Place(n)].items, part(n))
      BY <1>8, <3>1
    <3> QED
      <4> DEFINE items == content[n]
                 i == part(n)
      <4>1. items \in Seq(Items) /\ items # <<>> /\ i \in Items /\ wider[n] = Append(items, i)
        BY <1>1, <1>6, <2>1, <3>1, <3>2, <3>3
      <4> HIDE DEF items, i
      <4>2. wider[n] # <<>> /\ Head(wider[n]) = Head(items)
        BY <4>1, Appended
      <4> QED
        BY <4>2 DEF items
  <2> QED
    BY <2>2, <2>3
<1>11. /\ \A n \in filled + 1 .. more - 1 : wider[n] # <<>> /\ Begins(wider[n], "part")
       /\ wider[more] # <<>> /\ Begins(wider[more], "last")
  <2>1. ASSUME NEW n \in filled + 1 .. more - 1
        PROVE  wider[n] # <<>> /\ Begins(wider[n], "part")
    <3>1. n \in first .. more - 1 /\ n \in filled + 1 .. more /\ n \in Nat
      BY <1>2, <1>3, <1>4
    <3>2. wider[n] = Append(out[Place(n)].items, part(n)) /\ out[Place(n)].items = <<>>
      BY <1>8, <1>9, <3>1
    <3> QED
      BY <1>5, <1>6, <3>1, <3>2, Appended DEF Begins
  <2>2. wider[more] # <<>> /\ Begins(wider[more], "last")
    <3>1. more \in filled + 1 .. more
      BY <1>3, <1>4
    <3>2. wider[more] = Append(out[Place(more)].items, last) /\ out[Place(more)].items = <<>>
      BY <1>8, <1>9, <3>1
    <3> QED
      BY <1>4, <1>5, <1>6, <3>2, Appended DEF Begins
  <2> QED
    BY <2>1, <2>2
<1>12. \A n \in filled + 1 .. more :
         wider[n] # <<>> /\ (Begins(wider[n], "part") => Completed(wider, more, n))
  <2> SUFFICES ASSUME NEW n \in filled + 1 .. more
               PROVE wider[n] # <<>> /\ (Begins(wider[n], "part") => Completed(wider, more, n))
    OBVIOUS
  <2>1. CASE n = more
    <3>1. ~ Begins(wider[n], "part")
      BY <1>11, <2>1 DEF Begins
    <3> QED
      BY <1>11, <2>1, <3>1
  <2>2. CASE n # more
    <3> DEFINE k == more - n
    <3>1. k \in 1 .. History - 1 /\ n + k = more /\ n \in filled + 1 .. more - 1
      BY <1>3, <1>4, <2>2
    <3>2. \A j \in 1 .. k - 1 : n + j \in filled + 1 .. more - 1
      BY <1>3, <1>4, <3>1
    <3> HIDE DEF k
    <3>3. Completed(wider, more, n)
      <4>1. /\ n + k <= more /\ Begins(wider[n + k], "last")
            /\ \A j \in 1 .. k - 1 : Begins(wider[n + j], "part")
        <5>1. n + k <= more
          BY <1>4, <3>1
        <5>2. Begins(wider[n + k], "last")
          BY <1>11, <3>1
        <5>3. \A j \in 1 .. k - 1 : Begins(wider[n + j], "part")
          BY <1>11, <3>2
        <5> QED
          BY <5>1, <5>2, <5>3
      <4> QED
        BY <3>1, <4>1 DEF Completed
    <3> QED
      BY <1>11, <3>1, <3>3
  <2> QED
    BY <2>1, <2>2
<1>13. Contents(wider, more)
  <2>1. filled <= more
    BY <1>3, <1>4
  <2> QED
    BY <1>1, <1>4, <1>8, <1>10, <1>12, <2>1, ContentsGrow
\* The slots are those of the numbers from first to more.
<1>14. ASSUME NEW n \in acked + 1 .. acked + History
       PROVE  out'[Place(n)] =
                IF n \in first .. more - 1
                THEN [size |-> Capacity, items |-> Append(out[Place(n)].items, part(n))]
                ELSE IF n = more
                THEN [size |-> header_offset + SUBHEADER_SIZE + rest,
                      items |-> Append(out[Place(n)].items, last)]
                ELSE out[Place(n)]
  <2>1. n \in Nat /\ Place(n) \in Slots
    BY <1>3, PlaceType
  <2>2. \A k \in 0 .. count : Place(n) = Place(first + k) => n = first + k
    <3> SUFFICES ASSUME NEW k \in 0 .. count, Place(n) = Place(first + k)
                 PROVE  n = first + k
      OBVIOUS
    <3> DEFINE x == first + k
    <3>1. x \in Nat /\ n - x < History /\ x - n < History
      BY <1>2, <1>3, <2>1
    <3> HIDE DEF x
    <3>2. Place(n) = Place(x)
      BY DEF x
    <3>3. n = x
      BY <2>1, <3>1, <3>2, PlaceApart
    <3> QED
      BY <3>3 DEF x
  <2>3. (\E k \in 0 .. count - 1 : Place(n) = Place(first + k)) <=> n \in first .. more - 1
    <3>1. ASSUME n \in first .. more - 1 PROVE \E k \in 0 .. count - 1 : n = first + k
      <4>1. n - first \in 0 .. count - 1 /\ n = first + (n - first)
        BY <1>2, <2>1, <3>1
      <4> QED
        BY <4>1
    <3>2. \A k \in 0 .. count - 1 : k \in 0 .. count /\ first + k \in first .. more - 1
      BY <1>2
    <3> HIDE DEF more
    <3> QED
      BY <2>2, <3>1, <3>2
  <2>4. Place(n) = Place(first + count) <=> n = more
    <3>1. count \in 0 .. count
      BY <1>2
    <3> QED
      BY <2>2, <3>1
  <2>5. Place(n) = Place(first) <=> n = first
    <3>1. 0 \in 0 .. count /\ first + 0 = first
      BY <1>2
    <3> QED
      BY <2>2, <3>1
  <2> HIDE DEF more
  <2> QED
    BY <1>2, <2>1, <2>3, <2>4, <2>5 DEF Fragments, part, last
<1>15. SlotsKept(acked, more, wider)'
  <2>1. out' \in [Slots -> OutSlots]
    <3>1. /\ Capacity \in 0 .. Capacity
          /\ header_offset + SUBHEADER_SIZE + rest \in 0 .. Capacity
      BY <1>2, SlotsAssumption DEF header_offset, SUBHEADER_SIZE
    <3>2. \A i \in Slots : out[i] \in OutSlots /\ out[i].items \in Seq(Items)
      BY <1>1 DEF OutSlots
    <3> DEFINE placed(i) == Item(m, "part", i = Place(first))
    <3>5. \A i : placed(i) \in Items
      BY WrittenItem
    <3> HIDE DEF placed
    <3>3. \A i \in Slots : /\ Append(out[i].items, placed(i)) \in Seq(Items)
                           /\ Append(out[i].items, last) \in Seq(Items)
      BY <1>6, <3>2, <3>5, Appended
    <3>4. \A i \in Slots :
            /\ [size |-> Capacity, items |-> Append(out[i].items, placed(i))] \in OutSlots
            /\ [size |-> header_offset + SUBHEADER_SIZE + rest,
                items |-> Append(out[i].items, last)] \in OutSlots
      BY <3>1, <3>3 DEF OutSlots
    <3> QED
      BY <1>2, <3>2, <3>4 DEF Fragments, placed, last
  <2>2. ASSUME NEW n \in acked + 1 .. acked + History
        PROVE  /\ n <= more => /\ out'[Place(n)].items = wider[n]
                               /\ out'[Place(n)].size > header_offset
               /\ n > more => out'[Place(n)] = EmptySlot
    <3>0. n \in Nat
      BY <1>3
    <3>1. CASE n \in first .. more - 1
      <4>1. ~(n > more) /\ Capacity > header_offset
        BY <1>2, <1>4, <3>0, <3>1, SlotsAssumption DEF header_offset, SUBHEADER_SIZE
      <4>2. out'[Place(n)] = [size |-> Capacity, items |-> Append(out[Place(n)].items, part(n))]
        BY <1>14, <3>1
      <4>3. /\ out'[Place(n)].items = Append(out[Place(n)].items, part(n))
            /\ out'[Place(n)].size > header_offset
        BY <4>1, <4>2
      <4>4. wider[n] = Append(out[Place(n)].items, part(n))
        <5> HIDE DEF more
        <5> QED
          BY <1>8, <3>1
      <4> QED
        BY <4>1, <4>3, <4>4
    <3>2. CASE n = more
      <4>1. ~(n > more) /\ n \notin first .. more - 1
        BY <1>2, <1>4, <3>2
      <4>2. header_offset + SUBHEADER_SIZE + rest > header_offset
        BY <1>2 DEF header_offset, SUBHEADER_SIZE
      <4>3. out'[Place(n)] = [size |-> header_offset + SUBHEADER_SIZE + rest,
                              items |-> Append(out[Place(n)].items, last)]
        <5> HIDE DEF more
        <5> QED
          BY <1>14, <3>2, <4>1
      <4>4. out'[Place(n)].items = Append(out[Place(n)].items, last)
            /\ out'[Place(n)].size > header_offset
        BY <4>2, <4>3
      <4>5. wider[n] = Append(out[Place(n)].items, last)
        <5> HIDE DEF more
        <5> QED
          BY <1>8, <3>2
      <4> QED
        BY <4>1, <4>4, <4>5
    <3>3. CASE n < first \/ n > more
      <4>1. n \notin first .. more - 1 /\ n # more /\ (n <= more => n <= filled)
            /\ (n > more => n > filled)
        BY <1>2, <1>4, <3>0, <3>3
      <4>2. out'[Place(n)] = out[Place(n)]
        BY <1>14, <4>1
      <4>3. wider[n] = content[n]
        BY <1>8, <3>0, <3>3
      <4> QED
        BY <1>1, <4>1, <4>2, <4>3 DEF SlotsKept
    <3> QED
      BY <1>2, <1>4, <3>0, <3>1, <3>2, <3>3
  <2> HIDE DEF more
  <2> QED
    BY <2>1, <2>2 DEF SlotsKept
<1>16. \A n \in Nat : n <= sent => wider[n] = content[n]
  <2> SUFFICES ASSUME NEW n \in Nat, n <= sent PROVE wider[n] = content[n]
    OBVIOUS
  <2>1. n < first
    BY <1>2
  <2> QED
    BY <1>8, <2>1
<1>17. UNCHANGED <<last_sent, last_acknown, tries, reader, net, acks>>
  OBVIOUS
<1>20. AddedPieces(content, filled, wider, first, more, m)
  <2>1. first < more /\ more - first < History
    BY <1>2, <1>3, <1>4
  <2>2. ASSUME NEW n \in first .. more - 1
        PROVE  wider[n] = Append(IF n = filled THEN content[n] ELSE <<>>, Item(m, "part", n = first))
    <3>1. wider[n] = Append(out[Place(n)].items, part(n))
      BY <1>8
    <3>2. CASE n = filled
      <4>1. n \in acked + 1 .. acked + History /\ n <= filled
        BY <1>2, <1>3, <3>2
      <4>2. out[Place(n)].items = content[n]
        BY <1>1, <4>1 DEF SlotsKept
      <4> QED
        BY <3>1, <3>2, <4>2 DEF part
    <3>3. CASE n # filled
      <4>1. n \in filled + 1 .. more
        BY <1>2, <1>3, <3>3
      <4>2. out[Place(n)].items = <<>>
        BY <1>9, <4>1
      <4> QED
        BY <3>1, <3>3, <4>2 DEF part
    <3> QED
      BY <3>2, <3>3
  <2>3. wider[more] = <<Item(m, "last", FALSE)>>
    <3>1. more \in filled + 1 .. more
      BY <1>3, <1>4
    <3>2. out[Place(more)].items = <<>>
      BY <1>9, <3>1
    <3>3. \A i : Append(<<>>, i) = <<i>>
      OBVIOUS
    <3> HIDE DEF more
    <3> QED
      BY <1>8, <3>2, <3>3 DEF last
  <2> HIDE DEF more
  <2> QED
    BY <1>2, <1>8, <2>1, <2>2, <2>3 DEF AddedPieces
<1> HIDE DEF more
<1>21. LinkInv(acked, sent, more, handled, wider, acking)'
  BY <1>4, <1>13, <1>15, <1>16, <1>17, NewlyWritten
<1> QED
  BY <1>2, <1>4, <1>20, <1>21

LEMMA WriteStep ==
  ASSUME NEW acked \in Nat, NEW sent \in Nat, NEW filled \in Nat, NEW handled \in Nat,
         NEW content, NEW acking,
         LinkInv(acked, sent, filled, handled, content, acking),
         NEW m \in MessageIds, Write(m)
  PROVE  \E more \in Nat : \E wider :
           /\ LinkInv(acked, sent, more, handled, wider, acking)' /\ sent < more
           /\ \/ AddedWhole(content, filled, wider, more, m)
              \/ /\ WriteFragments(m)
                 /\ \E first \in Nat :
                      /\ AddedPieces(content, filled, wider, first, more, m)
                      /\ sent < first /\ (first = filled => Behind(content[filled]))
<1>1. /\ WriteCurrent(m) \/ WriteNew(m) \/ WriteFragments(m)
      /\ UNCHANGED <<last_sent, last_acknown, tries, reader, net, acks>>
  BY DEF Write
<1>2. CASE WriteCurrent(m)
  BY <1>1, <1>2, WriteCurrentStep
<1>4. CASE WriteNew(m)
  BY <1>1, <1>4, WriteNewStep
<1>3. CASE WriteFragments(m)
  <2>1. PICK more \in Nat, first \in Nat : \E wider :
           /\ LinkInv(acked, sent, more, handled, wider, acking)' /\ sent < more
           /\ AddedPieces(content, filled, wider, first, more, m)
           /\ sent < first /\ (first = filled => Behind(content[filled]))
    BY <1>1, <1>3, WriteFragmentsStep
  <2> QED
    BY <1>3, <2>1
<1> QED
  BY <1>1, <1>2, <1>3, <1>4

-----------------------------------------------------------------------------
(* Sending.                                                                *)

(* What is put on the network is as old as the writer's bound allows.      *)
Fresh(d, sent, content) ==
  /\ d \in Datagrams
  /\ \E n \in Nat :
       /\ d.seq = Num(n) /\ n <= sent /\ sent - n < SEQ_NUM_MIDSIZE
       /\ d.items # <<>> => n >= SEQ_NUM_SIZE /\ d.items = content[n]

LEMMA Transmitted ==
  ASSUME NEW sent \in Nat, NEW next \in Nat, sent <= next, next - sent <= History,
         NEW content, Carried(sent, content),
         NEW batch, NEW late, Transmit(batch, net, Num(next), late),
         \A d \in batch : Fresh(d, next, content)
  PROVE  Carried(next, content)'
<1> SUFFICES ASSUME NEW d \in net' PROVE Fresh(d, next, content)
  BY DEF Carried, Fresh
<1>1. d \in net \/ d \in batch
  BY DEF Transmit
<1>2. CASE d \in batch
  BY <1>2
<1>3. CASE d \in net
  <2>1. d \in Datagrams
    BY <1>3 DEF Carried
  <2>2. PICK n \in Nat :
          /\ d.seq = Num(n) /\ n <= sent /\ sent - n < SEQ_NUM_MIDSIZE
          /\ d.items # <<>> => n >= SEQ_NUM_SIZE /\ d.items = content[n]
    BY <1>3 DEF Carried
  <2>3. seq_num_sub(Num(next), d.seq) < SEQ_NUM_MIDSIZE
    BY <1>3 DEF Transmit
  <2>4. n <= next /\ next - n < SEQ_NUM_SIZE
    BY <2>2, Sizes
  <2>5. next - n < SEQ_NUM_MIDSIZE
    BY <2>2, <2>3, <2>4, SubNum
  <2> QED
    BY <2>1, <2>2, <2>4, <2>5 DEF Fresh
<1> QED
  BY <1>1, <1>2, <1>3

(* The burst is all that is written and not sent.                          *)
LEMMA BurstIsAll ==
  ASSUME NEW acked \in Nat, NEW sent \in Nat, NEW filled \in Nat, NEW content,
         Counts(acked, sent, filled), SlotsKept(acked, filled, content)
  PROVE  Burst = filled - sent
<1> DEFINE N == filled - sent
           w == Written(sent, filled)
<1>1. /\ acked <= sent /\ sent <= filled /\ filled <= acked + History
      /\ last_sent = Num(sent) /\ last_acknown = Num(acked) /\ last_written = Num(w)
      /\ w \in Nat /\ (N = 0 => w = filled + 1) /\ (N # 0 => w = filled) /\ N \in 0 .. History
      /\ History \in Nat \ {0} /\ SEQ_NUM_SIZE \in Nat /\ SEQ_NUM_MIDSIZE \in Nat
      /\ 2 * History <= SEQ_NUM_MIDSIZE /\ SEQ_NUM_SIZE = 2 * SEQ_NUM_MIDSIZE
  BY Sizes DEF Counts, Written
<1> HIDE DEF w
<1>2. ASSUME NEW k \in 1 .. N + 1
      PROVE  /\ seq_num_add(last_sent, k) = Num(sent + k)
             /\ Slot(Num(sent + k)) = Place(sent + k)
             /\ seq_num_sub(seq_num_add(last_sent, k - 1), last_acknown) = (sent + k) - 1 - acked
  <2> DEFINE p == k - 1
             s == sent + p
  <2>1. k \in Nat /\ k < SEQ_NUM_SIZE /\ p \in Nat /\ p < SEQ_NUM_SIZE /\ sent + k \in Nat
        /\ s \in Nat /\ acked <= s /\ s - acked < SEQ_NUM_SIZE
    BY <1>1
  <2>2. seq_num_add(last_sent, k) = Num(sent + k) /\ Slot(Num(sent + k)) = Place(sent + k)
    BY <1>1, <2>1, AddNum, SlotNum
  <2>3. seq_num_add(last_sent, p) = Num(s)
    <3> HIDE DEF p
    <3> QED
      BY <1>1, <2>1, AddNum
  <2>4. seq_num_sub(Num(s), last_acknown) = s - acked
    <3> HIDE DEF s
    <3> QED
      BY <1>1, <2>1, SubNum
  <2> QED
    BY <1>1, <2>2, <2>3, <2>4
<1>3. ASSUME NEW k \in 1 .. N PROVE Sendable(k)
  <2> DEFINE x == sent + k
  <2>1. k \in 1 .. N + 1 /\ x \in acked + 1 .. acked + History /\ x <= filled /\ x \in Nat
        /\ x <= w /\ w - x < SEQ_NUM_MIDSIZE /\ x - w <= SEQ_NUM_MIDSIZE
        /\ x - 1 - acked # History
    BY <1>1
  <2>2. seq_num_add(last_sent, k) = Num(x) /\ Slot(Num(x)) = Place(x)
        /\ seq_num_sub(seq_num_add(last_sent, k - 1), last_acknown) = x - 1 - acked
    BY <1>2, <2>1
  <2> HIDE DEF x
  <2>3. out[Place(x)].size > header_offset
    BY <2>1 DEF SlotsKept
  <2>4. seq_num_cmp(Num(x), last_written) <= 0
    BY <1>1, <2>1, CmpNum
  <2> QED
    BY <2>1, <2>2, <2>3, <2>4 DEF Sendable
<1>4. ~ Sendable(N + 1)
  <2> DEFINE x == sent + (N + 1)
  <2>1. x = filled + 1 /\ x \in Nat
    BY <1>1
  <2>2. /\ seq_num_add(last_sent, N + 1) = Num(x) /\ Slot(Num(x)) = Place(x)
        /\ seq_num_sub(seq_num_add(last_sent, (N + 1) - 1), last_acknown) = x - 1 - acked
    <3>1. N + 1 \in 1 .. N + 1
      BY <1>1
    <3> QED
      BY <1>2, <3>1
  <2> HIDE DEF x
  <2>3. CASE N # 0
    <3>1. x - w <= SEQ_NUM_MIDSIZE /\ w - x < SEQ_NUM_MIDSIZE /\ ~(x <= w)
      BY <1>1, <2>1, <2>3
    <3>2. ~(seq_num_cmp(Num(x), last_written) <= 0)
      BY <1>1, <2>1, <3>1, CmpNum
    <3> QED
      BY <2>2, <3>2 DEF Sendable
  <2>4. CASE filled = acked + History
    <3>1. x - 1 - acked = History
      BY <1>1, <2>1, <2>4
    <3> HIDE DEF N
    <3> QED
      BY <2>2, <3>1 DEF Sendable
  <2>5. CASE filled # acked + History
    <3>1. x \in acked + 1 .. acked + History /\ x > filled
      BY <1>1, <2>1, <2>5
    <3>2. ~(out[Place(x)].size > header_offset)
      BY <3>1 DEF SlotsKept, EmptySlot, header_offset
    <3> QED
      BY <2>2, <3>2 DEF Sendable
  <2> QED
    BY <2>4, <2>5
<1>5. ASSUME NEW n \in 0 .. History,
             (\A k \in 1 .. n : Sendable(k)) /\ ~ Sendable(n + 1)
      PROVE  n = N
  <2>1. ~(n < N)
    <3> SUFFICES ASSUME n < N PROVE FALSE
      OBVIOUS
    <3>1. n + 1 \in 1 .. N
      BY <1>1
    <3> HIDE DEF N
    <3> QED
      BY <1>3, <1>5, <3>1
  <2>2. ~(n > N)
    <3> SUFFICES ASSUME n > N PROVE FALSE
      OBVIOUS
    <3>1. N + 1 \in 1 .. n
      BY <1>1
    <3> HIDE DEF N
    <3> QED
      BY <1>4, <1>5, <3>1
  <2> QED
    BY <1>1, <2>1, <2>2
<1> HIDE DEF N
<1>6. Burst = N
  BY <1>1, <1>3, <1>4, <1>5 DEF Burst
<1> QED
  BY <1>6 DEF N

LEMMA FlushStep ==
  ASSUME NEW acked \in Nat, NEW sent \in Nat, NEW filled \in Nat, NEW handled \in Nat,
         NEW content, NEW acking,
         LinkInv(acked, sent, filled, handled, content, acking), Flush
  PROVE  LinkInv(acked, filled, filled, handled, content, acking)'
<1>1. /\ Counts(acked, sent, filled) /\ SlotsKept(acked, filled, content)
      /\ Contents(content, filled) /\ content \in [Nat -> Seq(Items)]
      /\ Carried(sent, content)
  BY DEF LinkInv, Contents
<1>2. /\ SEQ_NUM_MAX <= acked /\ acked <= sent /\ sent <= filled /\ filled <= acked + History
      /\ last_sent = Num(sent) /\ last_acknown = Num(acked)
      /\ last_written = Num(Written(sent, filled))
      /\ SEQ_NUM_MAX = SEQ_NUM_SIZE - 1 /\ SEQ_NUM_SIZE \in Nat /\ SEQ_NUM_MIDSIZE \in Nat
      /\ 2 * History <= SEQ_NUM_MIDSIZE /\ SEQ_NUM_SIZE = 2 * SEQ_NUM_MIDSIZE
      /\ History \in Nat \ {0}
  BY <1>1, Sizes DEF Counts
<1>3. Burst = filled - sent /\ filled > sent
  <2>1. Burst = filled - sent
    BY <1>1, BurstIsAll
  <2> QED
    BY <2>1 DEF Flush
<1>4. \A k \in 1 .. Burst : seq_num_add(last_sent, k) = Num(sent + k)
  <2> SUFFICES ASSUME NEW k \in 1 .. Burst PROVE seq_num_add(last_sent, k) = Num(sent + k)
    OBVIOUS
  <2>1. k \in Nat /\ k < SEQ_NUM_SIZE
    BY <1>2, <1>3
  <2> QED
    BY <1>2, <2>1, AddNum
<1>5. last_sent' = Num(filled)
  <2>1. Burst \in 1 .. Burst /\ sent + Burst = filled
    BY <1>2, <1>3
  <2> QED
    BY <1>4, <2>1 DEF Flush
<1>6. last_written' = Num(filled + 1)
  <2>1. last_written = Num(filled)
    BY <1>2, <1>3 DEF Written
  <2>2. seq_num_add(last_written, 1) = Num(filled + 1)
    BY <1>2, <2>1, AddNum
  <2> QED
    BY <1>5, <2>1, <2>2 DEF Flush
<1>7. Carried(filled, content)'
  <2> DEFINE batch == {Datagram(seq_num_add(last_sent, k)) : k \in 1 .. Burst}
  <2>1. Transmit(batch, net, Num(filled), 0)
    BY <1>5 DEF Flush
  <2>2. ASSUME NEW d \in batch PROVE Fresh(d, filled, content)
    <3>1. PICK k \in 1 .. Burst : d = Datagram(seq_num_add(last_sent, k))
      OBVIOUS
    <3> DEFINE n == sent + k
    <3>2. n \in Nat /\ n <= filled /\ filled - n < SEQ_NUM_MIDSIZE /\ n >= SEQ_NUM_SIZE
          /\ n \in acked + 1 .. acked + History
      BY <1>2, <1>3
    <3>3. d = Datagram(Num(n))
      BY <1>4, <3>1
    <3> HIDE DEF n
    <3>4. d.seq = Num(n) /\ d.items = out[Place(n)].items
      BY <3>2, <3>3, SlotNum DEF Datagram
    <3>5. d.items = content[n]
      BY <1>1, <3>2, <3>4 DEF SlotsKept
    <3>6. d \in Datagrams
      BY <1>1, <3>2, <3>3, <3>4, <3>5, NumType DEF Datagram, Datagrams
    <3> QED
      BY <3>2, <3>4, <3>5, <3>6 DEF Fresh
  <2>3. sent <= filled /\ filled - sent <= History
    BY <1>2
  <2> HIDE DEF batch
  <2> QED
    BY <1>1, <2>1, <2>2, <2>3, Transmitted
<1>8. Counts(acked, filled, filled)'
  BY <1>2, <1>5, <1>6 DEF Counts, Written, Flush
<1>9. Stored(in, handled, filled, content)'
  <2>1. in' = in
    BY DEF Flush, reader
  <2>2. Stored(in, handled, sent, content)
    BY DEF LinkInv
  <2>3. \A n \in handled + 1 .. handled + History :
          in[Place(n)] # <<>> => n <= filled /\ in[Place(n)] = content[n]
    <3> SUFFICES ASSUME NEW n \in handled + 1 .. handled + History, in[Place(n)] # <<>>
                 PROVE  n <= filled /\ in[Place(n)] = content[n]
      OBVIOUS
    <3>1. n <= sent /\ in[Place(n)] = content[n] /\ n \in Nat
      BY <1>2, <2>2 DEF Stored
    <3> QED
      BY <1>2, <3>1
  <2>4. handled <= filled
    BY <1>2, <2>2 DEF Stored
  <2> QED
    BY <2>1, <2>2, <2>3, <2>4 DEF Stored
<1> QED
  BY <1>7, <1>8, <1>9 DEF LinkInv, SlotsKept, Waiting, Confirmed, Has, Flush, reader

LEMMA HeartbeatStep ==
  ASSUME NEW acked \in Nat, NEW sent \in Nat, NEW filled \in Nat, NEW handled \in Nat,
         NEW content, NEW acking,
         LinkInv(acked, sent, filled, handled, content, acking), SendHeartbeat
  PROVE  LinkInv(acked, sent, filled, handled, content, acking)'
<1>1. Carried(sent, content) /\ last_sent = Num(sent)
  BY DEF LinkInv, Counts
<1>2. Carried(sent, content)'
  <2> DEFINE batch == {Heartbeat(last_sent)}
             late == IF net = {} /\ acks = <<>> THEN 0 ELSE 1
  <2>1. Transmit(batch, net, Num(sent), late)
    BY <1>1 DEF SendHeartbeat
  <2>2. \A d \in batch : Fresh(d, sent, content)
    <3>1. sent - sent = 0 /\ sent <= sent /\ 0 < SEQ_NUM_MIDSIZE
      BY Sizes
    <3>2. Heartbeat(last_sent).items = <<>> /\ Heartbeat(last_sent).seq = Num(sent)
      BY <1>1 DEF Heartbeat
    <3>3. Heartbeat(last_sent) \in Datagrams
      BY <1>1, NumType DEF Heartbeat, Datagrams
    <3> QED
      BY <3>1, <3>2, <3>3 DEF Fresh
  <2>3. sent <= sent /\ sent - sent <= History
    BY Sizes
  <2> HIDE DEF batch, late
  <2> QED
    BY <1>1, <2>1, <2>2, <2>3, Transmitted
<1> QED
  BY <1>2 DEF LinkInv, Counts, SlotsKept, Stored, Waiting, Confirmed, Has, SendHeartbeat,
     writer, reader

LEMMA ArmStep ==
  ASSUME NEW acked \in Nat, NEW sent \in Nat, NEW filled \in Nat, NEW handled \in Nat,
         NEW content, NEW acking,
         LinkInv(acked, sent, filled, handled, content, acking), ArmHeartbeat
  PROVE  LinkInv(acked, sent, filled, handled, content, acking)'
BY DEF LinkInv, Counts, SlotsKept, Stored, Waiting, Confirmed, Has, Carried, ArmHeartbeat,
   writer, reader

-----------------------------------------------------------------------------
(* Acknowledgements.                                                       *)

(* What the reader has was sent.                                           *)
LEMMA HasWasSent ==
  ASSUME NEW slots, NEW handled \in Nat, NEW sent \in Nat, NEW content,
         Stored(slots, handled, sent, content), NEW n \in Nat, Has(slots, handled, n)
  PROVE  n <= sent /\ n < handled + History
<1>1. handled <= sent /\ History \in Nat \ {0}
  BY Sizes DEF Stored
<1>2. CASE n <= handled
  BY <1>1, <1>2
<1>3. CASE ~(n <= handled)
  <2>1. n < handled + History /\ n \in handled + 1 .. n
    BY <1>3 DEF Has
  <2>2. slots[Place(n)] # <<>> /\ n \in handled + 1 .. handled + History
    BY <1>1, <1>3, <2>1 DEF Has
  <2> QED
    BY <2>1, <2>2 DEF Stored
<1> QED
  BY <1>2, <1>3

(* The queue of the ACKNACKs without its first.                            *)
LEMMA FirstAck ==
  ASSUME NEW acked \in Nat, NEW handled \in Nat, NEW acking,
         Confirmed(acked, handled, acking), acks # <<>>
  PROVE  /\ 1 \in 1 .. Len(acks) /\ Head(acks) = acks[1] /\ acking[1] \in Nat
         /\ acked <= acking[1] /\ acks[1].from = Num(acking[1] + 1)
         /\ Has(in, handled, acking[1])
<1>1. Len(acks) \in Nat /\ Len(acks) # 0 /\ Head(acks) = acks[1]
  BY DEF Confirmed
<1>2. 1 \in 1 .. Len(acks)
  BY <1>1
<1>3. acking[1] \in Nat
  BY <1>2 DEF Confirmed
<1> QED
  BY <1>1, <1>2, <1>3 DEF Confirmed

LEMMA AcksBehind ==
  ASSUME NEW acked \in Nat, NEW handled \in Nat, NEW acking,
         Confirmed(acked, handled, acking), acks # <<>>,
         acks' = Tail(acks), UNCHANGED in,
         NEW confirmed \in Nat, confirmed \in {acked, acking[1]}
  PROVE  \E behind : Confirmed(confirmed, handled, behind)'
<1> DEFINE n == Len(acks)
<1>1. /\ n \in Nat /\ n # 0 /\ acks \in Seq([from : SeqNums, nack : BOOLEAN])
      /\ acking \in [1 .. n -> Nat]
  BY DEF Confirmed
<1>2. /\ acks' \in Seq([from : SeqNums, nack : BOOLEAN]) /\ Len(acks') = n - 1
      /\ \A i \in 1 .. n - 1 : acks'[i] = acks[i + 1]
  BY <1>1
<1>3. PICK behind : behind = [i \in 1 .. n - 1 |-> acking[i + 1]]
  OBVIOUS
<1>4. /\ \A i \in 1 .. n - 1 : i + 1 \in 1 .. n
      /\ 1 \in 1 .. n /\ \A i \in 1 .. n : 1 <= i
  BY <1>1
<1>5. behind \in [1 .. Len(acks') -> Nat] /\ \A i \in 1 .. n - 1 : behind[i] = acking[i + 1]
  BY <1>1, <1>2, <1>3, <1>4
<1>6. /\ Has(in, handled, acked) /\ Has(in, handled, acking[1])
      /\ \A i \in 1 .. n : /\ acks[i].from = Num(acking[i] + 1)
                           /\ acked <= acking[i] /\ Has(in, handled, acking[i])
                           /\ acking[1] <= acking[i]
  BY <1>4 DEF Confirmed
<1>7. \A i, j \in 1 .. n : i <= j => acking[i] <= acking[j]
  BY DEF Confirmed
<1> HIDE DEF n
<1>8. Has(in, handled, confirmed) /\ \A i \in 1 .. n : confirmed <= acking[i]
  BY <1>6
<1>9. \A i \in 1 .. Len(acks') :
        /\ acks'[i].from = Num(behind[i] + 1)
        /\ confirmed <= behind[i] /\ Has(in, handled, behind[i])
  BY <1>2, <1>4, <1>5, <1>6, <1>8
<1>10. \A i, j \in 1 .. Len(acks') : i <= j => behind[i] <= behind[j]
  <2> SUFFICES ASSUME NEW i \in 1 .. n - 1, NEW j \in 1 .. n - 1, i <= j
               PROVE  behind[i] <= behind[j]
    BY <1>2
  <2>1. i + 1 <= j + 1
    BY <1>1
  <2> QED
    BY <1>4, <1>5, <1>7, <2>1
<1>11. \A x : Has(in, handled, x)' = Has(in, handled, x)
  BY DEF Has
<1>12. Confirmed(confirmed, handled, behind)'
  BY <1>2, <1>5, <1>8, <1>9, <1>10, <1>11 DEF Confirmed
<1> QED
  BY <1>12

LEMMA LoseAckStep ==
  ASSUME NEW acked \in Nat, NEW sent \in Nat, NEW filled \in Nat, NEW handled \in Nat,
         NEW content, NEW acking,
         LinkInv(acked, sent, filled, handled, content, acking), LoseAck
  PROVE  \E behind : LinkInv(acked, sent, filled, handled, content, behind)'
<1>1. PICK behind : Confirmed(acked, handled, behind)'
  <2>1. /\ Confirmed(acked, handled, acking) /\ acks # <<>> /\ acks' = Tail(acks)
        /\ UNCHANGED in /\ acked \in {acked, acking[1]}
    BY DEF LinkInv, LoseAck, reader
  <2> QED
    BY <2>1, AcksBehind
<1>2. LinkInv(acked, sent, filled, handled, content, behind)'
  BY <1>1 DEF LinkInv, Counts, SlotsKept, Stored, Waiting, Carried, LoseAck, writer, reader
<1> QED
  BY <1>2

(* The numbers an ACKNACK confirms and the writer did not know of.         *)
LEMMA Cleaned ==
  ASSUME NEW acked \in Nat, NEW sent \in Nat, NEW a \in Nat, acked <= a, a <= sent,
         sent <= acked + History,
         last_acknown = Num(acked), last_sent = Num(sent)
  PROVE  /\ seq_num_sub(Num(a), last_acknown) = a - acked
         /\ \A k \in 1 .. a - acked : Slot(seq_num_add(last_acknown, k)) = Place(acked + k)
         /\ seq_num_sub(last_sent, Num(a)) = sent - a
         /\ \A k \in 1 .. sent - a : seq_num_add(Num(a), k) = Num(a + k)
<1>1. History < SEQ_NUM_SIZE /\ SEQ_NUM_SIZE \in Nat /\ History \in Nat
  BY Sizes
<1>2. a - acked < SEQ_NUM_SIZE /\ sent - a < SEQ_NUM_SIZE
  BY <1>1
<1>3. seq_num_sub(Num(a), last_acknown) = a - acked
  BY <1>2, SubNum
<1>4. seq_num_sub(last_sent, Num(a)) = sent - a
  BY <1>2, SubNum
<1>5. ASSUME NEW k \in 1 .. a - acked
      PROVE  Slot(seq_num_add(last_acknown, k)) = Place(acked + k)
  <2>1. k \in Nat /\ k < SEQ_NUM_SIZE /\ acked + k \in Nat
    BY <1>1, <1>2
  <2>2. seq_num_add(last_acknown, k) = Num(acked + k)
    BY <2>1, AddNum
  <2> DEFINE x == acked + k
  <2>3. x \in Nat
    BY <2>1
  <2> HIDE DEF x
  <2>4. Slot(Num(x)) = Place(x)
    BY <2>3, SlotNum
  <2> QED
    BY <2>2, <2>4 DEF x
<1>6. ASSUME NEW k \in 1 .. sent - a PROVE seq_num_add(Num(a), k) = Num(a + k)
  <2>1. k \in Nat /\ k < SEQ_NUM_SIZE
    BY <1>1, <1>2
  <2> QED
    BY <2>1, AddNum
<1> QED
  BY <1>3, <1>4, <1>5, <1>6

(* What the writer does on an ACKNACK that confirms up to a.               *)
ConfirmUpTo(a, ack) ==
  LET toClean == seq_num_sub(a, last_acknown)
      unacked == IF ~ ack.nack \/ seq_num_cmp(seq_num_add(a, 1), last_sent) > 0 THEN {}
                 ELSE {seq_num_add(a, k) : k \in 1 .. seq_num_sub(last_sent, a)}
      again == {s \in unacked : out'[Slot(s)].size # header_offset}
  IN /\ last_acknown' = a
     /\ out' = [i \in Slots |->
          IF \E k \in 1 .. toClean : i = Slot(seq_num_add(last_acknown, k))
          THEN EmptySlot ELSE out[i]]
     /\ Transmit({[seq |-> s, items |-> out'[Slot(s)].items] : s \in again}, net, last_sent, 0)

(* Clearing the slots of the confirmed numbers makes room behind the last. *)
LEMMA SlotsCleared ==
  ASSUME NEW acked \in Nat, NEW filled \in Nat, NEW a \in Nat, acked <= a, a <= filled,
         filled <= acked + History, NEW content, SlotsKept(acked, filled, content),
         out' = [i \in Slots |->
                   IF \E k \in 1 .. a - acked : i = Place(acked + k) THEN EmptySlot ELSE out[i]]
  PROVE  SlotsKept(a, filled, content)'
<1>1. History \in Nat \ {0}
  BY Sizes
<1>2. out \in [Slots -> OutSlots]
  BY DEF SlotsKept
<1>3. EmptySlot \in OutSlots
  BY SlotsAssumption DEF EmptySlot, OutSlots, header_offset
<1>4. out' \in [Slots -> OutSlots]
  BY <1>2, <1>3
<1>5. ASSUME NEW n \in a + 1 .. acked + History PROVE out'[Place(n)] = out[Place(n)]
  <2>1. n \in Nat /\ Place(n) \in Slots
    BY PlaceType
  <2>2. ASSUME NEW k \in 1 .. a - acked PROVE Place(n) # Place(acked + k)
    <3> DEFINE x == acked + k
    <3>1. x \in Nat /\ n - x < History /\ x - n < History /\ x # n
      BY <1>1
    <3> HIDE DEF x
    <3>2. Place(n) # Place(x)
      BY <2>1, <3>1, PlaceApart
    <3> QED
      BY <3>2 DEF x
  <2> QED
    BY <2>1, <2>2
<1>6. ASSUME NEW n \in acked + History + 1 .. a + History PROVE out'[Place(n)] = EmptySlot
  <2> DEFINE k == n - History - acked
             m == acked + k
  <2>1. k \in 1 .. a - acked /\ m \in Nat /\ n = m + History
    BY <1>1
  <2> HIDE DEF k
  <2>2. Place(m) \in Slots
    BY <2>1, PlaceType
  <2>3. out'[Place(m)] = EmptySlot
    BY <2>1, <2>2
  <2> HIDE DEF m
  <2>4. Place(n) = Place(m)
    BY <2>1, PlaceAgain
  <2> QED
    BY <2>3, <2>4
<1>7. ASSUME NEW n \in a + 1 .. a + History
      PROVE  /\ n <= filled => /\ out'[Place(n)].items = content[n]
                               /\ out'[Place(n)].size > header_offset
             /\ n > filled => out'[Place(n)] = EmptySlot
  <2>1. CASE n <= acked + History
    <3>1. n \in a + 1 .. acked + History /\ n \in acked + 1 .. acked + History
      BY <1>1, <2>1
    <3>2. out'[Place(n)] = out[Place(n)]
      BY <1>5, <3>1
    <3> QED
      BY <3>1, <3>2 DEF SlotsKept
  <2>2. CASE n > acked + History
    <3>1. n \in acked + History + 1 .. a + History /\ ~(n <= filled)
      BY <1>1, <2>2
    <3>2. out'[Place(n)] = EmptySlot
      BY <1>6, <3>1
    <3> QED
      BY <3>1, <3>2
  <2>3. n <= acked + History \/ n > acked + History
    BY <1>1
  <2> QED
    BY <2>1, <2>2, <2>3
<1> QED
  BY <1>4, <1>7 DEF SlotsKept

LEMMA ProcessAckNackStep ==
  ASSUME NEW acked \in Nat, NEW sent \in Nat, NEW filled \in Nat, NEW handled \in Nat,
         NEW content, NEW acking,
         LinkInv(acked, sent, filled, handled, content, acking), ProcessAckNack
  PROVE  \E a \in Nat : \E behind : LinkInv(a, sent, filled, handled, content, behind)'
<1>1. /\ Counts(acked, sent, filled) /\ SlotsKept(acked, filled, content)
      /\ Contents(content, filled) /\ content \in [Nat -> Seq(Items)]
      /\ Carried(sent, content) /\ Stored(in, handled, sent, content)
      /\ Confirmed(acked, handled, acking)
  BY DEF LinkInv, Contents
<1>2. /\ SEQ_NUM_MAX <= acked /\ acked <= sent /\ sent <= filled /\ filled <= acked + History
      /\ last_sent = Num(sent) /\ last_acknown = Num(acked)
      /\ SEQ_NUM_MAX = SEQ_NUM_SIZE - 1 /\ SEQ_NUM_SIZE \in Nat /\ SEQ_NUM_MIDSIZE \in Nat
      /\ 2 * History <= SEQ_NUM_MIDSIZE /\ SEQ_NUM_SIZE = 2 * SEQ_NUM_MIDSIZE
      /\ History \in Nat \ {0} /\ 1 < SEQ_NUM_SIZE
  BY <1>1, Sizes DEF Counts
<1>3. PICK a : a = acking[1]
  OBVIOUS
<1>4. /\ acks # <<>> /\ acks' = Tail(acks)
      /\ UNCHANGED <<last_written, last_sent, in, last_handled, last_announced>>
  BY DEF ProcessAckNack, reader
<1>5. /\ a \in Nat /\ acked <= a /\ Has(in, handled, a)
      /\ Head(acks).from = Num(a + 1)
  BY <1>1, <1>3, <1>4, FirstAck
<1>6. a <= sent
  BY <1>1, <1>5, HasWasSent
<1>7. Acked(Head(acks)) = Num(a)
  BY <1>2, <1>5, BackNum DEF Acked
<1>8. ConfirmUpTo(Num(a), Head(acks))
  BY <1>7 DEF ProcessAckNack, ConfirmUpTo
<1>9. /\ seq_num_sub(Num(a), last_acknown) = a - acked
      /\ \A k \in 1 .. a - acked : Slot(seq_num_add(last_acknown, k)) = Place(acked + k)
      /\ seq_num_sub(last_sent, Num(a)) = sent - a
      /\ \A k \in 1 .. sent - a : seq_num_add(Num(a), k) = Num(a + k)
  <2>1. sent <= acked + History
    BY <1>2
  <2> QED
    BY <1>2, <1>5, <1>6, <2>1, Cleaned
<1>10. SlotsKept(a, filled, content)'
  <2>1. out' = [i \in Slots |->
                  IF \E k \in 1 .. a - acked : i = Place(acked + k) THEN EmptySlot ELSE out[i]]
    BY <1>8, <1>9 DEF ConfirmUpTo
  <2>2. a <= filled
    BY <1>2, <1>5, <1>6
  <2> QED
    BY <1>1, <1>2, <1>5, <2>1, <2>2, SlotsCleared
<1>11. Carried(sent, content)'
  <2> DEFINE unacked == IF \/ ~ Head(acks).nack
                           \/ seq_num_cmp(seq_num_add(Num(a), 1), last_sent) > 0 THEN {}
                        ELSE {seq_num_add(Num(a), k) : k \in 1 .. seq_num_sub(last_sent, Num(a))}
             again == {s \in unacked : out'[Slot(s)].size # header_offset}
             batch == {[seq |-> s, items |-> out'[Slot(s)].items] : s \in again}
  <2>1. Transmit(batch, net, Num(sent), 0)
    BY <1>2, <1>8 DEF ConfirmUpTo
  <2>2. ASSUME NEW d \in batch PROVE Fresh(d, sent, content)
    <3>1. PICK s \in again : d = [seq |-> s, items |-> out'[Slot(s)].items]
      OBVIOUS
    <3>2. PICK k \in 1 .. sent - a : s = seq_num_add(Num(a), k)
      BY <1>9, <3>1
    <3> DEFINE n == a + k
    <3>3. n \in Nat /\ n <= sent /\ sent - n < SEQ_NUM_MIDSIZE /\ n >= SEQ_NUM_SIZE
          /\ n \in a + 1 .. a + History /\ n <= filled
      BY <1>2, <1>5, <1>6
    <3>4. s = Num(n)
      BY <1>9, <3>2
    <3> HIDE DEF n
    <3>5. d.seq = Num(n) /\ d.items = out'[Place(n)].items
      BY <3>1, <3>3, <3>4, SlotNum
    <3>6. d.items = content[n]
      BY <1>10, <3>3, <3>5 DEF SlotsKept
    <3>7. d \in Datagrams
      BY <1>1, <3>1, <3>3, <3>4, <3>6, NumType DEF Datagrams
    <3> QED
      BY <3>3, <3>5, <3>6, <3>7 DEF Fresh
  <2>3. sent <= sent /\ sent - sent <= History
    BY <1>2
  <2> HIDE DEF batch
  <2> QED
    BY <1>1, <2>1, <2>2, <2>3, Transmitted
<1>12. PICK behind : Confirmed(a, handled, behind)'
  <2>1. a \in {acked, acking[1]} /\ UNCHANGED in
    BY <1>3, <1>4
  <2> QED
    BY <1>1, <1>4, <1>5, <2>1, AcksBehind
<1>13. Counts(a, sent, filled)'
  <2>1. last_acknown' = Num(a)
    BY <1>8 DEF ConfirmUpTo
  <2>2. SEQ_NUM_MAX <= a /\ filled <= a + History
    BY <1>2, <1>5
  <2> QED
    BY <1>1, <1>2, <1>4, <1>6, <2>1, <2>2 DEF Counts
<1>14. Stored(in, handled, sent, content)' /\ Waiting(in, handled)' /\ Contents(content, filled)'
       /\ (last_handled = Num(handled) /\ last_announced \in SeqNums)'
  BY <1>1, <1>4 DEF Stored, Waiting, Contents, LinkInv
<1>15. LinkInv(a, sent, filled, handled, content, behind)'
  BY <1>10, <1>11, <1>12, <1>13, <1>14 DEF LinkInv
<1> QED
  BY <1>5, <1>15

-----------------------------------------------------------------------------
(* What the channel holds.  Beside the content of the slots stands a       *)
(* total: total[n] is every message that ends in a slot up to the n-th.    *)

Readable == MessageIds \cup {Garbage}

Starts(items) == Begins(items, "whole") \/ (Begins(items, "part") /\ Head(items).begins)

(* Between two messages, and not in the middle of a fragmented one.        *)
AtStart(content, n) == n = SEQ_NUM_MAX \/ ~ Begins(content[n], "part")

(* A message that begins in slot n ends in a later one, and none between.  *)
Continued(content, filled, total, n) ==
  \E k \in 1 .. History - 1 :
    /\ n + k <= filled /\ Begins(content[n + k], "last")
    /\ Head(content[n + k]).msg = Head(content[n]).msg
    /\ \A j \in 1 .. k - 1 : Begins(content[n + j], "part")
    /\ \A j \in 0 .. k - 1 : total[n + j] = total[n - 1]

Framed(content, filled, total, n) ==
  /\ \A i \in 2 .. Len(content[n]) : content[n][i].frag = "whole"
  /\ Begins(content[n], "part") => Len(content[n]) = 1
  /\ FragmentHeaders \/ Begins(content[n], "whole")
  /\ total[n] = total[n - 1] \o Ends(content[n])
  /\ Begins(content[n], "part") /\ Head(content[n]).begins => Continued(content, filled, total, n)

Story(content, filled, total) ==
  /\ total \in [Nat -> Seq(MessageIds)]
  /\ \A n \in SEQ_NUM_SIZE .. filled : Framed(content, filled, total, n)
  /\ \A n \in SEQ_NUM_MAX .. filled - 1 : AtStart(content, n) => Starts(content[n + 1])

(* The messages that end in a slot.                                        *)
LEMMA ItemsType ==
  ASSUME NEW items \in Seq(Items)
  PROVE  /\ Len(items) \in Nat /\ DOMAIN items = 1 .. Len(items)
         /\ \A k \in 1 .. Len(items) :
              /\ items[k] \in Items /\ items[k].msg \in MessageIds
              /\ items[k].frag \in {"whole", "part", "last"} /\ items[k].begins \in BOOLEAN
<1>1. Len(items) \in Nat /\ DOMAIN items = 1 .. Len(items)
  BY LenProperties
<1>2. \A k \in 1 .. Len(items) : items[k] \in Items
  BY ElementOfSeq
<1> QED
  BY <1>1, <1>2 DEF Items

LEMMA MappedSeq ==
  ASSUME NEW n \in Nat, NEW S, NEW f \in [1 .. n -> S]
  PROVE  f \in Seq(S) /\ Len(f) = n /\ \A i \in 1 .. n : f[i] \in S
<1>1. f \in Seq(S)
  BY SeqDef
<1> QED
  BY <1>1, LenProperties

Said(items) == [k \in DOMAIN items |-> items[k].msg]

LEMMA EndsSaid ==
  ASSUME NEW items \in Seq(Items), items # <<>> => items[Len(items)].frag # "part"
  PROVE  Ends(items) = Said(items)
  BY DEF Ends, Last, Said

LEMMA SaidType ==
  ASSUME NEW items \in Seq(Items)
  PROVE  /\ Said(items) \in Seq(MessageIds) /\ Len(Said(items)) = Len(items)
         /\ \A k \in 1 .. Len(items) : Said(items)[k] = items[k].msg
<1>1. Len(items) \in Nat /\ DOMAIN items = 1 .. Len(items)
      /\ \A k \in 1 .. Len(items) : items[k].msg \in MessageIds
  BY ItemsType
<1>2. Said(items) \in [1 .. Len(items) -> MessageIds]
  BY <1>1 DEF Said
<1>3. \A k \in 1 .. Len(items) : Said(items)[k] = items[k].msg
  BY <1>1 DEF Said
<1> QED
  BY <1>1, <1>2, <1>3, MappedSeq

LEMMA EndsType ==
  ASSUME NEW items \in Seq(Items)
  PROVE  Ends(items) \in Seq(MessageIds)
<1>1. CASE items # <<>> /\ items[Len(items)].frag = "part"
  <2>1. Len(items) \in Nat \ {0}
    BY <1>1, EmptySeq
  <2>2. \A i \in 1 .. Len(items) - 1 : items[i] \in Items
    BY <2>1, ItemsType
  <2>3. Front(items) \in Seq(Items)
    BY <2>1, <2>2, SubSeqProperties DEF Front
  <2>4. Ends(items) = Said(Front(items))
    BY <1>1 DEF Ends, Last, Said
  <2> QED
    BY <2>3, <2>4, SaidType
<1>2. CASE ~(items # <<>> /\ items[Len(items)].frag = "part")
  BY <1>2, EndsSaid, SaidType
<1> QED
  BY <1>1, <1>2

\* In a slot with nothing, with a part or with a last piece only.
LEMMA EndsOfOne ==
  /\ Ends(<<>>) = <<>>
  /\ \A i \in Items : Ends(<<i>>) = IF i.frag = "part" THEN <<>> ELSE <<i.msg>>
<1>1. Ends(<<>>) = <<>>
  <2>1. <<>> \in Seq(Items) /\ Len(<<>>) = 0
    BY EmptySeq
  <2>2. Ends(<<>>) = Said(<<>>)
    BY <2>1, EndsSaid
  <2>3. Said(<<>>) \in Seq(MessageIds) /\ Len(Said(<<>>)) = 0
    BY <2>1, SaidType
  <2> QED
    BY <2>2, <2>3, EmptySeq
<1>2. ASSUME NEW i \in Items PROVE Ends(<<i>>) = IF i.frag = "part" THEN <<>> ELSE <<i.msg>>
  <2>1. <<i>> \in Seq(Items) /\ Len(<<i>>) = 1 /\ <<i>>[1] = i /\ <<i>> # <<>>
    OBVIOUS
  <2>2. CASE i.frag = "part"
    <3>1. Front(<<i>>) = <<>>
      BY <2>1, SubSeqEmpty DEF Front
    <3>2. Ends(<<i>>) = Said(<<>>)
      BY <2>1, <2>2, <3>1 DEF Ends, Last, Said
    <3>3. <<>> \in Seq(Items) /\ Len(<<>>) = 0
      BY EmptySeq
    <3>4. Said(<<>>) \in Seq(MessageIds) /\ Len(Said(<<>>)) = 0
      BY <3>3, SaidType
    <3> QED
      BY <2>2, <3>2, <3>4, EmptySeq
  <2>3. CASE i.frag # "part"
    <3>1. Ends(<<i>>) = Said(<<i>>)
      BY <2>1, <2>3, EndsSaid
    <3>2. Said(<<i>>) \in Seq(MessageIds) /\ Len(Said(<<i>>)) = 1 /\ Said(<<i>>)[1] = i.msg
      <4> DEFINE one == <<i>>
      <4>1. one \in Seq(Items) /\ Len(one) = 1 /\ one[1] = i /\ 1 \in 1 .. 1
        BY <2>1
      <4> HIDE DEF one
      <4>2. /\ Said(one) \in Seq(MessageIds) /\ Len(Said(one)) = Len(one)
            /\ \A k \in 1 .. Len(one) : Said(one)[k] = one[k].msg
        BY <4>1, SaidType
      <4>3. Said(one) \in Seq(MessageIds) /\ Len(Said(one)) = 1 /\ Said(one)[1] = i.msg
        BY <4>1, <4>2
      <4> QED
        BY <4>3 DEF one
    <3>3. i.msg \in MessageIds
      BY DEF Items
    <3>4. <<i.msg>> \in Seq(MessageIds) /\ Len(<<i.msg>>) = 1 /\ <<i.msg>>[1] = i.msg
      BY <3>3
    <3>5. \A k \in 1 .. 1 : Said(<<i>>)[k] = <<i.msg>>[k]
      BY <3>2, <3>4
    <3> HIDE DEF Said
    <3>6. Said(<<i>>) = <<i.msg>>
      <4> DEFINE s == Said(<<i>>)
                 t == <<i.msg>>
      <4>1. /\ s \in Seq(MessageIds) /\ t \in Seq(MessageIds) /\ Len(s) = 1 /\ Len(t) = 1
            /\ \A k \in 1 .. Len(s) : s[k] = t[k]
        BY <3>2, <3>4, <3>5
      <4> HIDE DEF s, t
      <4>2. s = t
        BY <4>1, SeqEqual
      <4> QED
        BY <4>2 DEF s, t
    <3> QED
      BY <2>3, <3>1, <3>6
  <2> QED
    BY <2>2, <2>3
<1> QED
  BY <1>1, <1>2

\* A whole message behind whole messages and last pieces ends in their slot.
LEMMA EndsAppend ==
  ASSUME NEW items \in Seq(Items), items # <<>> => items[Len(items)].frag # "part",
         NEW i \in Items, i.frag # "part"
  PROVE  Ends(Append(items, i)) = Append(Ends(items), i.msg)
<1> DEFINE more == Append(items, i)
<1>1. /\ more \in Seq(Items) /\ Len(items) \in Nat /\ Len(more) = Len(items) + 1
      /\ more[Len(items) + 1] = i
      /\ \A k \in 1 .. Len(items) : more[k] = items[k]
  OBVIOUS
<1> HIDE DEF more
<1>2. Ends(more) = Said(more) /\ Ends(items) = Said(items)
  BY <1>1, EndsSaid
<1>3. /\ Said(more) \in Seq(MessageIds) /\ Len(Said(more)) = Len(items) + 1
      /\ \A k \in 1 .. Len(items) + 1 : Said(more)[k] = more[k].msg
  BY <1>1, SaidType
<1>4. /\ Said(items) \in Seq(MessageIds) /\ Len(Said(items)) = Len(items)
      /\ \A k \in 1 .. Len(items) : Said(items)[k] = items[k].msg
  BY SaidType
<1>5. i.msg \in MessageIds
  BY DEF Items
<1> DEFINE s == Said(more)
           u == Said(items)
           t == Append(u, i.msg)
<1> HIDE DEF s, u
<1>6. /\ t \in Seq(MessageIds) /\ Len(t) = Len(items) + 1 /\ t[Len(items) + 1] = i.msg
      /\ \A k \in 1 .. Len(items) : t[k] = u[k]
  BY <1>1, <1>4, <1>5 DEF u
<1>7. \A k \in 1 .. Len(items) + 1 : k = Len(items) + 1 \/ k \in 1 .. Len(items)
  BY <1>1
<1>8. \A k \in 1 .. Len(items) + 1 : s[k] = t[k]
  <2> HIDE DEF t
  <2> QED
    BY <1>1, <1>3, <1>4, <1>6, <1>7 DEF s, u
<1>9. s \in Seq(MessageIds) /\ Len(s) = Len(items) + 1
  BY <1>3 DEF s
<1> HIDE DEF t
<1>10. s = t
  BY <1>6, <1>8, <1>9, SeqEqual
<1> QED
  BY <1>2, <1>10 DEF s, t, u, more

LEMMA JoinedAppend ==
  ASSUME NEW m \in MessageIds, NEW a \in Seq(MessageIds), NEW b \in Seq(MessageIds)
  PROVE  Append(a \o b, m) = a \o Append(b, m)
<1>1. <<m>> \in Seq(MessageIds)
  OBVIOUS
<1>2. Append(b, m) = b \o <<m>> /\ Append(a \o b, m) = (a \o b) \o <<m>>
  BY AppendIsConcat, ConcatProperties
<1> QED
  BY <1>1, <1>2, ConcatAssociative

(* What a write does to the totals.                                        *)
Extended(total, filled, more, m) ==
  [n \in Nat |-> IF n < more THEN (IF n <= filled THEN total[n] ELSE total[filled])
                 ELSE Append(total[filled], m)]

Totals(t, total, filled, more, m) ==
  /\ t \in [Nat -> Seq(MessageIds)]
  /\ \A n \in Nat : n < more /\ n <= filled => t[n] = total[n]
  /\ \A n \in Nat : n < more /\ n > filled => t[n] = total[filled]
  /\ t[more] = Append(total[filled], m)

LEMMA ExtendedTotal ==
  ASSUME NEW filled \in Nat, NEW more \in Nat, filled <= more, NEW m \in MessageIds,
         NEW total \in [Nat -> Seq(MessageIds)]
  PROVE  Totals(Extended(total, filled, more, m), total, filled, more, m)
<1> DEFINE t == Extended(total, filled, more, m)
           last == Append(total[filled], m)
<1>1. last \in Seq(MessageIds) /\ total[filled] \in Seq(MessageIds)
  OBVIOUS
<1> HIDE DEF last
<1>2. t = [n \in Nat |-> IF n < more THEN (IF n <= filled THEN total[n] ELSE total[filled])
                         ELSE last]
  BY DEF Extended, last
<1> HIDE DEF t
<1>3. t \in [Nat -> Seq(MessageIds)]
  BY <1>1, <1>2
<1>4. t[more] = last
  <2>1. ~(more < more)
    OBVIOUS
  <2> QED
    BY <1>2, <2>1
<1>5. \A n \in Nat : n < more /\ n <= filled => t[n] = total[n]
  BY <1>2
<1>6. \A n \in Nat : n < more /\ n > filled => t[n] = total[filled]
  <2>1. \A n \in Nat : n > filled => ~(n <= filled)
    OBVIOUS
  <2> QED
    BY <1>2, <2>1
<1>7. Totals(t, total, filled, more, m)
  BY <1>3, <1>4, <1>5, <1>6 DEF Totals, last
<1> QED
  BY <1>7 DEF t

(* The last filled slot does not hold the beginning of something.          *)
LEMMA FilledAtStart ==
  ASSUME NEW content, NEW filled \in Nat, Contents(content, filled), SEQ_NUM_MAX <= filled
  PROVE  AtStart(content, filled)
<1> SUFFICES ASSUME filled # SEQ_NUM_MAX, Begins(content[filled], "part") PROVE FALSE
  BY DEF AtStart
<1>1. filled \in SEQ_NUM_SIZE .. filled
  BY Sizes
<1>2. Completed(content, filled, filled)
  BY <1>1 DEF Contents
<1> QED
  BY <1>2 DEF Completed

(* A slot whose like and whose neighbours' like stay is framed as before.  *)
SameHead(items, others) ==
  /\ Head(items).frag = Head(others).frag /\ Head(items).msg = Head(others).msg
  /\ Head(items).begins = Head(others).begins

LEMMA FramedAgain ==
  ASSUME NEW content, NEW filled \in Nat, NEW total, NEW wider, NEW more \in Nat,
         NEW t, NEW m, filled <= more, Totals(t, total, filled, more, m),
         NEW n \in SEQ_NUM_SIZE .. filled, n < more, Framed(content, filled, total, n),
         wider[n] = content[n],
         \A i \in SEQ_NUM_SIZE .. filled : SameHead(wider[i], content[i])
  PROVE  Framed(wider, more, t, n)
<1>0. SEQ_NUM_SIZE \in Nat \ {0} /\ History \in Nat \ {0}
  BY Sizes
<1>3. \A i \in Nat : i < more /\ i <= filled => t[i] = total[i]
  BY DEF Totals
<1>1. n \in Nat /\ n - 1 \in Nat /\ t[n] = total[n] /\ t[n - 1] = total[n - 1]
  BY <1>0, <1>3
<1>2. ASSUME Continued(content, filled, total, n) PROVE Continued(wider, more, t, n)
  <2>1. PICK k \in 1 .. History - 1 :
          /\ n + k <= filled /\ Begins(content[n + k], "last")
          /\ Head(content[n + k]).msg = Head(content[n]).msg
          /\ \A j \in 1 .. k - 1 : Begins(content[n + j], "part")
          /\ \A j \in 0 .. k - 1 : total[n + j] = total[n - 1]
    BY <1>2 DEF Continued
  <2>2. n + k \in SEQ_NUM_SIZE .. filled /\ n + k <= more
    BY <1>0, <2>1, Further
  <2>3. Begins(wider[n + k], "last") /\ Head(wider[n + k]).msg = Head(wider[n]).msg
    BY <2>1, <2>2 DEF Begins, SameHead
  <2>4. \A j \in 1 .. k - 1 : Begins(wider[n + j], "part")
    <3> SUFFICES ASSUME NEW j \in 1 .. k - 1 PROVE Begins(wider[n + j], "part")
      OBVIOUS
    <3>1. n + j \in SEQ_NUM_SIZE .. filled
      BY <1>0, <2>1, Nearer
    <3> QED
      BY <2>1, <3>1 DEF Begins, SameHead
  <2>5. \A j \in 0 .. k - 1 : t[n + j] = t[n - 1]
    <3> SUFFICES ASSUME NEW j \in 0 .. k - 1 PROVE t[n + j] = t[n - 1]
      OBVIOUS
    <3>1. n + j \in Nat /\ n + j < more /\ n + j <= filled
      BY <1>0, <2>1
    <3> QED
      BY <1>1, <1>3, <2>1, <3>1
  <2> QED
    BY <2>2, <2>3, <2>4, <2>5 DEF Continued
<1> QED
  BY <1>1, <1>2 DEF Framed, Begins

LEMMA WholeAdded ==
  ASSUME NEW content, NEW filled \in Nat, NEW total, NEW wider, NEW more \in Nat,
         NEW m \in MessageIds, SEQ_NUM_MAX <= filled, SEQ_NUM_SIZE <= more,
         Contents(content, filled), Story(content, filled, total),
         AddedWhole(content, filled, wider, more, m)
  PROVE  Story(wider, more, Extended(total, filled, more, m))
<1> DEFINE t == Extended(total, filled, more, m)
           item == Item(m, "whole", TRUE)
           before == IF more = filled THEN content[more] ELSE <<>>
<1>0. SEQ_NUM_SIZE \in Nat \ {0} /\ SEQ_NUM_MAX = SEQ_NUM_SIZE - 1 /\ SEQ_NUM_MAX \in Nat
  BY Sizes
<1>1. /\ content \in [Nat -> Seq(Items)]
      /\ \A n \in SEQ_NUM_SIZE .. filled : content[n] # <<>>
      /\ AtStart(content, filled)
  BY FilledAtStart DEF Contents
<1>2. /\ total \in [Nat -> Seq(MessageIds)]
      /\ \A n \in SEQ_NUM_SIZE .. filled : Framed(content, filled, total, n)
      /\ \A n \in SEQ_NUM_MAX .. filled - 1 : AtStart(content, n) => Starts(content[n + 1])
  BY DEF Story
<1>3. more = filled \/ more = filled + 1
  BY DEF AddedWhole
<1>4. item \in Items /\ item.frag = "whole" /\ item.msg = m
  BY WrittenItem
<1> HIDE DEF item
<1>5. /\ before \in Seq(Items)
      /\ before # <<>> => more = filled /\ before = content[filled] /\ filled \in SEQ_NUM_SIZE .. filled
      /\ more = filled => before = content[filled] /\ before # <<>>
  BY <1>0, <1>1
<1>6. /\ \A n \in Nat : n # more => wider[n] = content[n]
      /\ wider[more] = Append(before, item)
  BY <1>1 DEF AddedWhole, item
<1> HIDE DEF before
<1>15. filled <= more
  BY <1>3
<1>16. Totals(t, total, filled, more, m)
  BY <1>2, <1>15, ExtendedTotal
<1> HIDE DEF t
<1>7. /\ t \in [Nat -> Seq(MessageIds)]
      /\ \A n \in Nat : n < more /\ n <= filled => t[n] = total[n]
      /\ \A n \in Nat : n < more /\ n > filled => t[n] = total[filled]
      /\ t[more] = Append(total[filled], m)
  BY <1>16 DEF Totals
<1>8. wider[more] \in Seq(Items) /\ wider[more] # <<>>
      /\ (before = <<>> => Head(wider[more]) = item)
      /\ (before # <<>> => Head(wider[more]) = Head(before))
      /\ Len(before) \in Nat /\ Len(wider[more]) = Len(before) + 1
      /\ wider[more][Len(before) + 1] = item
      /\ \A i \in 1 .. Len(before) : wider[more][i] = before[i]
  BY <1>4, <1>5, <1>6, Appended
<1>9. \A i \in SEQ_NUM_SIZE .. filled : SameHead(wider[i], content[i])
  <2> SUFFICES ASSUME NEW i \in SEQ_NUM_SIZE .. filled
               PROVE  Head(wider[i]) = Head(content[i])
    BY DEF SameHead
  <2>1. CASE i = more
    <3>1. more = filled
      BY <1>0, <1>3, <2>1
    <3> QED
      BY <1>5, <1>8, <2>1, <3>1
  <2>2. CASE i # more
    <3>1. i \in Nat
      BY <1>0
    <3> QED
      BY <1>6, <2>2, <3>1
  <2> QED
    BY <2>1, <2>2
\* What stood in the slot before goes on between two messages.
<1>10. /\ before # <<>> => ~ Begins(before, "part") /\ Framed(content, filled, total, filled)
       /\ \A i \in 1 .. Len(before) : before[i].frag # "part"
  <2>1. CASE before = <<>>
    <3>1. Len(before) = 0
      BY <2>1
    <3> QED
      BY <2>1, <3>1
  <2>2. CASE before # <<>>
    <3>1. more = filled /\ before = content[filled] /\ filled \in SEQ_NUM_SIZE .. filled
      BY <1>5, <2>2
    <3>2. ~ Begins(before, "part") /\ Framed(content, filled, total, filled)
      BY <1>0, <1>1, <1>2, <3>1 DEF AtStart
    <3>3. \A i \in 2 .. Len(before) : before[i].frag = "whole"
      BY <3>1, <3>2 DEF Framed
    <3>4. before[1].frag # "part"
      BY <1>5, <2>2, <3>2 DEF Begins
    <3>5. \A i \in 1 .. Len(before) : i = 1 \/ i \in 2 .. Len(before)
      BY <1>8
    <3> QED
      BY <3>2, <3>3, <3>4, <3>5
  <2> QED
    BY <2>1, <2>2
<1>11. Ends(wider[more]) = Append(Ends(before), m)
  <2>1. before # <<>> => before[Len(before)].frag # "part"
    <3>1. before # <<>> => Len(before) \in 1 .. Len(before)
      BY <1>5, <1>8, EmptySeq
    <3> QED
      BY <1>10, <3>1
  <2> QED
    BY <1>4, <1>5, <1>6, <2>1, EndsAppend
<1>12. Framed(wider, more, t, more)
  <2>1. ~ Begins(wider[more], "part")
    BY <1>4, <1>8, <1>10 DEF Begins
  <2>2. \A i \in 2 .. Len(wider[more]) : wider[more][i].frag = "whole"
    <3> SUFFICES ASSUME NEW i \in 2 .. Len(wider[more]) PROVE wider[more][i].frag = "whole"
      OBVIOUS
    <3>1. i = Len(before) + 1 \/ i \in 2 .. Len(before)
      BY <1>8
    <3>2. CASE i = Len(before) + 1
      BY <1>4, <1>8, <3>2
    <3>3. CASE i \in 2 .. Len(before)
      <4>1. i \in 1 .. Len(before) /\ Len(before) # 0
        BY <1>8, <3>3
      <4>2. before # <<>>
        BY <4>1, EmptySeq
      <4>3. before[i].frag = "whole"
        BY <1>5, <1>10, <3>3, <4>2 DEF Framed
      <4> QED
        BY <1>8, <4>1, <4>3
    <3> QED
      BY <3>1, <3>2, <3>3
  <2>3. FragmentHeaders \/ Begins(wider[more], "whole")
    BY <1>4, <1>5, <1>8, <1>10 DEF Framed, Begins
  <2>4. t[more] = t[more - 1] \o Ends(wider[more])
    <3>1. total[filled] \in Seq(MessageIds) /\ Ends(before) \in Seq(MessageIds)
      BY <1>2, <1>5, EndsType
    <3>2. more - 1 \in Nat /\ more - 1 < more /\ more - 1 <= filled
      BY <1>0, <1>3
    <3>3. t[more - 1] = total[more - 1] /\ total[more - 1] \in Seq(MessageIds)
      BY <1>2, <1>7, <3>2
    <3>4. total[filled] = total[more - 1] \o Ends(before)
      <4>1. CASE more = filled
        <5>1. before # <<>> /\ before = content[filled]
          BY <1>5, <4>1
        <5>2. Framed(content, filled, total, filled)
          BY <1>10, <5>1
        <5> QED
          BY <4>1, <5>1, <5>2 DEF Framed
      <4>2. CASE more # filled
        <5>1. more - 1 = filled /\ before = <<>>
          BY <1>3, <1>5, <4>2
        <5>2. Ends(before) = <<>>
          BY <5>1, EndsOfOne
        <5> QED
          BY <3>1, <5>1, <5>2, ConcatEmptySeq
      <4> QED
        BY <4>1, <4>2
    <3>5. \A a, b \in Seq(MessageIds) : Append(a \o b, m) = a \o Append(b, m)
      BY JoinedAppend
    <3> QED
      BY <1>7, <1>11, <3>1, <3>3, <3>4, <3>5
  <2> QED
    BY <2>1, <2>2, <2>3, <2>4 DEF Framed
<1>13. \A n \in SEQ_NUM_SIZE .. more : Framed(wider, more, t, n)
  <2> SUFFICES ASSUME NEW n \in SEQ_NUM_SIZE .. more PROVE Framed(wider, more, t, n)
    OBVIOUS
  <2>1. CASE n = more
    BY <1>12, <2>1
  <2>2. CASE n # more
    <3>1. n \in SEQ_NUM_SIZE .. filled /\ n < more /\ filled <= more /\ n \in Nat
      BY <1>0, <1>3, <2>2
    <3>2. wider[n] = content[n] /\ Framed(content, filled, total, n)
      BY <1>2, <1>6, <2>2, <3>1
    <3> QED
      BY <1>9, <1>16, <3>1, <3>2, FramedAgain
  <2> QED
    BY <2>1, <2>2
<1>14. \A n \in SEQ_NUM_MAX .. more - 1 : AtStart(wider, n) => Starts(wider[n + 1])
  <2> SUFFICES ASSUME NEW n \in SEQ_NUM_MAX .. more - 1, AtStart(wider, n)
               PROVE  Starts(wider[n + 1])
    OBVIOUS
  <2>1. n \in Nat /\ n # more /\ wider[n] = content[n]
    BY <1>0, <1>6
  <2>2. AtStart(content, n)
    BY <2>1 DEF AtStart
  <2>3. CASE n < filled
    <3>1. n \in SEQ_NUM_MAX .. filled - 1 /\ n + 1 \in SEQ_NUM_SIZE .. filled
      BY <1>0, <2>3
    <3>2. Starts(content[n + 1])
      BY <1>2, <2>2, <3>1
    <3> QED
      BY <1>9, <3>1, <3>2 DEF Starts, Begins, SameHead
  <2>4. CASE ~(n < filled)
    <3>1. n + 1 = more /\ more # filled
      BY <1>0, <1>3, <2>1, <2>4
    <3>2. before = <<>>
      BY <1>5, <3>1
    <3>3. Begins(wider[more], "whole")
      BY <1>4, <1>8, <3>2 DEF Begins
    <3> QED
      BY <3>1, <3>3 DEF Starts
  <2> QED
    BY <2>3, <2>4
<1> QED
  BY <1>7, <1>13, <1>14 DEF Story, t

\* A message in pieces, when none of them stands behind whole messages.
LEMMA PiecesAdded ==
  ASSUME NEW content, NEW filled \in Nat, NEW total, NEW wider, NEW more \in Nat,
         NEW m \in MessageIds, SEQ_NUM_MAX <= filled, FragmentHeaders,
         Contents(content, filled), Story(content, filled, total),
         AddedPieces(content, filled, wider, filled + 1, more, m)
  PROVE  Story(wider, more, Extended(total, filled, more, m))
<1> DEFINE t == Extended(total, filled, more, m)
           first == filled + 1
           part(n) == Item(m, "part", n = first)
           last == Item(m, "last", FALSE)
<1>0. SEQ_NUM_SIZE \in Nat \ {0} /\ SEQ_NUM_MAX = SEQ_NUM_SIZE - 1 /\ SEQ_NUM_MAX \in Nat
      /\ History \in Nat
  BY Sizes
<1>1. first < more /\ more - first < History /\ filled <= more
  BY DEF AddedPieces
<1>2. /\ total \in [Nat -> Seq(MessageIds)]
      /\ \A n \in SEQ_NUM_SIZE .. filled : Framed(content, filled, total, n)
      /\ \A n \in SEQ_NUM_MAX .. filled - 1 : AtStart(content, n) => Starts(content[n + 1])
  BY DEF Story
<1>3. Totals(t, total, filled, more, m)
  BY <1>1, <1>2, ExtendedTotal
<1> HIDE DEF t
<1>4. /\ last \in Items /\ last.frag = "last" /\ last.msg = m
      /\ \A n \in Nat : /\ part(n) \in Items /\ part(n).frag = "part" /\ part(n).msg = m
                        /\ part(n).begins = (n = first)
  BY DEF Item, Items
<1>5. /\ \A n \in first .. more - 1 : wider[n] = <<part(n)>>
      /\ wider[more] = <<last>>
      /\ \A n \in Nat : n <= filled => wider[n] = content[n]
  <2>1. \A n \in first .. more - 1 : wider[n] = <<part(n)>>
    <3> SUFFICES ASSUME NEW n \in first .. more - 1 PROVE wider[n] = <<part(n)>>
      OBVIOUS
    <3>1. n # filled
      BY <1>1
    <3>2. wider[n] = Append(<<>>, part(n))
      BY <3>1 DEF AddedPieces
    <3> QED
      BY <3>2
  <2>2. \A n \in Nat : n <= filled => n < first
    BY <1>1
  <2> QED
    BY <2>1, <2>2 DEF AddedPieces
<1> HIDE DEF part, last
<1>6. /\ \A n \in first .. more - 1 : Len(wider[n]) = 1 /\ Head(wider[n]) = part(n)
      /\ Len(wider[more]) = 1 /\ Head(wider[more]) = last
  <2>1. \A i : Len(<<i>>) = 1 /\ Head(<<i>>) = i
    OBVIOUS
  <2> QED
    BY <1>5, <2>1
<1>7. /\ t[filled] = total[filled] /\ total[filled] \in Seq(MessageIds)
      /\ \A n \in filled .. more - 1 : t[n] = total[filled]
      /\ t[more] = Append(total[filled], m)
  <2>1. filled < more /\ filled <= filled
    BY <1>1
  <2>2. t[filled] = total[filled]
    BY <1>3, <2>1 DEF Totals
  <2>3. \A n \in filled .. more - 1 : n \in Nat /\ n < more /\ (n = filled \/ n > filled)
    BY <1>1
  <2>4. \A n \in filled .. more - 1 : t[n] = total[filled]
    BY <1>3, <2>2, <2>3 DEF Totals
  <2> QED
    BY <1>2, <1>3, <2>2, <2>4 DEF Totals
<1>8. ASSUME NEW n \in first .. more - 1 PROVE Framed(wider, more, t, n)
  <2>1. n \in Nat /\ n \in filled .. more - 1 /\ n - 1 \in filled .. more - 1
    BY <1>8, <1>1
  <2>2. Len(wider[n]) = 1 /\ Head(wider[n]) = part(n) /\ part(n) \in Items
        /\ part(n).frag = "part" /\ part(n).msg = m /\ part(n).begins = (n = first)
        /\ wider[n] = <<part(n)>>
    BY <1>4, <1>5, <1>6, <1>8, <2>1
  <2>3. Ends(wider[n]) = <<>>
    BY <2>2, EndsOfOne
  <2>4. t[n] = t[n - 1] \o Ends(wider[n])
    BY <1>7, <2>1, <2>3, ConcatEmptySeq
  <2>5. ASSUME n = first PROVE Continued(wider, more, t, n)
    <3> DEFINE k == more - first
    <3>1. k \in 1 .. History - 1 /\ n + k = more /\ n + k <= more
      BY <1>0, <1>1, <2>5
    <3>2. Begins(wider[n + k], "last") /\ Head(wider[n + k]).msg = Head(wider[n]).msg
      BY <1>4, <1>6, <2>2, <3>1 DEF Begins
    <3>3. \A j \in 1 .. k - 1 : n + j \in first .. more - 1 /\ n + j \in Nat
      BY <1>1, <2>5, <3>1
    <3>4. \A j \in 1 .. k - 1 : Begins(wider[n + j], "part")
      BY <1>4, <1>6, <3>3 DEF Begins
    <3>5. \A j \in 0 .. k - 1 : n + j \in filled .. more - 1
      BY <1>1, <2>5, <3>1
    <3>6. \A j \in 0 .. k - 1 : t[n + j] = t[n - 1]
      BY <1>7, <2>1, <3>5
    <3> HIDE DEF k
    <3> QED
      BY <3>1, <3>2, <3>4, <3>6 DEF Continued
  <2>6. \A i \in 2 .. Len(wider[n]) : wider[n][i].frag = "whole"
    BY <2>2
  <2> QED
    BY <2>2, <2>4, <2>5, <2>6 DEF Framed
<1>9. Framed(wider, more, t, more)
  <2>1. Ends(wider[more]) = <<m>>
    BY <1>4, <1>5, EndsOfOne
  <2>2. more - 1 \in filled .. more - 1
    BY <1>1
  <2>3. t[more] = t[more - 1] \o Ends(wider[more])
    BY <1>7, <2>1, <2>2, AppendIsConcat
  <2>4. Begins(wider[more], "last") /\ ~ Begins(wider[more], "part")
    BY <1>4, <1>6 DEF Begins
  <2>5. \A i \in 2 .. Len(wider[more]) : wider[more][i].frag = "whole"
    BY <1>6
  <2> QED
    BY <2>3, <2>4, <2>5 DEF Framed
<1>10. ASSUME NEW n \in SEQ_NUM_SIZE .. filled PROVE Framed(wider, more, t, n)
  <2>1. \A i \in SEQ_NUM_SIZE .. filled : i \in Nat /\ wider[i] = content[i]
    BY <1>0, <1>5
  <2>2. \A i \in SEQ_NUM_SIZE .. filled : SameHead(wider[i], content[i])
    BY <2>1 DEF SameHead
  <2>3. n < more /\ wider[n] = content[n]
    BY <1>0, <1>1, <2>1
  <2>4. Framed(content, filled, total, n)
    BY <1>2
  <2> QED
    BY <1>1, <1>3, <1>10, <2>2, <2>3, <2>4, FramedAgain
<1>11. \A n \in SEQ_NUM_SIZE .. more : n \in SEQ_NUM_SIZE .. filled \/ n \in first .. more - 1 \/ n = more
  BY <1>0, <1>1
<1>12. \A n \in SEQ_NUM_SIZE .. more : Framed(wider, more, t, n)
  BY <1>8, <1>9, <1>10, <1>11
<1>13. \A n \in SEQ_NUM_MAX .. more - 1 : AtStart(wider, n) => Starts(wider[n + 1])
  <2> SUFFICES ASSUME NEW n \in SEQ_NUM_MAX .. more - 1, AtStart(wider, n)
               PROVE  Starts(wider[n + 1])
    OBVIOUS
  <2>1. n \in Nat /\ n + 1 \in Nat
    BY <1>0
  <2>2. CASE n < filled
    <3>1. n \in SEQ_NUM_MAX .. filled - 1 /\ n <= filled /\ n + 1 <= filled
      BY <1>0, <2>2
    <3>2. wider[n] = content[n] /\ wider[n + 1] = content[n + 1]
      BY <1>5, <2>1, <3>1
    <3>3. AtStart(content, n)
      BY <3>2 DEF AtStart
    <3> QED
      BY <1>2, <3>1, <3>2, <3>3
  <2>3. CASE n = filled
    <3>1. first \in first .. more - 1 /\ first \in Nat /\ n + 1 = first
      BY <1>1, <2>3
    <3>2. Head(wider[first]) = part(first) /\ part(first).frag = "part" /\ part(first).begins
      BY <1>4, <1>6, <3>1
    <3> HIDE DEF first
    <3> QED
      BY <3>1, <3>2 DEF Starts, Begins
  <2>4. CASE n > filled
    <3>1. n \in first .. more - 1 /\ n # SEQ_NUM_MAX
      BY <1>0, <2>4
    <3>2. Begins(wider[n], "part")
      BY <1>4, <1>6, <2>1, <3>1 DEF Begins
    <3> QED
      BY <3>1, <3>2 DEF AtStart
  <2>5. n < filled \/ n = filled \/ n > filled
    BY <2>1
  <2> QED
    BY <2>2, <2>3, <2>4, <2>5
<1>14. t \in [Nat -> Seq(MessageIds)]
  BY <1>3 DEF Totals
<1> QED
  BY <1>12, <1>13, <1>14 DEF Story, t

(* What is read of a slot.                                                 *)
LEMMA ReadItemsType ==
  ASSUME NEW items \in Seq(Items)
  PROVE  /\ ReadItems(items) \in Seq(Readable)
         /\ (\A i \in 1 .. Len(items) : items[i].frag = "whole") => ReadItems(items) = Said(items)
<1> DEFINE read(k) == IF items[k].frag = "whole" THEN items[k].msg ELSE Garbage
<1>1. /\ Len(items) \in Nat /\ DOMAIN items = 1 .. Len(items)
      /\ \A k \in 1 .. Len(items) : items[k].msg \in MessageIds
  BY ItemsType
<1>2. \A k \in 1 .. Len(items) : read(k) \in Readable
  BY <1>1 DEF Readable
<1>3. ReadItems(items) = [k \in 1 .. Len(items) |-> read(k)]
  BY <1>1 DEF ReadItems
<1>4. ASSUME \A i \in 1 .. Len(items) : items[i].frag = "whole"
      PROVE  ReadItems(items) = Said(items)
  BY <1>1, <1>4 DEF ReadItems, Said
<1> HIDE DEF read
<1>5. ReadItems(items) \in [1 .. Len(items) -> Readable]
  BY <1>2, <1>3
<1> QED
  BY <1>1, <1>4, <1>5, MappedSeq

LEMMA SaidSplit ==
  ASSUME NEW items \in Seq(Items), items # <<>>
  PROVE  /\ Head(items) = items[1] /\ Head(items).msg \in MessageIds
         /\ Tail(items) \in Seq(Items) /\ Len(items) \in Nat \ {0}
         /\ Len(Tail(items)) = Len(items) - 1
         /\ \A i \in 1 .. Len(Tail(items)) : Tail(items)[i] = items[i + 1]
         /\ Said(items) = <<Head(items).msg>> \o Said(Tail(items))
<1> DEFINE rest == Tail(items)
           s == <<Head(items).msg>>
           u == Said(rest)
           t == Said(items)
<1>1. /\ rest \in Seq(Items) /\ Len(rest) = Len(items) - 1
      /\ \A i \in 1 .. Len(rest) : rest[i] = items[i + 1]
  BY HeadTailProperties
<1>2. Len(items) \in Nat \ {0} /\ Head(items) = items[1]
  BY EmptySeq
<1>3. Head(items).msg \in MessageIds
  <2>1. 1 \in 1 .. Len(items)
    BY <1>2
  <2> QED
    BY <1>2, <2>1, ItemsType
<1> HIDE DEF rest
<1>4. /\ t \in Seq(MessageIds) /\ Len(t) = Len(items)
      /\ \A k \in 1 .. Len(items) : t[k] = items[k].msg
  BY SaidType
<1>5. /\ u \in Seq(MessageIds) /\ Len(u) = Len(rest)
      /\ \A k \in 1 .. Len(rest) : u[k] = rest[k].msg
  BY <1>1, SaidType
<1>6. s \in Seq(MessageIds) /\ Len(s) = 1 /\ s[1] = Head(items).msg
  BY <1>3
<1> HIDE DEF s, t, u
<1>7. /\ s \o u \in Seq(MessageIds) /\ Len(s \o u) = Len(items)
      /\ \A i \in 1 .. 1 + Len(rest) : (s \o u)[i] = IF i <= 1 THEN s[i] ELSE u[i - 1]
  <2>1. /\ s \o u \in Seq(MessageIds) /\ Len(s \o u) = Len(s) + Len(u)
        /\ \A i \in 1 .. Len(s) + Len(u) : (s \o u)[i] = IF i <= Len(s) THEN s[i] ELSE u[i - Len(s)]
    <3>1. s \in Seq(MessageIds) /\ u \in Seq(MessageIds)
      BY <1>5, <1>6
    <3> QED
      BY <3>1, ConcatProperties
  <2> QED
    BY <1>1, <1>2, <1>5, <1>6, <2>1
<1>8. ASSUME NEW i \in 1 .. Len(t) PROVE t[i] = (s \o u)[i]
  <2>1. CASE i = 1
    BY <1>1, <1>2, <1>4, <1>6, <1>7, <2>1
  <2>2. CASE i # 1
    <3>1. i - 1 \in 1 .. Len(rest) /\ (i - 1) + 1 = i /\ i \in 1 .. 1 + Len(rest) /\ ~(i <= 1)
      BY <1>1, <1>2, <1>4, <2>2
    <3>2. u[i - 1] = items[i].msg
      BY <1>1, <1>5, <3>1
    <3> QED
      BY <1>4, <1>7, <3>1, <3>2
  <2> QED
    BY <2>1, <2>2
<1>9. t = s \o u
  BY <1>4, <1>7, <1>8, SeqEqual
<1> QED
  BY <1>1, <1>2, <1>3, <1>9 DEF rest, s, t, u

(* What is read between two numbers is what the channel held between them. *)
Told(read, h, h2, content, filled, total) ==
  /\ read \in Seq(Readable)
  /\ Story(content, filled, total) /\ AtStart(content, h) =>
       AtStart(content, h2) /\ total[h2] = total[h] \o read

LEMMA Joined ==
  \A a, b, c \in Seq(Readable) : (a \o b) \o c = a \o (b \o c)
  BY ConcatAssociative

LEMMA ToldOn ==
  ASSUME NEW content, NEW filled, NEW total, NEW h \in Nat, NEW h1, NEW h2,
         NEW read, NEW more,
         Told(read, h, h1, content, filled, total), Told(more, h1, h2, content, filled, total)
  PROVE  Told(read \o more, h, h2, content, filled, total)
<1>1. read \in Seq(Readable) /\ more \in Seq(Readable)
  BY DEF Told
<1>2. read \o more \in Seq(Readable)
  BY <1>1, ConcatProperties
<1>3. ASSUME Story(content, filled, total), AtStart(content, h)
      PROVE  AtStart(content, h2) /\ total[h2] = total[h] \o (read \o more)
  <2>1. AtStart(content, h1) /\ total[h1] = total[h] \o read
    BY <1>3 DEF Told
  <2>2. AtStart(content, h2) /\ total[h2] = total[h1] \o more
    BY <1>3, <2>1 DEF Told
  <2>3. total[h] \in Seq(MessageIds)
    BY <1>3 DEF Story
  <2>4. total[h] \in Seq(Readable)
    <3>1. MessageIds \subseteq Readable
      BY DEF Readable
    <3> QED
      BY <2>3, <3>1, SeqMonotonic
  <2>5. (total[h] \o read) \o more = total[h] \o (read \o more)
    BY <1>1, <2>4, Joined
  <2> QED
    BY <2>1, <2>2, <2>5
<1> QED
  BY <1>2, <1>3 DEF Told

LEMMA NothingTold ==
  ASSUME NEW content, NEW filled, NEW total, NEW h \in Nat
  PROVE  Told(<<>>, h, h, content, filled, total)
<1>1. <<>> \in Seq(Readable)
  BY EmptySeq
<1>2. ASSUME Story(content, filled, total) PROVE total[h] = total[h] \o <<>>
  <2>1. total[h] \in Seq(MessageIds)
    BY <1>2 DEF Story
  <2> QED
    BY <2>1, ConcatEmptySeq
<1> QED
  BY <1>1, <1>2 DEF Told

\* A slot of whole messages.
LEMMA WholeTells ==
  ASSUME NEW content, NEW filled \in Nat, NEW total, NEW h \in Nat,
         SEQ_NUM_MAX <= h, h + 1 <= filled, NEW items, items = content[h + 1],
         items \in Seq(Items), items # <<>>, Looks(items) = "whole"
  PROVE  Told(ReadItems(items), h, h + 1, content, filled, total)
<1>0. SEQ_NUM_SIZE \in Nat \ {0} /\ SEQ_NUM_MAX = SEQ_NUM_SIZE - 1
  BY Sizes
<1>1. ReadItems(items) \in Seq(Readable)
  BY ReadItemsType
<1>2. ASSUME Story(content, filled, total)
      PROVE  AtStart(content, h + 1) /\ total[h + 1] = total[h] \o ReadItems(items)
  <2>1. h + 1 \in SEQ_NUM_SIZE .. filled /\ (h + 1) - 1 = h
    BY <1>0
  <2>2. Framed(content, filled, total, h + 1)
    BY <1>2, <2>1 DEF Story
  <2>3. Begins(items, "whole")
    BY <2>2 DEF Framed, Looks, Begins
  <2>4. \A i \in 1 .. Len(items) : items[i].frag = "whole"
    <3>1. \A i \in 2 .. Len(items) : items[i].frag = "whole"
      BY <2>2 DEF Framed
    <3>2. items[1].frag = "whole" /\ Len(items) \in Nat
      BY <2>3, SaidSplit DEF Begins
    <3>3. \A i \in 1 .. Len(items) : i = 1 \/ i \in 2 .. Len(items)
      BY <3>2
    <3> QED
      BY <3>1, <3>2, <3>3
  <2>5. Len(items) \in 1 .. Len(items)
    BY SaidSplit
  <2>6. Ends(items) = ReadItems(items)
    <3>1. ReadItems(items) = Said(items)
      BY <2>4, ReadItemsType
    <3>2. items[Len(items)].frag # "part"
      BY <2>4, <2>5
    <3> QED
      BY <3>1, <3>2, EndsSaid
  <2>7. ~ Begins(items, "part")
    BY <2>3 DEF Begins
  <2> QED
    BY <2>1, <2>2, <2>6, <2>7 DEF Framed, AtStart
<1> QED
  BY <1>1, <1>2 DEF Told

-----------------------------------------------------------------------------
(* Reading.                                                                *)

LEMMA Ahead ==
  ASSUME NEW h \in Nat, NEW k \in 0 .. History
  PROVE  seq_num_add(Num(h), k) = Num(h + k) /\ Slot(seq_num_add(Num(h), k)) = Place(h + k)
<1>1. k \in Nat /\ k < SEQ_NUM_SIZE /\ h + k \in Nat
  BY Sizes
<1>2. seq_num_add(Num(h), k) = Num(h + k)
  BY <1>1, AddNum
<1> DEFINE x == h + k
<1>3. x \in Nat
  BY <1>1
<1> HIDE DEF x
<1>4. Slot(Num(x)) = Place(x)
  BY <1>3, SlotNum
<1> QED
  BY <1>2, <1>4 DEF x

(* The slots behind h hold a message in k fragments.                       *)
Fragmented(slots, h, k) ==
  /\ slots[Place(h + k)] # <<>> /\ Looks(slots[Place(h + k)]) = "last"
  /\ \A j \in 1 .. k - 1 : slots[Place(h + j)] # <<>> /\ Looks(slots[Place(h + j)]) = "part"

LEMMA LastFragmentFound ==
  ASSUME NEW slots, NEW h \in Nat
  PROVE  LET n == LastFragment(slots, Num(h)) IN
         /\ n \in 0 .. History
         /\ n # 0 => Fragmented(slots, h, n)
         /\ \A k \in 1 .. History : Fragmented(slots, h, k) => n # 0
<1> DEFINE at(k) == slots[Slot(seq_num_add(Num(h), k))]
           found == {k \in 1 .. History :
                       /\ at(k) # <<>> /\ Looks(at(k)) = "last"
                       /\ \A j \in 1 .. k - 1 : at(j) # <<>> /\ Looks(at(j)) = "part"}
           n == LastFragment(slots, Num(h))
<1>0. History \in Nat \ {0}
  BY Sizes
<1>1. n = IF found = {} THEN 0 ELSE CHOOSE k \in found : TRUE
  BY DEF LastFragment
<1>2. \A k \in 1 .. History : at(k) = slots[Place(h + k)]
  <2> SUFFICES ASSUME NEW k \in 1 .. History PROVE at(k) = slots[Place(h + k)]
    OBVIOUS
  <2>1. k \in 0 .. History
    BY <1>0
  <2> QED
    BY <2>1, Ahead
<1>3. \A k \in 1 .. History : k \in found <=> Fragmented(slots, h, k)
  <2> SUFFICES ASSUME NEW k \in 1 .. History PROVE k \in found <=> Fragmented(slots, h, k)
    OBVIOUS
  <2>1. \A j \in 1 .. k - 1 : at(j) = slots[Place(h + j)]
    <3>1. \A j \in 1 .. k - 1 : j \in 1 .. History
      BY <1>0
    <3> HIDE DEF at
    <3> QED
      BY <1>2, <3>1
  <2>2. at(k) = slots[Place(h + k)]
    BY <1>2
  <2> HIDE DEF at
  <2> QED
    BY <2>1, <2>2 DEF Fragmented
<1>4. found \subseteq 1 .. History
  OBVIOUS
<1> HIDE DEF found, n
<1>5. CASE found = {}
  BY <1>0, <1>1, <1>3, <1>5 DEF n
<1>6. CASE found # {}
  <2>1. n \in found
    BY <1>1, <1>6
  <2>2. n \in 1 .. History /\ n # 0 /\ n \in 0 .. History
    BY <1>0, <1>4, <2>1
  <2> QED
    BY <1>3, <2>1, <2>2 DEF n
<1> QED
  BY <1>5, <1>6

\* The pieces of a message, from its beginning on, and what ends behind it.
LEMMA PiecesTell ==
  ASSUME NEW content, NEW filled \in Nat, NEW sent \in Nat, sent <= filled, NEW total,
         NEW h \in Nat, NEW slots, NEW n \in 1 .. History,
         Stored(slots, h, sent, content), Fragmented(slots, h, n),
         slots[Place(h + 1)] # <<>>, Looks(slots[Place(h + 1)]) # "whole"
  PROVE  Told(<<PutTogether(Head(slots[Place(h + 1)]))>> \o ReadItems(Tail(slots[Place(h + n)])),
              h, h + n, content, filled, total)
<1> DEFINE first == content[h + 1]
           last == content[h + n]
           read == <<PutTogether(Head(first))>> \o ReadItems(Tail(last))
<1>0. /\ SEQ_NUM_SIZE \in Nat \ {0} /\ SEQ_NUM_MAX = SEQ_NUM_SIZE - 1 /\ History \in Nat
      /\ SEQ_NUM_MAX <= h /\ h \in SEQ_NUM_MAX .. h
  BY Sizes DEF Stored
<1>1. ASSUME NEW k \in 1 .. n, slots[Place(h + k)] # <<>>
      PROVE  /\ slots[Place(h + k)] = content[h + k] /\ content[h + k] \in Seq(Items)
             /\ content[h + k] # <<>> /\ h + k <= filled
  <2>1. h + k \in h + 1 .. h + History /\ h + k \in Nat
    BY <1>0
  <2>2. h + k <= sent /\ slots[Place(h + k)] = content[h + k]
    BY <1>1, <2>1 DEF Stored
  <2>3. slots[Place(h + k)] \in Seq(Items)
    <3> DEFINE x == h + k
    <3>1. x \in Nat
      BY <2>1
    <3> HIDE DEF x
    <3>2. Place(x) \in Slots
      BY <3>1, PlaceType
    <3> QED
      BY <3>2 DEF Stored, x
  <2> QED
    BY <1>1, <2>1, <2>2, <2>3
<1>2. /\ first = slots[Place(h + 1)] /\ first \in Seq(Items) /\ first # <<>> /\ h + 1 <= filled
      /\ Looks(first) # "whole"
  <2>1. 1 \in 1 .. n
    OBVIOUS
  <2> QED
    BY <1>1, <2>1
<1>3. /\ last = slots[Place(h + n)] /\ last \in Seq(Items) /\ last # <<>> /\ h + n <= filled
      /\ Looks(last) = "last"
  <2>1. n \in 1 .. n
    OBVIOUS
  <2> QED
    BY <1>1, <2>1 DEF Fragmented
<1>4. \A j \in 1 .. n - 1 : Looks(content[h + j]) = "part"
  <2>1. \A j \in 1 .. n - 1 : j \in 1 .. n
    BY <1>0
  <2> QED
    BY <1>1, <2>1 DEF Fragmented
<1>5. FragmentHeaders
  BY <1>2 DEF Looks
<1>6. read = <<PutTogether(Head(slots[Place(h + 1)]))>> \o ReadItems(Tail(slots[Place(h + n)]))
  BY <1>2, <1>3
<1>7. /\ PutTogether(Head(first)) \in Readable /\ ReadItems(Tail(last)) \in Seq(Readable)
      /\ Tail(last) \in Seq(Items)
  <2>1. Head(first).msg \in MessageIds /\ Tail(last) \in Seq(Items)
    BY <1>2, <1>3, SaidSplit
  <2>2. PutTogether(Head(first)) \in Readable
    BY <2>1 DEF PutTogether, Readable
  <2> QED
    BY <2>1, <2>2, ReadItemsType
<1>8. read \in Seq(Readable)
  <2>1. <<PutTogether(Head(first))>> \in Seq(Readable)
    BY <1>7
  <2> QED
    BY <1>7, <2>1, ConcatProperties
<1> HIDE DEF first, last
<1>9. ASSUME Story(content, filled, total), AtStart(content, h)
      PROVE  AtStart(content, h + n) /\ total[h + n] = total[h] \o read
  <2>1. Begins(first, "part") /\ Head(first).begins
    <3>1. h \in SEQ_NUM_MAX .. filled - 1
      BY <1>0, <1>2
    <3>2. Starts(first)
      BY <1>9, <3>1 DEF Story, first
    <3>3. ~ Begins(first, "whole")
      BY <1>2, <1>5 DEF Looks, Begins
    <3> QED
      BY <3>2, <3>3 DEF Starts
  <2>2. h + 1 \in SEQ_NUM_SIZE .. filled /\ h + n \in SEQ_NUM_SIZE .. filled /\ (h + 1) - 1 = h
    BY <1>0, <1>2, <1>3
  <2>3. Framed(content, filled, total, h + 1) /\ Framed(content, filled, total, h + n)
    BY <1>9, <2>2 DEF Story
  <2>4. PICK k \in 1 .. History - 1 :
          /\ (h + 1) + k <= filled /\ Begins(content[(h + 1) + k], "last")
          /\ Head(content[(h + 1) + k]).msg = Head(first).msg
          /\ \A j \in 1 .. k - 1 : Begins(content[(h + 1) + j], "part")
          /\ \A j \in 0 .. k - 1 : total[(h + 1) + j] = total[h]
    BY <2>1, <2>2, <2>3 DEF Framed, Continued, first
  <2>5. n # 1
    BY <1>2, <1>3, <1>5, <2>1 DEF Looks, Begins, first, last
  <2>6. n = k + 1
    <3>1. ASSUME n < k + 1 PROVE FALSE
      <4>1. n - 1 \in 1 .. k - 1 /\ (h + 1) + (n - 1) = h + n
        BY <2>5, <3>1
      <4>2. Begins(content[(h + 1) + (n - 1)], "part")
        BY <2>4, <4>1
      <4>3. Begins(last, "part")
        BY <4>1, <4>2 DEF last
      <4> QED
        BY <1>3, <1>5, <4>3 DEF Looks, Begins
    <3>2. ASSUME n > k + 1 PROVE FALSE
      <4>1. k + 1 \in 1 .. n - 1 /\ h + (k + 1) = (h + 1) + k
        BY <3>2
      <4>2. Looks(content[(h + 1) + k]) = "part"
        <5>1. Looks(content[h + (k + 1)]) = "part"
          BY <1>4, <4>1
        <5> QED
          BY <4>1, <5>1
      <4> QED
        BY <1>5, <2>4, <4>2 DEF Looks, Begins
    <3> QED
      BY <3>1, <3>2
  <2>7. (h + 1) + k = h + n /\ Head(last).msg = Head(first).msg /\ total[(h + n) - 1] = total[h]
    <3>1. (h + 1) + k = h + n /\ k - 1 \in 0 .. k - 1 /\ (h + 1) + (k - 1) = (h + n) - 1
      BY <2>6
    <3>2. total[(h + 1) + (k - 1)] = total[h]
      BY <2>4, <3>1
    <3>3. Head(content[(h + 1) + k]).msg = Head(first).msg
      BY <2>4
    <3> QED
      BY <3>1, <3>2, <3>3 DEF last
  <2>8. Begins(last, "last") /\ ~ Begins(last, "part")
    BY <1>3, <1>5 DEF Looks, Begins
  <2>9. \A i \in 2 .. Len(last) : last[i].frag = "whole"
    BY <2>3 DEF Framed, last
  <2>10. /\ Head(last) = last[1] /\ Len(last) \in Nat \ {0} /\ Len(Tail(last)) = Len(last) - 1
         /\ \A i \in 1 .. Len(Tail(last)) : Tail(last)[i] = last[i + 1]
         /\ Said(last) = <<Head(last).msg>> \o Said(Tail(last))
    BY <1>3, SaidSplit
  <2>11. \A i \in 1 .. Len(Tail(last)) : Tail(last)[i].frag = "whole"
    <3>1. \A i \in 1 .. Len(Tail(last)) : i + 1 \in 2 .. Len(last)
      BY <2>10
    <3> QED
      BY <2>9, <2>10, <3>1
  <2>12. ReadItems(Tail(last)) = Said(Tail(last))
    BY <1>7, <2>11, ReadItemsType
  <2>13. last[Len(last)].frag # "part"
    <3>1. Len(last) = 1 \/ Len(last) \in 2 .. Len(last)
      BY <2>10
    <3> QED
      BY <2>8, <2>9, <2>10, <3>1 DEF Begins
  <2>14. Ends(last) = Said(last)
    BY <1>3, <2>13, EndsSaid
  <2>15. PutTogether(Head(first)) = Head(first).msg
    BY <2>1 DEF PutTogether
  <2>16. read = Ends(last)
    BY <2>7, <2>10, <2>12, <2>14, <2>15
  <2>17. total[h + n] = total[h] \o Ends(last)
    BY <2>3, <2>7 DEF Framed, last
  <2>18. AtStart(content, h + n)
    BY <2>8 DEF AtStart, last
  <2> QED
    BY <2>16, <2>17, <2>18
<1>10. Told(read, h, h + n, content, filled, total)
  BY <1>8, <1>9 DEF Told
<1> QED
  BY <1>6, <1>10

(* Slots are read from the next one on, and emptied.                       *)
Emptied(slots, h, n) ==
  [i \in Slots |-> IF \E k \in 1 .. n : i = Place(h + k) THEN <<>> ELSE slots[i]]

LEMMA EmptiedPlaces ==
  ASSUME NEW h \in Nat, NEW n \in 1 .. History, NEW slots,
         NEW m \in h + n + 1 .. h + n + History
  PROVE  Emptied(slots, h, n)[Place(m)] = IF m <= h + History THEN slots[Place(m)] ELSE <<>>
<1>1. History \in Nat \ {0} /\ m \in Nat /\ Place(m) \in Slots
  BY Sizes, PlaceType
<1>2. CASE m <= h + History
  <2>1. ASSUME NEW k \in 1 .. n PROVE Place(m) # Place(h + k)
    <3> DEFINE x == h + k
    <3>1. x \in Nat /\ m - x < History /\ x - m < History /\ x # m
      BY <1>1, <1>2
    <3> HIDE DEF x
    <3>2. Place(m) # Place(x)
      BY <1>1, <3>1, PlaceApart
    <3> QED
      BY <3>2 DEF x
  <2> QED
    BY <1>1, <1>2, <2>1 DEF Emptied
<1>3. CASE ~(m <= h + History)
  <2> DEFINE k == m - History - h
             x == h + k
  <2>1. k \in 1 .. n /\ x \in Nat /\ m = x + History
    BY <1>1, <1>3
  <2> HIDE DEF k
  <2>2. Place(x) \in Slots
    BY <2>1, PlaceType
  <2>3. Emptied(slots, h, n)[Place(x)] = <<>>
    BY <2>1, <2>2 DEF Emptied
  <2> HIDE DEF x
  <2>4. Place(m) = Place(x)
    BY <2>1, PlaceAgain
  <2> QED
    BY <1>3, <2>3, <2>4
<1> QED
  BY <1>2, <1>3

LEMMA Moved ==
  ASSUME NEW h \in Nat, NEW n \in 1 .. History, NEW slots, NEW sent \in Nat, NEW content,
         Stored(slots, h, sent, content),
         \A k \in 1 .. n : slots[Place(h + k)] # <<>>
  PROVE  /\ h + n \in Nat
         /\ Stored(Emptied(slots, h, n), h + n, sent, content)
         /\ \A u \in Nat : Has(slots, h, u) => Has(Emptied(slots, h, n), h + n, u)
<1> DEFINE s2 == Emptied(slots, h, n)
           h2 == h + n
<1>1. /\ History \in Nat \ {0} /\ h2 \in Nat /\ h2 \in h + 1 .. h + History
      /\ SEQ_NUM_MAX \in Nat
  BY Sizes
<1>2. SEQ_NUM_MAX <= h /\ slots \in [Slots -> Seq(Items)]
      /\ \A m \in h + 1 .. h + History :
           slots[Place(m)] # <<>> => m <= sent /\ slots[Place(m)] = content[m]
  BY DEF Stored
<1>3. \A m \in h2 + 1 .. h2 + History :
         s2[Place(m)] = IF m <= h + History THEN slots[Place(m)] ELSE <<>>
  BY EmptiedPlaces
<1>4. SEQ_NUM_MAX <= h2 /\ h2 <= sent
  <2>1. slots[Place(h2)] # <<>>
    <3>1. n \in 1 .. n
      BY <1>1
    <3> QED
      BY <3>1
  <2>2. h2 <= sent
    BY <1>1, <1>2, <2>1
  <2>3. SEQ_NUM_MAX <= h
    BY <1>2
  <2> QED
    BY <1>1, <2>2, <2>3
<1>5. s2 \in [Slots -> Seq(Items)]
  <2>1. <<>> \in Seq(Items)
    OBVIOUS
  <2> QED
    BY <1>2, <2>1 DEF Emptied
<1> HIDE DEF s2
<1>6. \A m \in h2 + 1 .. h2 + History :
         s2[Place(m)] # <<>> => m <= sent /\ s2[Place(m)] = content[m]
  <2> SUFFICES ASSUME NEW m \in h2 + 1 .. h2 + History, s2[Place(m)] # <<>>
               PROVE  m <= sent /\ s2[Place(m)] = content[m]
    OBVIOUS
  <2>1. m <= h + History /\ s2[Place(m)] = slots[Place(m)]
    BY <1>3
  <2>2. m \in h + 1 .. h + History
    BY <1>1, <2>1
  <2> QED
    BY <1>2, <2>1, <2>2
<1>7. Stored(s2, h2, sent, content)
  BY <1>4, <1>5, <1>6 DEF Stored
<1>8. ASSUME NEW u \in Nat, Has(slots, h, u) PROVE Has(s2, h2, u)
  <2>1. CASE u <= h2
    BY <2>1 DEF Has
  <2>2. CASE ~(u <= h2)
    <3>1. ~(u <= h)
      BY <1>1, <2>2
    <3>2. u < h + History /\ \A k \in h + 1 .. u : slots[Place(k)] # <<>>
      BY <1>8, <3>1 DEF Has
    <3>3. ASSUME NEW k \in h2 + 1 .. u PROVE s2[Place(k)] # <<>>
      <4>1. k \in h2 + 1 .. h2 + History /\ k <= h + History /\ k \in h + 1 .. u
        BY <1>1, <3>2
      <4> QED
        BY <1>3, <3>2, <4>1
    <3>4. u < h2 + History
      BY <1>1, <3>2
    <3> QED
      BY <3>3, <3>4 DEF Has
  <2> QED
    BY <2>1, <2>2
<1> QED
  BY <1>1, <1>7, <1>8 DEF s2

(* What a reading gives: the whole messages of a slot, or a message in n   *)
(* pieces and those behind it.                                             *)
Took(r, h, n) ==
  LET items == r.in[Place(h + 1)] IN
  \/ /\ n = 1 /\ Looks(items) = "whole"
     /\ ReadNext(r).read = r.read \o ReadItems(items)
  \/ /\ Looks(items) # "whole" /\ Fragmented(r.in, h, n)
     /\ ReadNext(r).read = r.read \o <<PutTogether(Head(items))>>
                                  \o ReadItems(Tail(r.in[Place(h + n)]))

LEMMA TookTells ==
  ASSUME NEW r, NEW h \in Nat, NEW n \in 1 .. History, NEW sent \in Nat, NEW content,
         NEW filled \in Nat, sent <= filled, NEW total, NEW from \in Nat,
         Stored(r.in, h, sent, content), Took(r, h, n),
         \A k \in 1 .. n : r.in[Place(h + k)] # <<>>,
         Told(r.read, from, h, content, filled, total)
  PROVE  Told(ReadNext(r).read, from, h + n, content, filled, total)
<1> DEFINE items == r.in[Place(h + 1)]
           rest == r.in[Place(h + n)]
<1>0. History \in Nat \ {0} /\ 1 \in 1 .. n /\ n \in 1 .. n /\ n \in Nat
  BY Sizes
<1>1. /\ items # <<>> /\ items \in Seq(Items) /\ items = content[h + 1] /\ h + 1 <= sent
      /\ SEQ_NUM_MAX <= h
  <2>1. h + 1 \in h + 1 .. h + History
    BY <1>0
  <2>2. Place(h + 1) \in Slots
    <3> DEFINE x == h + 1
    <3>1. x \in Nat
      OBVIOUS
    <3> HIDE DEF x
    <3>2. Place(x) \in Slots
      BY <3>1, PlaceType
    <3> QED
      BY <3>2 DEF x
  <2> QED
    BY <1>0, <2>1, <2>2 DEF Stored
<1>2. CASE /\ n = 1 /\ Looks(items) = "whole"
           /\ ReadNext(r).read = r.read \o ReadItems(items)
  <2> HIDE DEF items
  <2>1. h + 1 <= filled
    BY <1>1
  <2>2. Told(ReadItems(items), h, h + 1, content, filled, total)
    BY <1>1, <1>2, <2>1, WholeTells
  <2> DEFINE more == ReadItems(items)
  <2> HIDE DEF more
  <2>3. Told(r.read \o more, from, h + 1, content, filled, total)
    BY <2>2, ToldOn DEF more
  <2> QED
    BY <1>2, <2>3 DEF more
<1>3. CASE /\ Looks(items) # "whole" /\ Fragmented(r.in, h, n)
           /\ ReadNext(r).read = r.read \o <<PutTogether(Head(items))>> \o ReadItems(Tail(rest))
  <2> DEFINE piece == <<PutTogether(Head(items))>>
             behind == ReadItems(Tail(rest))
             more == piece \o behind
  <2>1. Told(more, h, h + n, content, filled, total)
    BY <1>1, <1>3, PiecesTell
  <2>2. piece \in Seq(Readable) /\ behind \in Seq(Readable) /\ r.read \in Seq(Readable)
    <3>1. Head(items).msg \in MessageIds
      BY <1>1, SaidSplit
    <3>2. PutTogether(Head(items)) \in Readable
      BY <3>1 DEF PutTogether, Readable
    <3>3. rest # <<>> /\ rest \in Seq(Items)
      <4>1. h + n \in Nat
        BY <1>0
      <4>2. Place(h + n) \in Slots
        <5> DEFINE x == h + n
        <5>1. x \in Nat
          BY <4>1
        <5> HIDE DEF x
        <5>2. Place(x) \in Slots
          BY <5>1, PlaceType
        <5> QED
          BY <5>2 DEF x
      <4> QED
        BY <1>0, <4>2 DEF Stored
    <3>4. Tail(rest) \in Seq(Items)
      BY <3>3, SaidSplit
    <3>5. behind \in Seq(Readable)
      BY <3>4, ReadItemsType
    <3> QED
      BY <3>2, <3>5 DEF Told
  <2> HIDE DEF piece, behind, items, rest
  <2>3. (r.read \o piece) \o behind = r.read \o more
    BY <2>2, Joined
  <2>4. ReadNext(r).read = r.read \o more
    BY <1>3, <2>3 DEF piece, behind
  <2> HIDE DEF more
  <2>5. Told(r.read \o more, from, h + n, content, filled, total)
    BY <2>1, ToldOn
  <2> QED
    BY <2>4, <2>5
<1> QED
  BY <1>2, <1>3 DEF Took

(* Reading goes on or waits.                                               *)
LEMMA ReadNextStep ==
  ASSUME NEW r, NEW h \in Nat, r.handled = Num(h)
  PROVE  \/ Waiting(r.in, h) /\ ReadNext(r) = r
         \/ \E n \in 1 .. History :
              /\ ReadNext(r).handled = Num(h + n)
              /\ ReadNext(r).in = Emptied(r.in, h, n)
              /\ \A k \in 1 .. n : r.in[Place(h + k)] # <<>>
              /\ Took(r, h, n)
<1> DEFINE next == seq_num_add(r.handled, 1)
           items == r.in[Slot(next)]
           n == LastFragment(r.in, r.handled)
           last == seq_num_add(r.handled, n)
           pieces == r.read \o <<PutTogether(Head(items))>>
                            \o ReadItems(Tail(r.in[Slot(last)]))
<1>0. History \in Nat \ {0} /\ 1 \in 0 .. History /\ 1 \in 1 .. History
  BY Sizes
<1>1. next = Num(h + 1) /\ items = r.in[Place(h + 1)]
  BY <1>0, Ahead
<1>2. n \in 0 .. History /\ (n # 0 => Fragmented(r.in, h, n))
  BY LastFragmentFound
<1>3. \A m \in 1 .. History : Cleared(r, m) = Emptied(r.in, h, m)
  <2> SUFFICES ASSUME NEW m \in 1 .. History PROVE Cleared(r, m) = Emptied(r.in, h, m)
    OBVIOUS
  <2>1. \A k \in 1 .. m : Slot(seq_num_add(r.handled, k)) = Place(h + k)
    <3> SUFFICES ASSUME NEW k \in 1 .. m PROVE Slot(seq_num_add(r.handled, k)) = Place(h + k)
      OBVIOUS
    <3>1. k \in 0 .. History
      BY <1>0
    <3> QED
      BY <3>1, Ahead
  <2> QED
    BY <2>1 DEF Cleared, Emptied
<1>4. ReadNext(r) =
        IF items = <<>> THEN r
        ELSE IF Looks(items) = "whole"
        THEN [in |-> Cleared(r, 1), handled |-> next,
              read |-> r.read \o ReadItems(items)]
        ELSE IF n = 0 THEN r
        ELSE [in |-> Cleared(r, n), handled |-> last, read |-> pieces]
  BY DEF ReadNext
<1>5. n = LastFragment(r.in, Num(h))
  OBVIOUS
<1>6. \A k \in 0 .. History : seq_num_add(r.handled, k) = Num(h + k)
  BY Ahead
<1> HIDE DEF next, items, n, pieces
<1>7. CASE items = <<>>
  BY <1>1, <1>4, <1>7 DEF Waiting
<1>8. CASE items # <<>> /\ Looks(items) = "whole"
  <2>1. ReadNext(r).handled = Num(h + 1) /\ ReadNext(r).in = Emptied(r.in, h, 1)
    BY <1>0, <1>1, <1>3, <1>4, <1>8
  <2>2. \A k \in 1 .. 1 : r.in[Place(h + k)] # <<>>
    BY <1>1, <1>8
  <2>3. Took(r, h, 1)
    <3>1. ReadNext(r).read = r.read \o ReadItems(items)
      BY <1>4, <1>8
    <3>2. ReadNext(r).read = r.read \o ReadItems(r.in[Place(h + 1)])
      BY <1>1, <3>1
    <3>3. Looks(r.in[Place(h + 1)]) = "whole"
      BY <1>1, <1>8
    <3> QED
      BY <3>2, <3>3 DEF Took
  <2> QED
    BY <1>0, <2>1, <2>2, <2>3
<1>9. CASE items # <<>> /\ Looks(items) # "whole" /\ n = 0
  BY <1>1, <1>4, <1>5, <1>9 DEF Waiting
<1>10. CASE items # <<>> /\ Looks(items) # "whole" /\ n # 0
  <2>1. n \in 1 .. History /\ n \in 0 .. History
    BY <1>2, <1>10
  <2>2. ReadNext(r).handled = Num(h + n) /\ ReadNext(r).in = Emptied(r.in, h, n)
    BY <1>3, <1>4, <1>6, <1>10, <2>1
  <2>3. \A k \in 1 .. n : r.in[Place(h + k)] # <<>>
    <3>1. \A k \in 1 .. n : k = n \/ k \in 1 .. n - 1
      BY <2>1
    <3> QED
      BY <1>2, <1>10, <3>1 DEF Fragmented
  <2>4. Slot(last) = Place(h + n)
    BY <2>1, Ahead
  <2>5. Took(r, h, n)
    <3>1. ReadNext(r).read = r.read \o <<PutTogether(Head(items))>> \o ReadItems(Tail(r.in[Slot(last)]))
      <4>1. ReadNext(r).read = pieces
        BY <1>4, <1>10
      <4> QED
        BY <4>1 DEF pieces
    <3>2. ReadNext(r).read = r.read \o <<PutTogether(Head(r.in[Place(h + 1)]))>>
                                    \o ReadItems(Tail(r.in[Place(h + n)]))
      BY <1>1, <2>4, <3>1
    <3>3. Looks(r.in[Place(h + 1)]) # "whole" /\ Fragmented(r.in, h, n)
      BY <1>1, <1>2, <1>10
    <3> QED
      BY <3>2, <3>3 DEF Took
  <2> QED
    BY <2>1, <2>2, <2>3, <2>5
<1> QED
  BY <1>7, <1>8, <1>9, <1>10

(* Reading step by step from `first` on.                                   *)
Readings(n, first, g) ==
  g = [k \in 0 .. n |-> IF k = 0 THEN first ELSE ReadNext(g[k - 1])]

LEMMA ReadingsExist ==
  ASSUME NEW first, NEW n \in Nat
  PROVE  \E g : Readings(n, first, g)
<1> DEFINE T == {m \in Nat : ~ \E g : Readings(m, first, g)}
<1> SUFFICES ASSUME T # {} PROVE FALSE
  OBVIOUS
<1>1. PICK x \in T : \A y \in T : x <= y
  <2>1. T \in SUBSET Nat
    OBVIOUS
  <2> HIDE DEF T
  <2> QED
    BY <2>1, Least
<1>2. CASE x = 0
  <2> DEFINE g == [k \in 0 .. 0 |-> first]
  <2>1. Readings(0, first, g)
    <3>1. \A k \in 0 .. 0 : k = 0
      OBVIOUS
    <3> QED
      BY <3>1 DEF Readings
  <2> QED
    BY <1>2, <2>1
<1>3. CASE x # 0
  <2>1. x \in Nat /\ x - 1 \in Nat /\ x - 1 \notin T
    BY <1>1, <1>3
  <2>2. PICK g : Readings(x - 1, first, g)
    BY <2>1
  <2>3. /\ \A k \in 0 .. x : k = 0 \/ k - 1 \in 0 .. x - 1
        /\ \A k \in 0 .. x - 1 : k = 0 \/ k - 1 \in 0 .. x - 1
        /\ 0 \in 0 .. x - 1
    BY <2>1, <1>3
  <2>4. g[0] = first /\ \A k \in 0 .. x - 1 : k # 0 => g[k] = ReadNext(g[k - 1])
    BY <2>2, <2>3 DEF Readings
  <2> DEFINE h == [k \in 0 .. x |-> IF k = 0 THEN first ELSE ReadNext(g[k - 1])]
  <2>5. \A k \in 0 .. x - 1 : h[k] = g[k]
    <3> SUFFICES ASSUME NEW k \in 0 .. x - 1 PROVE h[k] = g[k]
      OBVIOUS
    <3>1. k \in 0 .. x
      BY <2>1
    <3>2. h[k] = IF k = 0 THEN first ELSE ReadNext(g[k - 1])
      BY <3>1
    <3> HIDE DEF h
    <3> QED
      BY <2>4, <3>2
  <2>6. \A k \in 0 .. x : k # 0 => h[k - 1] = g[k - 1]
    <3> HIDE DEF h
    <3> QED
      BY <2>3, <2>5
  <2>7. Readings(x, first, h)
    <3>1. h = [k \in 0 .. x |-> IF k = 0 THEN first ELSE ReadNext(h[k - 1])]
      BY <2>6
    <3> HIDE DEF h
    <3> QED
      BY <3>1 DEF Readings
  <2> QED
    BY <2>7
<1> QED
  BY <1>2, <1>3

LEMMA ReadAllIs ==
  ASSUME NEW first
  PROVE  \E g : Readings(History, first, g) /\ ReadAll(first) = g[History]
<1> DEFINE f[k \in 0 .. History] == IF k = 0 THEN first ELSE ReadNext(f[k - 1])
<1>1. ReadAll(first) = f[History]
  BY DEF ReadAll
<1>2. f = CHOOSE h : h = [k \in 0 .. History |-> IF k = 0 THEN first ELSE ReadNext(h[k - 1])]
  BY DEF f
<1> HIDE DEF f
<1>3. \E h : h = [k \in 0 .. History |-> IF k = 0 THEN first ELSE ReadNext(h[k - 1])]
  <2>1. History \in Nat
    BY Sizes
  <2> QED
    BY <2>1, ReadingsExist DEF Readings
<1>4. Readings(History, first, f)
  BY <1>2, <1>3 DEF Readings
<1> QED
  BY <1>1, <1>4

(* After k readings at least k slots are read, or the reader waits.        *)
ReadSoFar(r, first, h, k, sent, content, from, filled, total) ==
  \E h2 \in Nat :
    /\ h <= h2 /\ r.handled = Num(h2)
    /\ Stored(r.in, h2, sent, content)
    /\ Told(r.read, from, h2, content, filled, total)
    /\ \A u \in Nat : Has(first.in, h, u) => Has(r.in, h2, u)
    /\ \/ Waiting(r.in, h2)
       \/ /\ h + k <= h2
          /\ \A m \in h2 + 1 .. h2 + History : r.in[Place(m)] # <<>> => m <= h + History

LEMMA ReadSoFarStep ==
  ASSUME NEW r, NEW first, NEW h \in Nat, NEW k \in Nat, NEW sent \in Nat, NEW content,
         NEW from \in Nat, NEW filled \in Nat, sent <= filled, NEW total,
         ReadSoFar(r, first, h, k, sent, content, from, filled, total)
  PROVE  ReadSoFar(ReadNext(r), first, h, k + 1, sent, content, from, filled, total)
<1>1. PICK h2 \in Nat :
        /\ h <= h2 /\ r.handled = Num(h2)
        /\ Stored(r.in, h2, sent, content)
        /\ Told(r.read, from, h2, content, filled, total)
        /\ \A u \in Nat : Has(first.in, h, u) => Has(r.in, h2, u)
        /\ \/ Waiting(r.in, h2)
           \/ /\ h + k <= h2
              /\ \A m \in h2 + 1 .. h2 + History : r.in[Place(m)] # <<>> => m <= h + History
  BY DEF ReadSoFar
<1>2. CASE Waiting(r.in, h2) /\ ReadNext(r) = r
  BY <1>1, <1>2 DEF ReadSoFar
<1>3. ASSUME NEW n \in 1 .. History,
             /\ ReadNext(r).handled = Num(h2 + n)
             /\ ReadNext(r).in = Emptied(r.in, h2, n)
             /\ \A j \in 1 .. n : r.in[Place(h2 + j)] # <<>>
             /\ Took(r, h2, n)
      PROVE  ReadSoFar(ReadNext(r), first, h, k + 1, sent, content, from, filled, total)
  <2> DEFINE h3 == h2 + n
             s2 == Emptied(r.in, h2, n)
  <2>1. /\ h3 \in Nat /\ Stored(s2, h3, sent, content)
        /\ \A u \in Nat : Has(r.in, h2, u) => Has(s2, h3, u)
    BY <1>1, <1>3, Moved
  <2>2. h <= h3
    BY <1>1
  <2>5. Told(ReadNext(r).read, from, h3, content, filled, total)
    BY <1>1, <1>3, TookTells
  <2>3. CASE Waiting(r.in, h2)
    <3>1. PICK j \in 1 .. n : j = 1
      BY Sizes
    <3>2. r.in[Place(h2 + 1)] # <<>>
      BY <1>3, <3>1
    <3>3. Looks(r.in[Place(h2 + 1)]) # "whole" /\ LastFragment(r.in, Num(h2)) = 0
      BY <2>3, <3>2 DEF Waiting
    <3>4. ReadNext(r) = r
      <4>1. 1 \in 0 .. History
        BY Sizes
      <4>2. r.in[Slot(seq_num_add(r.handled, 1))] = r.in[Place(h2 + 1)]
        BY <1>1, <4>1, Ahead
      <4> QED
        BY <1>1, <3>2, <3>3, <4>2 DEF ReadNext
    <3> QED
      BY <1>2, <2>3, <3>4
  <2>4. CASE /\ h + k <= h2
             /\ \A m \in h2 + 1 .. h2 + History : r.in[Place(m)] # <<>> => m <= h + History
    <3>1. h + (k + 1) <= h3
      BY <1>3, <2>4
    <3>2. ASSUME NEW m \in h3 + 1 .. h3 + History, s2[Place(m)] # <<>>
          PROVE  m <= h + History
      <4>1. s2[Place(m)] = IF m <= h2 + History THEN r.in[Place(m)] ELSE <<>>
        BY <1>1, EmptiedPlaces
      <4>2. m <= h2 + History /\ r.in[Place(m)] # <<>>
        BY <3>2, <4>1
      <4>3. m \in h2 + 1 .. h2 + History
        BY <1>3, <4>2, Sizes
      <4> QED
        BY <2>4, <4>2, <4>3
    <3> HIDE DEF h3, s2
    <3>3. ReadNext(r).handled = Num(h3) /\ ReadNext(r).in = s2
      BY <1>3 DEF h3, s2
    <3> QED
      BY <1>1, <2>1, <2>2, <2>5, <3>1, <3>2, <3>3 DEF ReadSoFar
  <2> QED
    BY <1>1, <2>3, <2>4
<1> QED
  BY <1>1, <1>2, <1>3, ReadNextStep

(* Whatever can be read is read: behind that the reader waits.             *)
LEMMA ReadAllStep ==
  ASSUME NEW first, NEW h \in Nat, NEW sent \in Nat, NEW content,
         NEW from \in Nat, NEW filled \in Nat, sent <= filled, NEW total,
         first.handled = Num(h), Stored(first.in, h, sent, content),
         Told(first.read, from, h, content, filled, total)
  PROVE  \E h2 \in Nat :
           /\ ReadAll(first).handled = Num(h2)
           /\ Stored(ReadAll(first).in, h2, sent, content)
           /\ Waiting(ReadAll(first).in, h2)
           /\ Told(ReadAll(first).read, from, h2, content, filled, total)
           /\ \A u \in Nat : Has(first.in, h, u) => Has(ReadAll(first).in, h2, u)
<1>1. PICK g : Readings(History, first, g) /\ ReadAll(first) = g[History]
  BY ReadAllIs
<1>0. History \in Nat \ {0}
  BY Sizes
<1>2. g[0] = first /\ \A k \in 0 .. History : k # 0 => g[k] = ReadNext(g[k - 1])
  <2>1. 0 \in 0 .. History
    BY <1>0
  <2> QED
    BY <1>1, <2>1 DEF Readings
<1> DEFINE T == {k \in 0 .. History : ~ ReadSoFar(g[k], first, h, k, sent, content, from, filled, total)}
<1>3. T = {}
  <2> SUFFICES ASSUME T # {} PROVE FALSE
    OBVIOUS
  <2>1. PICK x \in T : \A y \in T : x <= y
    <3>1. T \in SUBSET Nat
      BY <1>0
    <3> HIDE DEF T
    <3> QED
      BY <3>1, Least
  <2>2. x \in 0 .. History /\ ~ ReadSoFar(g[x], first, h, x, sent, content, from, filled, total)
    OBVIOUS
  <2>3. x # 0
    <3>1. h <= h /\ h + 0 <= h /\ \A m \in h + 1 .. h + History : m <= h + History
      BY <1>0
    <3>2. ReadSoFar(g[0], first, h, 0, sent, content, from, filled, total)
      BY <1>2, <3>1 DEF ReadSoFar
    <3> QED
      BY <2>2, <3>2
  <2>4. x - 1 \in Nat /\ x - 1 \in 0 .. History /\ x - 1 \notin T /\ (x - 1) + 1 = x
    BY <1>0, <2>1, <2>2, <2>3
  <2>5. ReadSoFar(g[x - 1], first, h, x - 1, sent, content, from, filled, total)
    BY <2>4
  <2>6. ReadSoFar(ReadNext(g[x - 1]), first, h, (x - 1) + 1, sent, content, from, filled, total)
    BY <2>4, <2>5, ReadSoFarStep
  <2> QED
    BY <1>2, <2>2, <2>3, <2>4, <2>6
<1>4. ReadSoFar(g[History], first, h, History, sent, content, from, filled, total)
  BY <1>0, <1>3
<1> DEFINE r == ReadAll(first)
<1>5. PICK h2 \in Nat :
        /\ h <= h2 /\ r.handled = Num(h2)
        /\ Stored(r.in, h2, sent, content)
        /\ Told(r.read, from, h2, content, filled, total)
        /\ \A u \in Nat : Has(first.in, h, u) => Has(r.in, h2, u)
        /\ \/ Waiting(r.in, h2)
           \/ /\ h + History <= h2
              /\ \A m \in h2 + 1 .. h2 + History : r.in[Place(m)] # <<>> => m <= h + History
  BY <1>1, <1>4 DEF ReadSoFar
<1>6. Waiting(r.in, h2)
  <2>1. CASE /\ h + History <= h2
             /\ \A m \in h2 + 1 .. h2 + History : r.in[Place(m)] # <<>> => m <= h + History
    <3>1. h2 + 1 \in h2 + 1 .. h2 + History /\ ~(h2 + 1 <= h + History)
      BY <1>0, <2>1
    <3>2. r.in[Place(h2 + 1)] = <<>>
      BY <2>1, <3>1
    <3> QED
      BY <3>2 DEF Waiting
  <2> QED
    BY <1>5, <2>1
<1> QED
  BY <1>5, <1>6

-----------------------------------------------------------------------------
(* Receiving.                                                              *)

(* The reader after a step: h2 is as far as it has read.                   *)
Advanced(slots, h, h2, sent, content) ==
  /\ last_handled' = Num(h2)
  /\ Stored(in, h2, sent, content)'
  /\ Waiting(in, h2)'
  /\ \A u \in Nat : Has(slots, h, u) => Has(in, h2, u)'

(* What is read in its turn needs no slot: its slot is empty.              *)
LEMMA DirectlyRead ==
  ASSUME NEW h \in Nat, NEW sent \in Nat, NEW content, NEW slots,
         Stored(slots, h, sent, content), Waiting(slots, h),
         h + 1 <= sent, Looks(content[h + 1]) = "whole"
  PROVE  /\ Stored(slots, h + 1, sent, content)
         /\ \A u \in Nat : Has(slots, h, u) => Has(slots, h + 1, u)
<1>0. History \in Nat \ {0} /\ SEQ_NUM_MAX \in Nat
  BY Sizes
<1>1. SEQ_NUM_MAX <= h /\ slots \in [Slots -> Seq(Items)]
      /\ \A m \in h + 1 .. h + History :
           slots[Place(m)] # <<>> => m <= sent /\ slots[Place(m)] = content[m]
  BY DEF Stored
<1>2. slots[Place(h + 1)] = <<>>
  <2> SUFFICES ASSUME slots[Place(h + 1)] # <<>> PROVE FALSE
    OBVIOUS
  <2>1. h + 1 \in h + 1 .. h + History
    BY <1>0
  <2>2. slots[Place(h + 1)] = content[h + 1]
    BY <1>1, <2>1
  <2>3. Looks(slots[Place(h + 1)]) # "whole"
    BY DEF Waiting
  <2> QED
    BY <2>2, <2>3
<1> DEFINE x == h + 1
<1>3. x \in Nat
  OBVIOUS
<1>4. ASSUME NEW m \in x + 1 .. x + History, slots[Place(m)] # <<>>
      PROVE  m <= sent /\ slots[Place(m)] = content[m]
  <2>1. CASE m = x + History
    <3> HIDE DEF x
    <3>1. Place(m) = Place(x)
      BY <1>3, <2>1, PlaceAgain
    <3> QED
      BY <1>2, <1>4, <3>1 DEF x
  <2>2. CASE m # x + History
    <3>1. m \in h + 1 .. h + History
      BY <1>0, <2>2
    <3> QED
      BY <1>1, <1>4, <3>1
  <2> QED
    BY <2>1, <2>2
<1>5. Stored(slots, h + 1, sent, content)
  <2>1. SEQ_NUM_MAX <= h
    BY <1>1
  <2>2. SEQ_NUM_MAX <= h + 1
    BY <1>0, <2>1
  <2> QED
    BY <1>1, <1>4, <2>2 DEF Stored
<1>6. ASSUME NEW u \in Nat, Has(slots, h, u) PROVE Has(slots, h + 1, u)
  <2>1. CASE u <= h
    <3>1. u <= h + 1
      BY <2>1
    <3> QED
      BY <3>1 DEF Has
  <2>2. CASE ~(u <= h)
    <3>1. h + 1 \in h + 1 .. u
      BY <2>2
    <3> QED
      BY <1>2, <1>6, <2>2, <3>1 DEF Has
  <2> QED
    BY <2>1, <2>2
<1> QED
  BY <1>5, <1>6

(* Anything else waits in the slot of its number.                          *)
WasSent(items, n, sent, content) ==
  items \in Seq(Items) /\ items # <<>> /\ n <= sent /\ items = content[n]

Put(slots, n, items) == [slots EXCEPT ![Place(n)] = items]

HasMore(slots, more, h, n, items, sent, content) ==
  /\ Stored(more, h, sent, content)
  /\ more[Place(n)] = items
  /\ \A m \in h + 1 .. h + History : m # n => more[Place(m)] = slots[Place(m)]
  /\ \A u \in Nat : Has(slots, h, u) => Has(more, h, u)

LEMMA PutInSlot ==
  ASSUME NEW h \in Nat, NEW sent \in Nat, NEW content, NEW slots, NEW items,
         NEW n \in h + 1 .. h + History,
         Stored(slots, h, sent, content), WasSent(items, n, sent, content),
         NEW more, more = Put(slots, n, items)
  PROVE  HasMore(slots, more, h, n, items, sent, content)
<1>0. n \in Nat /\ Place(n) \in Slots /\ History \in Nat \ {0}
  BY Sizes, PlaceType
<1>8. items \in Seq(Items) /\ items # <<>> /\ n <= sent /\ items = content[n]
  BY DEF WasSent
<1>1. /\ SEQ_NUM_MAX <= h /\ h <= sent /\ slots \in [Slots -> Seq(Items)]
      /\ \A m \in h + 1 .. h + History :
           slots[Place(m)] # <<>> => m <= sent /\ slots[Place(m)] = content[m]
  BY DEF Stored
<1>9. more = [slots EXCEPT ![Place(n)] = items]
  BY DEF Put
<1>2. more[Place(n)] = items
  BY <1>0, <1>1, <1>9
<1>3. \A i \in Slots : i # Place(n) => more[i] = slots[i]
  BY <1>1, <1>9
<1>4. more \in [Slots -> Seq(Items)]
  BY <1>1, <1>8, <1>9
<1>5. ASSUME NEW m \in h + 1 .. h + History, m # n PROVE more[Place(m)] = slots[Place(m)]
  <2>1. m \in Nat /\ m - n < History /\ n - m < History
    BY <1>0
  <2>2. Place(m) # Place(n) /\ Place(m) \in Slots
    BY <1>0, <1>5, <2>1, PlaceApart, PlaceType
  <2> QED
    BY <1>3, <2>2
<1>6. Stored(more, h, sent, content)
  <2>1. ASSUME NEW m \in h + 1 .. h + History, more[Place(m)] # <<>>
        PROVE  m <= sent /\ more[Place(m)] = content[m]
    <3>1. CASE m = n
      BY <1>2, <1>8, <3>1
    <3>2. CASE m # n
      BY <1>1, <1>5, <2>1, <3>2
    <3> QED
      BY <3>1, <3>2
  <2> QED
    BY <1>1, <1>4, <2>1 DEF Stored
<1>7. ASSUME NEW u \in Nat, Has(slots, h, u) PROVE Has(more, h, u)
  <2>1. CASE u <= h
    BY <2>1 DEF Has
  <2>2. CASE ~(u <= h)
    <3>1. u < h + History /\ \A k \in h + 1 .. u : slots[Place(k)] # <<>>
      BY <1>7, <2>2 DEF Has
    <3>2. ASSUME NEW k \in h + 1 .. u PROVE more[Place(k)] # <<>>
      <4>1. CASE k = n
        BY <1>2, <1>8, <4>1
      <4>2. CASE k # n
        <5>1. k \in h + 1 .. h + History
          BY <1>0, <3>1
        <5> QED
          BY <1>5, <3>1, <4>2, <5>1
      <4> QED
        BY <4>1, <4>2
    <3> QED
      BY <3>1, <3>2 DEF Has
  <2> QED
    BY <2>1, <2>2
<1> QED
  BY <1>2, <1>5, <1>6, <1>7 DEF HasMore

(* A whole message out of its turn completes no fragmented one.            *)
LEMMA StillWaiting ==
  ASSUME NEW h \in Nat, NEW slots, NEW more, NEW n \in h + 1 .. h + History,
         Waiting(slots, h),
         \A m \in h + 1 .. h + History : m # n => more[Place(m)] = slots[Place(m)],
         \/ Looks(more[Place(n)]) # "whole" /\ LastFragment(more, Num(h)) = 0
         \/ Looks(more[Place(n)]) = "whole" /\ n # h + 1
  PROVE  Waiting(more, h)
<1>0. History \in Nat \ {0} /\ h + 1 \in h + 1 .. h + History
  BY Sizes
<1>1. CASE Looks(more[Place(n)]) # "whole" /\ LastFragment(more, Num(h)) = 0
  <2>1. CASE n = h + 1
    BY <1>1, <2>1 DEF Waiting
  <2>2. CASE n # h + 1
    <3>1. more[Place(h + 1)] = slots[Place(h + 1)]
      BY <1>0, <2>2
    <3> QED
      BY <1>1, <3>1 DEF Waiting
  <2> QED
    BY <2>1, <2>2
<1>2. CASE Looks(more[Place(n)]) = "whole" /\ n # h + 1
  <2>1. more[Place(h + 1)] = slots[Place(h + 1)]
    BY <1>0, <1>2
  <2>2. ASSUME slots[Place(h + 1)] # <<>> PROVE LastFragment(more, Num(h)) = 0
    <3>1. LastFragment(slots, Num(h)) = 0
      BY <2>2 DEF Waiting
    <3> DEFINE k == LastFragment(more, Num(h))
    <3>2. k \in 0 .. History /\ (k # 0 => Fragmented(more, h, k))
      BY LastFragmentFound
    <3> HIDE DEF k
    <3> SUFFICES ASSUME k # 0 PROVE FALSE
      BY DEF k
    <3>3. k \in 1 .. History /\ Fragmented(more, h, k)
      BY <3>2
    <3>4. ASSUME NEW j \in 1 .. k PROVE more[Place(h + j)] = slots[Place(h + j)]
      <4>1. Looks(more[Place(h + j)]) # "whole"
        <5>1. j = k \/ j \in 1 .. k - 1
          BY <3>3
        <5> QED
          BY <3>3, <5>1 DEF Fragmented
      <4>2. h + j # n
        BY <1>2, <4>1
      <4>3. h + j \in h + 1 .. h + History
        BY <1>0, <3>3
      <4> QED
        BY <4>2, <4>3
    <3>5. k \in 1 .. k /\ \A j \in 1 .. k - 1 : j \in 1 .. k
      BY <3>3
    <3>6. Fragmented(slots, h, k)
      BY <3>3, <3>4, <3>5 DEF Fragmented
    <3> QED
      BY <3>1, <3>3, <3>6, LastFragmentFound
  <2> QED
    BY <2>1, <2>2 DEF Waiting
<1> QED
  BY <1>1, <1>2

(* The reader takes a datagram for valid only if it is of its window.      *)
LEMMA ValidAhead ==
  ASSUME NEW h \in Nat, NEW n \in Nat, n - h <= SEQ_NUM_MIDSIZE - 1, h - n < SEQ_NUM_MIDSIZE,
         last_handled = Num(h), Valid(Num(n))
  PROVE  /\ n \in h + 1 .. h + History
         /\ Num(n) = seq_num_add(last_handled, 1) <=> n = h + 1
<1>1. /\ SEQ_NUM_MIDSIZE \in Nat /\ History \in Nat \ {0} /\ 2 * History <= SEQ_NUM_MIDSIZE
      /\ SEQ_NUM_SIZE = 2 * SEQ_NUM_MIDSIZE
  BY Sizes
<1>2. h < n
  <2>1. h - n <= SEQ_NUM_MIDSIZE /\ n - h < SEQ_NUM_MIDSIZE
    BY <1>1
  <2>2. seq_num_cmp(Num(h), Num(n)) < 0
    BY DEF Valid
  <2> QED
    BY <2>1, <2>2, CmpNum
<1> DEFINE b == h + History
<1>3. b \in Nat /\ b - n <= SEQ_NUM_MIDSIZE /\ n - b < SEQ_NUM_MIDSIZE
  BY <1>1, <1>2
<1>4. seq_num_add(last_handled, History) = Num(b)
  <2>1. History \in Nat /\ History < SEQ_NUM_SIZE
    BY <1>1
  <2> QED
    BY <2>1, AddNum
<1> HIDE DEF b
<1>5. b >= n
  <2>1. seq_num_cmp(Num(b), Num(n)) >= 0
    BY <1>4 DEF Valid
  <2> QED
    BY <1>3, <2>1, CmpNum
<1>6. n \in h + 1 .. h + History
  BY <1>1, <1>2, <1>5 DEF b
<1>7. seq_num_add(last_handled, 1) = Num(h + 1)
  <2>1. 1 \in 0 .. History
    BY <1>1
  <2> QED
    BY <2>1, Ahead
<1>8. ASSUME Num(n) = Num(h + 1) PROVE n = h + 1
  <2> DEFINE x == h + 1
  <2>1. x \in Nat /\ x - n < SEQ_NUM_SIZE /\ n - x < SEQ_NUM_SIZE
    BY <1>1, <1>6
  <2> HIDE DEF x
  <2> QED
    BY <1>8, <2>1, NumApart DEF x
<1> QED
  BY <1>6, <1>7, <1>8

LEMMA ReceiveStep ==
  ASSUME NEW h \in Nat, NEW sent \in Nat, NEW content, NEW d, NEW n \in Nat,
         last_handled = Num(h), Stored(in, h, sent, content), Waiting(in, h),
         n <= sent, sent - n < SEQ_NUM_MIDSIZE, sent - h < SEQ_NUM_MIDSIZE,
         d.seq = Num(n), d.items \in Seq(Items), d.items = content[n],
         NEW filled \in Nat, sent <= filled, NEW total, Receive(d)
  PROVE  \E h2 \in Nat : /\ Advanced(in, h, h2, sent, content)
                         /\ Told(got', h, h2, content, filled, total)
<1> DEFINE next == seq_num_add(last_handled, 1)
           valid == Valid(d.seq)
           direct == valid /\ Looks(d.items) = "whole" /\ d.seq = next
           stored == valid /\ ~ direct /\ in[Slot(d.seq)] = <<>>
           slots == IF stored THEN [in EXCEPT ![Slot(d.seq)] = d.items] ELSE in
           ready == \/ direct
                    \/ /\ stored /\ Looks(d.items) # "whole"
                       /\ LastFragment(slots, last_handled) > 0
           start == [in |-> slots,
                     handled |-> IF direct THEN next ELSE last_handled,
                     read |-> IF direct THEN ReadItems(d.items) ELSE <<>>]
           done == IF ready THEN ReadAll(start) ELSE start
<1>1. /\ d.items # <<>> /\ in' = done.in /\ last_handled' = done.handled
      /\ got' = done.read
  BY DEF Receive
<1>2. /\ start.in = slots /\ start.handled = IF direct THEN next ELSE last_handled
      /\ start.read = IF direct THEN ReadItems(d.items) ELSE <<>>
  OBVIOUS
<1>3. h <= sent /\ History \in Nat \ {0} /\ SEQ_NUM_MIDSIZE \in Nat \ {0}
  BY Sizes DEF Stored
<1>4. next = Num(h + 1)
  <2>1. 1 \in 0 .. History
    BY <1>3
  <2> QED
    BY <2>1, Ahead
<1>5. Slot(d.seq) = Place(n)
  BY SlotNum
<1>6. ASSUME valid PROVE n \in h + 1 .. h + History /\ (d.seq = next <=> n = h + 1)
  <2>1. n - h <= SEQ_NUM_MIDSIZE - 1 /\ h - n < SEQ_NUM_MIDSIZE
    BY <1>3
  <2> QED
    BY <1>6, <2>1, ValidAhead
<1>7. valid \in BOOLEAN /\ direct \in BOOLEAN /\ stored \in BOOLEAN /\ ready \in BOOLEAN
  BY DEF Valid
<1>8. /\ stored => slots = [in EXCEPT ![Place(n)] = d.items]
      /\ ~stored => slots = in
  BY <1>5
<1>9. direct => valid /\ Looks(d.items) = "whole" /\ d.seq = next /\ ~stored
  OBVIOUS
<1>10. stored => valid /\ ~direct /\ ~(Looks(d.items) = "whole" /\ d.seq = next)
  OBVIOUS
<1>11. ready <=> direct \/ (stored /\ Looks(d.items) # "whole"
                            /\ LastFragment(slots, last_handled) > 0)
  OBVIOUS
<1>12. (ready => done = ReadAll(start)) /\ (~ready => done = start)
  OBVIOUS
<1> HIDE DEF next, valid, direct, stored, slots, ready, start, done
<1>13. ASSUME NEW h1 \in Nat, start.handled = Num(h1), Stored(start.in, h1, sent, content),
              \A u \in Nat : Has(in, h, u) => Has(start.in, h1, u), ready,
              Told(start.read, h, h1, content, filled, total)
       PROVE  \E h2 \in Nat : /\ Advanced(in, h, h2, sent, content)
                              /\ Told(got', h, h2, content, filled, total)
  <2>1. PICK h2 \in Nat :
          /\ ReadAll(start).handled = Num(h2)
          /\ Stored(ReadAll(start).in, h2, sent, content)
          /\ Waiting(ReadAll(start).in, h2)
          /\ Told(ReadAll(start).read, h, h2, content, filled, total)
          /\ \A u \in Nat : Has(start.in, h1, u) => Has(ReadAll(start).in, h2, u)
    BY <1>13, ReadAllStep
  <2>2. /\ in' = ReadAll(start).in /\ last_handled' = ReadAll(start).handled
        /\ got' = ReadAll(start).read
    BY <1>1, <1>12, <1>13
  <2>3. Stored(in, h2, sent, content)' /\ Waiting(in, h2)'
    BY <2>1, <2>2 DEF Stored, Waiting
  <2>4. \A u \in Nat : Has(in, h, u) => Has(in, h2, u)'
    BY <1>13, <2>1, <2>2 DEF Has
  <2> QED
    BY <2>1, <2>2, <2>3, <2>4 DEF Advanced
<1>14. ASSUME Stored(start.in, h, sent, content), Waiting(start.in, h), ~ready,
              start.handled = Num(h), start.read = <<>>,
              \A u \in Nat : Has(in, h, u) => Has(start.in, h, u)
       PROVE  \E h2 \in Nat : /\ Advanced(in, h, h2, sent, content)
                              /\ Told(got', h, h2, content, filled, total)
  <2>1. in' = start.in /\ last_handled' = start.handled /\ got' = <<>>
    BY <1>1, <1>12, <1>14
  <2>2. Stored(in, h, sent, content)' /\ Waiting(in, h)'
    BY <1>14, <2>1 DEF Stored, Waiting
  <2>3. \A u \in Nat : Has(in, h, u) => Has(in, h, u)'
    BY <1>14, <2>1 DEF Has
  <2>4. Advanced(in, h, h, sent, content)
    BY <1>14, <2>1, <2>2, <2>3 DEF Advanced
  <2>5. Told(got', h, h, content, filled, total)
    BY <2>1, NothingTold
  <2> QED
    BY <2>4, <2>5
<1>15. CASE direct
  <2>1. valid /\ ~stored /\ ready /\ Looks(d.items) = "whole" /\ n = h + 1
    BY <1>6, <1>9, <1>11, <1>15
  <2>2. h + 1 <= sent /\ Looks(content[h + 1]) = "whole" /\ h + 1 \in Nat
    BY <2>1
  <2>3. /\ Stored(in, h + 1, sent, content)
        /\ \A u \in Nat : Has(in, h, u) => Has(in, h + 1, u)
    BY <2>2, DirectlyRead
  <2>4. start.in = in /\ start.handled = Num(h + 1) /\ start.read = ReadItems(d.items)
    BY <1>2, <1>4, <1>8, <1>15, <2>1
  <2>5. Told(ReadItems(d.items), h, h + 1, content, filled, total)
    <3>1. PICK items : items = d.items
      OBVIOUS
    <3>2. /\ items = content[h + 1] /\ items \in Seq(Items) /\ items # <<>>
          /\ Looks(items) = "whole"
      BY <1>1, <2>1, <3>1
    <3>3. SEQ_NUM_MAX <= h /\ h + 1 <= filled
      BY <2>2 DEF Stored
    <3>4. Told(ReadItems(items), h, h + 1, content, filled, total)
      BY <3>2, <3>3, WholeTells
    <3> QED
      BY <3>1, <3>4
  <2>6. Told(start.read, h, h + 1, content, filled, total)
    BY <2>4, <2>5
  <2> QED
    BY <1>13, <2>1, <2>2, <2>3, <2>4, <2>6
<1>16. CASE stored
  <2>1. /\ n \in h + 1 .. h + History /\ ~direct
        /\ start.in = slots /\ start.handled = Num(h) /\ start.read = <<>>
        /\ slots = [in EXCEPT ![Place(n)] = d.items]
        /\ Looks(d.items) = "whole" => n # h + 1
    BY <1>2, <1>6, <1>8, <1>10, <1>16
  <2>2. /\ Stored(slots, h, sent, content)
        /\ slots[Place(n)] = d.items
        /\ \A m \in h + 1 .. h + History : m # n => slots[Place(m)] = in[Place(m)]
        /\ \A u \in Nat : Has(in, h, u) => Has(slots, h, u)
    <3>1. PICK items : items = d.items
      OBVIOUS
    <3>2. PICK more : more = Put(in, n, items)
      OBVIOUS
    <3>3. WasSent(items, n, sent, content)
      BY <1>1, <3>1 DEF WasSent
    <3>4. HasMore(in, more, h, n, items, sent, content)
      BY <2>1, <3>2, <3>3, PutInSlot
    <3>5. slots = more
      BY <2>1, <3>1, <3>2 DEF Put
    <3> QED
      BY <3>1, <3>4, <3>5 DEF HasMore
  <2>5. Told(start.read, h, h, content, filled, total)
    BY <2>1, NothingTold
  <2>3. CASE ready
    BY <1>13, <2>1, <2>2, <2>3, <2>5
  <2>4. CASE ~ready
    <3>1. LastFragment(slots, Num(h)) \in 0 .. History
      BY LastFragmentFound
    <3>2. Looks(d.items) # "whole" => LastFragment(slots, Num(h)) = 0
      <4>1. Looks(d.items) # "whole" => ~(LastFragment(slots, Num(h)) > 0)
        BY <1>11, <1>16, <2>4
      <4> HIDE DEF slots
      <4> QED
        BY <3>1, <4>1
    <3>3. Waiting(slots, h)
      BY <2>1, <2>2, <3>2, StillWaiting
    <3> QED
      BY <1>14, <2>1, <2>2, <2>4, <3>3
  <2> QED
    BY <2>3, <2>4
<1>17. CASE ~direct /\ ~stored
  <2>1. start.in = in /\ start.handled = Num(h) /\ start.read = <<>> /\ ~ready
    BY <1>2, <1>8, <1>11, <1>17
  <2> QED
    BY <1>14, <2>1
<1> QED
  BY <1>15, <1>16, <1>17

-----------------------------------------------------------------------------
(* What the reader acknowledges.                                           *)

(* The reader's slots never are full: what they hold could be read.        *)
SlotFree(slots, h) == \E k \in 1 .. History : slots[Place(h + k)] = <<>>

LEMMA SomeSlotEmpty ==
  ASSUME NEW h \in Nat, NEW sent \in Nat, NEW filled \in Nat, sent <= filled,
         NEW content, NEW slots,
         Stored(slots, h, sent, content), Waiting(slots, h), Contents(content, filled)
  PROVE  SlotFree(slots, h)
<1> SUFFICES ASSUME \A k \in 1 .. History : slots[Place(h + k)] # <<>> PROVE FALSE
  BY DEF SlotFree
<1>0. /\ History \in Nat \ {0} /\ SEQ_NUM_MAX = SEQ_NUM_SIZE - 1 /\ SEQ_NUM_SIZE \in Nat
      /\ 1 \in 1 .. History
  BY Sizes
<1>1. /\ SEQ_NUM_MAX <= h /\ slots \in [Slots -> Seq(Items)]
      /\ \A m \in h + 1 .. h + History :
           slots[Place(m)] # <<>> => m <= sent /\ slots[Place(m)] = content[m]
  BY DEF Stored
<1>2. \A k \in 1 .. History : h + k <= sent /\ slots[Place(h + k)] = content[h + k]
  <2> SUFFICES ASSUME NEW k \in 1 .. History
               PROVE  h + k <= sent /\ slots[Place(h + k)] = content[h + k]
    OBVIOUS
  <2>1. h + k \in h + 1 .. h + History
    BY <1>0
  <2> QED
    BY <1>1, <2>1
<1>3. Looks(slots[Place(h + 1)]) # "whole" /\ LastFragment(slots, Num(h)) = 0
  BY <1>0 DEF Waiting
<1>4. ~ Fragmented(slots, h, 1) /\ \A k \in 1 .. History : ~ Fragmented(slots, h, k)
  BY <1>0, <1>3, LastFragmentFound
<1>5. FragmentHeaders /\ \A items : Looks(items) = Head(items).frag
  BY <1>3, SlotsAssumption DEF Looks
<1>6. Head(slots[Place(h + 1)]).frag \in {"whole", "part", "last"}
  <2> DEFINE items == slots[Place(h + 1)]
  <2>1. Place(h + 1) \in Slots
    BY PlaceType
  <2>2. items \in Seq(Items) /\ items # <<>>
    BY <1>0, <1>1, <2>1
  <2> HIDE DEF items
  <2>3. Head(items) \in Items
    BY <2>2
  <2>4. Head(items).frag \in {"whole", "part", "last"}
    BY <2>3 DEF Items
  <2> QED
    BY <2>4 DEF items
<1>7. Looks(slots[Place(h + 1)]) # "last"
  <2>1. \A j \in 1 .. 1 - 1 : FALSE
    OBVIOUS
  <2> QED
    BY <1>0, <1>4, <2>1 DEF Fragmented
<1>8. Begins(content[h + 1], "part")
  BY <1>0, <1>2, <1>3, <1>5, <1>6, <1>7 DEF Begins
<1> DEFINE x == h + 1
<1>9. x \in SEQ_NUM_SIZE .. filled
  <2>1. x <= sent
    BY <1>0, <1>2
  <2>2. SEQ_NUM_MAX <= h
    BY <1>1
  <2> QED
    BY <1>0, <2>1, <2>2
<1> HIDE DEF x
<1>10. Completed(content, filled, x)
  BY <1>8, <1>9 DEF Contents, x
<1>11. PICK k \in 1 .. History - 1 :
         /\ x + k <= filled /\ Begins(content[x + k], "last")
         /\ \A j \in 1 .. k - 1 : Begins(content[x + j], "part")
  BY <1>10 DEF Completed
<1>12. k + 1 \in 1 .. History /\ x + k = h + (k + 1)
  BY <1>0, <1>9 DEF x
<1>13. slots[Place(h + (k + 1))] # <<>> /\ Looks(slots[Place(h + (k + 1))]) = "last"
  BY <1>2, <1>5, <1>11, <1>12 DEF Begins
<1>14. ASSUME NEW j \in 1 .. (k + 1) - 1
       PROVE  slots[Place(h + j)] # <<>> /\ Looks(slots[Place(h + j)]) = "part"
  <2>1. j \in 1 .. History
    BY <1>0
  <2>2. CASE j = 1
    BY <1>2, <1>5, <1>8, <2>1, <2>2 DEF Begins
  <2>3. CASE j # 1
    <3>1. j - 1 \in 1 .. k - 1 /\ x + (j - 1) = h + j
      BY <1>9, <2>3 DEF x
    <3>2. Begins(content[h + j], "part")
      BY <1>11, <3>1
    <3> QED
      BY <1>2, <1>5, <2>1, <3>2 DEF Begins
  <2> QED
    BY <2>2, <2>3
<1>15. Fragmented(slots, h, k + 1)
  BY <1>13, <1>14 DEF Fragmented
<1> QED
  BY <1>4, <1>12, <1>15

(* The number before the first empty slot is the last the reader has.      *)
LEMMA FirstUnackedIs ==
  ASSUME NEW h \in Nat, NEW slots, SlotFree(slots, h)
  PROVE  \E u \in Nat :
           /\ FirstUnacked(slots, Num(h)) = Num(u + 1)
           /\ Has(slots, h, u)
           /\ \A v \in Nat : Has(slots, h, v) => v <= u
<1>0. History \in Nat \ {0}
  BY Sizes
<1> DEFINE empty == {k \in 1 .. History : slots[Slot(seq_num_add(Num(h), k))] = <<>>}
<1>1. \A k \in 1 .. History : k \in empty <=> slots[Place(h + k)] = <<>>
  <2> SUFFICES ASSUME NEW k \in 1 .. History PROVE k \in empty <=> slots[Place(h + k)] = <<>>
    OBVIOUS
  <2>1. k \in 0 .. History
    BY <1>0
  <2> QED
    BY <2>1, Ahead
<1>2. empty \subseteq 1 .. History /\ empty \in SUBSET Nat
  BY <1>0
<1>3. FirstUnacked(slots, Num(h)) =
        IF empty = {} THEN Num(h)
        ELSE seq_num_add(Num(h), CHOOSE k \in empty : \A j \in empty : k <= j)
  BY DEF FirstUnacked
<1> HIDE DEF empty
<1>4. empty # {}
  BY <1>1 DEF SlotFree
<1>5. \E k \in empty : \A j \in empty : k <= j
  BY <1>2, <1>4, Least
<1>6. PICK k \in empty : /\ \A j \in empty : k <= j
                         /\ k = CHOOSE i \in empty : \A j \in empty : i <= j
  BY <1>5
<1>7. k \in 1 .. History /\ k \in 0 .. History /\ slots[Place(h + k)] = <<>>
  BY <1>0, <1>1, <1>2
<1>8. \A j \in 1 .. k - 1 : slots[Place(h + j)] # <<>>
  <2> SUFFICES ASSUME NEW j \in 1 .. k - 1 PROVE slots[Place(h + j)] # <<>>
    OBVIOUS
  <2>1. j \in 1 .. History /\ ~(k <= j)
    BY <1>0, <1>7
  <2> QED
    BY <1>1, <1>6, <2>1
<1>9. FirstUnacked(slots, Num(h)) = Num(h + k)
  BY <1>3, <1>4, <1>6, <1>7, Ahead
<1> DEFINE u == h + k - 1
<1>10. u \in Nat /\ u + 1 = h + k
  BY <1>7
<1>11. Has(slots, h, u)
  <2>1. u < h + History
    BY <1>0, <1>7
  <2>2. ASSUME NEW m \in h + 1 .. u PROVE slots[Place(m)] # <<>>
    <3>1. m - h \in 1 .. k - 1 /\ m = h + (m - h)
      BY <1>7
    <3> QED
      BY <1>8, <3>1
  <2> QED
    BY <2>1, <2>2 DEF Has
<1>12. ASSUME NEW v \in Nat, Has(slots, h, v) PROVE v <= u
  <2>1. CASE v <= h
    BY <1>7, <2>1
  <2>2. CASE ~(v <= h)
    <3>1. ASSUME v >= h + k PROVE FALSE
      <4>1. h + k \in h + 1 .. v
        BY <1>7, <3>1
      <4> QED
        BY <1>7, <1>12, <2>2, <4>1 DEF Has
    <3> QED
      BY <1>7, <3>1
  <2> QED
    BY <2>1, <2>2
<1> QED
  BY <1>9, <1>10, <1>11, <1>12

(* One more ACKNACK confirms no less than those before it.                 *)
LEMMA AcksGrow ==
  ASSUME NEW acked \in Nat, NEW h \in Nat, NEW h2 \in Nat, NEW acking,
         Confirmed(acked, h, acking),
         \A v \in Nat : Has(in, h, v) => Has(in, h2, v)',
         NEW u \in Nat, Has(in, h2, u)', \A v \in Nat : Has(in, h2, v)' => v <= u,
         NEW ack \in [from : SeqNums, nack : BOOLEAN], ack.from = Num(u + 1),
         acks' = Append(acks, ack)
  PROVE  \E more : Confirmed(acked, h2, more)'
<1> DEFINE n == Len(acks)
<1>1. /\ n \in Nat /\ acks \in Seq([from : SeqNums, nack : BOOLEAN])
      /\ acking \in [1 .. n -> Nat]
  BY DEF Confirmed
<1>2. /\ acks' \in Seq([from : SeqNums, nack : BOOLEAN]) /\ Len(acks') = n + 1
      /\ \A i \in 1 .. n + 1 : acks'[i] = IF i <= n THEN acks[i] ELSE ack
  BY <1>1
<1>3. PICK more : more = [i \in 1 .. n + 1 |-> IF i <= n THEN acking[i] ELSE u]
  OBVIOUS
<1>4. \A i \in 1 .. n + 1 : i <= n => i \in 1 .. n
  BY <1>1
<1>5. more \in [1 .. Len(acks') -> Nat]
  <2>1. \A i \in 1 .. n + 1 : (IF i <= n THEN acking[i] ELSE u) \in Nat
    BY <1>1, <1>4
  <2> HIDE DEF n
  <2> QED
    BY <1>2, <1>3, <2>1
<1>6. \A i \in 1 .. n + 1 : more[i] = IF i <= n THEN acking[i] ELSE u
  BY <1>3
<1>7. /\ Has(in, h, acked)
      /\ \A i \in 1 .. n : /\ acks[i].from = Num(acking[i] + 1)
                           /\ acked <= acking[i] /\ Has(in, h, acking[i])
                           /\ acking[i] \in Nat
      /\ \A i, j \in 1 .. n : i <= j => acking[i] <= acking[j]
  BY <1>1 DEF Confirmed
<1> HIDE DEF n
<1>8. Has(in, h2, acked)' /\ acked <= u
  BY <1>7
<1>9. \A i \in 1 .. n : Has(in, h2, acking[i])' /\ acking[i] <= u
  <2> SUFFICES ASSUME NEW i \in 1 .. n PROVE Has(in, h2, acking[i])' /\ acking[i] <= u
    OBVIOUS
  <2>1. PICK v \in Nat : v = acking[i]
    BY <1>7
  <2>2. Has(in, h, v)
    BY <1>7, <2>1
  <2>3. Has(in, h2, v)' /\ v <= u
    BY <2>2
  <2>4. Has(in, h2, acking[i])'
    BY <2>1, <2>3 DEF Has
  <2> QED
    BY <2>1, <2>3, <2>4
<1>10. \A i \in 1 .. n + 1 :
         /\ acks'[i].from = Num(more[i] + 1)
         /\ acked <= more[i] /\ Has(in, h2, more[i])'
  <2> SUFFICES ASSUME NEW i \in 1 .. n + 1
               PROVE  /\ acks'[i].from = Num(more[i] + 1)
                      /\ acked <= more[i] /\ Has(in, h2, more[i])'
    OBVIOUS
  <2>1. CASE i <= n
    <3>1. i \in 1 .. n /\ acks'[i] = acks[i] /\ more[i] = acking[i]
      BY <1>2, <1>4, <1>6, <2>1
    <3>2. Has(in, h2, more[i])'
      BY <1>9, <3>1 DEF Has
    <3> QED
      BY <1>7, <3>1, <3>2
  <2>2. CASE ~(i <= n)
    <3>1. acks'[i] = ack /\ more[i] = u
      BY <1>2, <1>6, <2>2
    <3>2. Has(in, h2, more[i])'
      BY <3>1 DEF Has
    <3> QED
      BY <1>8, <3>1, <3>2
  <2> QED
    BY <2>1, <2>2
<1>11. \A i, j \in 1 .. n + 1 : i <= j => more[i] <= more[j]
  <2> SUFFICES ASSUME NEW i \in 1 .. n + 1, NEW j \in 1 .. n + 1, i <= j
               PROVE  more[i] <= more[j]
    OBVIOUS
  <2>1. CASE j <= n
    <3>1. i <= n /\ i \in 1 .. n /\ j \in 1 .. n
      BY <1>1, <2>1
    <3> QED
      BY <1>6, <1>7, <2>1, <3>1
  <2>2. CASE ~(j <= n)
    <3>1. more[j] = u
      BY <1>6, <2>2
    <3>2. CASE i <= n
      BY <1>4, <1>6, <1>9, <3>1, <3>2
    <3>3. CASE ~(i <= n)
      BY <1>6, <3>1, <3>3
    <3> QED
      BY <3>2, <3>3
  <2> QED
    BY <2>1, <2>2
<1>12. Confirmed(acked, h2, more)'
  <2>1. Has(in', h2, acked) /\ \A i \in 1 .. n + 1 : Has(in', h2, more[i])
    BY <1>8, <1>10 DEF Has
  <2>2. \A i \in 1 .. n + 1 : acks'[i].from = Num(more[i] + 1) /\ acked <= more[i]
    BY <1>10
  <2>3. \A v : Has(in, h2, v)' <=> Has(in', h2, v)
    BY DEF Has
  <2> QED
    BY <1>2, <1>5, <1>11, <2>1, <2>2, <2>3 DEF Confirmed
<1> QED
  BY <1>12

LEMMA ArriveStep ==
  ASSUME NEW acked \in Nat, NEW sent \in Nat, NEW filled \in Nat, NEW handled \in Nat,
         NEW content, NEW acking,
         LinkInv(acked, sent, filled, handled, content, acking),
         NEW d \in net, Arrive(d), NEW total
  PROVE  \E h2 \in Nat : \E more :
           /\ LinkInv(acked, sent, filled, h2, content, more)'
           /\ Told(got', handled, h2, content, filled, total)
<1>1. /\ Counts(acked, sent, filled) /\ SlotsKept(acked, filled, content)
      /\ Contents(content, filled)
      /\ Carried(sent, content) /\ Stored(in, handled, sent, content)
      /\ last_handled = Num(handled) /\ last_announced \in SeqNums
      /\ Waiting(in, handled) /\ Confirmed(acked, handled, acking)
  BY DEF LinkInv
<1>2. /\ acked <= sent /\ sent <= filled /\ filled <= acked + History
      /\ SEQ_NUM_MIDSIZE \in Nat \ {0} /\ 2 * History <= SEQ_NUM_MIDSIZE
      /\ History \in Nat \ {0} /\ acked < handled + History
  <2>1. Has(in, handled, acked)
    BY <1>1 DEF Confirmed
  <2>2. acked < handled + History
    BY <1>1, <2>1, HasWasSent
  <2> QED
    BY <1>1, <2>2, Sizes DEF Counts
<1>3. sent - handled < SEQ_NUM_MIDSIZE
  BY <1>2
<1>4. PICK n \in Nat :
        /\ d.seq = Num(n) /\ n <= sent /\ sent - n < SEQ_NUM_MIDSIZE
        /\ d.items # <<>> => n >= SEQ_NUM_SIZE /\ d.items = content[n]
  BY <1>1 DEF Carried
<1>5. UNCHANGED writer /\ net' \subseteq net /\ Acknowledge
      /\ (Receive(d) \/ ReceiveHeartbeat(d))
  BY DEF Arrive
<1>6. last_announced' \in SeqNums
  <2>1. d.seq \in SeqNums
    BY <1>4, NumType
  <2>2. last_announced' = Announced(d.seq)
    BY <1>5 DEF Receive, ReceiveHeartbeat
  <2> QED
    BY <1>1, <2>1, <2>2 DEF Announced
<1>7. PICK h2 \in Nat : /\ Advanced(in, handled, h2, sent, content)
                       /\ Told(got', handled, h2, content, filled, total)
  <2>1. CASE Receive(d)
    <3>1. d.items # <<>>
      BY <2>1 DEF Receive
    <3>2. d.items \in Seq(Items) /\ d.items = content[n]
      BY <1>1, <1>4, <3>1 DEF Carried, Datagrams
    <3> QED
      BY <1>1, <1>2, <1>3, <1>4, <2>1, <3>2, ReceiveStep
  <2>2. CASE ReceiveHeartbeat(d)
    <3>1. in' = in /\ last_handled' = last_handled /\ got' = <<>>
      BY <2>2 DEF ReceiveHeartbeat
    <3>2. Advanced(in, handled, handled, sent, content)
      BY <1>1, <3>1 DEF Advanced, Stored, Waiting, Has
    <3>3. Told(got', handled, handled, content, filled, total)
      BY <3>1, NothingTold
    <3> QED
      BY <3>2, <3>3
  <2> QED
    BY <1>5, <2>1, <2>2
<1>8. /\ last_handled' = Num(h2) /\ Stored(in', h2, sent, content) /\ Waiting(in', h2)
      /\ Stored(in, h2, sent, content)' /\ Waiting(in, h2)'
      /\ \A v \in Nat : Has(in, handled, v) => Has(in, h2, v)'
  BY <1>7 DEF Advanced, Stored, Waiting
<1>9. PICK u \in Nat :
        /\ FirstUnacked(in', Num(h2)) = Num(u + 1)
        /\ Has(in', h2, u)
        /\ \A v \in Nat : Has(in', h2, v) => v <= u
  <2>1. Stored(in', h2, sent, content) /\ Waiting(in', h2)
    BY <1>8
  <2>2. Contents(content, filled) /\ sent \in Nat /\ filled \in Nat /\ sent <= filled
    BY <1>1, <1>2
  <2>3. SlotFree(in', h2)
    BY <2>1, <2>2, SomeSlotEmpty
  <2> QED
    BY <2>3, FirstUnackedIs
<1>10. Has(in, h2, u)' /\ \A v \in Nat : Has(in, h2, v)' => v <= u
  BY <1>9 DEF Has
<1> DEFINE ack == AckNack(in', last_handled', last_announced')
<1>11. ack.from = Num(u + 1) /\ ack \in [from : SeqNums, nack : BOOLEAN]
  <2>1. ack.from = Num(u + 1)
    BY <1>8, <1>9 DEF AckNack
  <2>2. Num(u + 1) \in SeqNums
    BY NumType
  <2> QED
    BY <1>8, <1>9, <2>1, <2>2 DEF AckNack
<1>12. acks' = Append(acks, ack)
  BY <1>5 DEF Acknowledge
<1> HIDE DEF ack
<1>13. PICK more : Confirmed(acked, h2, more)'
  BY <1>1, <1>8, <1>10, <1>11, <1>12, AcksGrow
<1>14. Carried(sent, content)'
  BY <1>1, <1>5 DEF Carried
<1>15. Counts(acked, sent, filled)' /\ SlotsKept(acked, filled, content)'
       /\ Contents(content, filled)'
  BY <1>1, <1>5 DEF Counts, SlotsKept, Contents, writer
<1>16. LinkInv(acked, sent, filled, h2, content, more)'
  BY <1>6, <1>8, <1>13, <1>14, <1>15 DEF LinkInv
<1> QED
  BY <1>7, <1>16

-----------------------------------------------------------------------------
(* The invariant holds, and what follows from it.                          *)

LEMMA InitLink ==
  ASSUME Init
  PROVE  /\ SEQ_NUM_MAX \in Nat
         /\ \E content, acking :
              LinkInv(SEQ_NUM_MAX, SEQ_NUM_MAX, SEQ_NUM_MAX, SEQ_NUM_MAX, content, acking)
<1> DEFINE n == SEQ_NUM_MAX
<1>0. /\ n \in Nat /\ SEQ_NUM_SIZE \in Nat \ {0} /\ n = SEQ_NUM_SIZE - 1
      /\ History \in Nat \ {0} /\ n + 1 = SEQ_NUM_SIZE
  BY Sizes
<1>1. Num(n) = SEQ_NUM_MAX /\ Num(n + 1) = 0 /\ n \in SeqNums
  BY <1>0 DEF Num, SeqNums
<1>2. /\ out = [i \in Slots |-> EmptySlot] /\ in = [i \in Slots |-> <<>>]
      /\ last_written = 0 /\ last_sent = SEQ_NUM_MAX /\ last_acknown = SEQ_NUM_MAX
      /\ last_handled = SEQ_NUM_MAX /\ last_announced = SEQ_NUM_MAX
      /\ net = {} /\ acks = <<>>
  BY DEF Init
<1>3. PICK content : content = [i \in Nat |-> <<>>]
  OBVIOUS
<1>4. PICK acking : acking = [i \in 1 .. 0 |-> 0]
  OBVIOUS
<1>5. n <= n /\ n <= n + History /\ SEQ_NUM_MAX <= n
  BY <1>0
<1> HIDE DEF n
<1>6. Counts(n, n, n)
  BY <1>1, <1>2, <1>5 DEF Counts, Written, n
<1>7. \A m \in Nat : Place(m) \in Slots
  BY PlaceType
<1>8. SlotsKept(n, n, content)
  <2>1. EmptySlot \in OutSlots
    BY SlotsAssumption DEF EmptySlot, OutSlots, header_offset
  <2>2. \A m \in n + 1 .. n + History : m \in Nat /\ ~(m <= n)
    BY <1>0 DEF n
  <2> QED
    BY <1>2, <1>7, <2>1, <2>2 DEF SlotsKept
<1>9. Contents(content, n)
  <2>1. \A m \in SEQ_NUM_SIZE .. n : FALSE
    BY <1>0
  <2>2. content \in [Nat -> Seq(Items)]
    BY <1>3
  <2> QED
    BY <2>1, <2>2 DEF Contents
<1>10. Carried(n, content)
  BY <1>2 DEF Carried
<1>11. \A m \in n + 1 .. n + History : in[Place(m)] = <<>>
  <2>1. \A m \in n + 1 .. n + History : m \in Nat
    BY <1>0
  <2> QED
    BY <1>2, <1>7, <2>1
<1>12. Stored(in, n, n, content)
  <2>1. in \in [Slots -> Seq(Items)]
    BY <1>2
  <2> QED
    BY <1>5, <1>11, <2>1 DEF Stored
<1>13. Waiting(in, n)
  <2>1. n + 1 \in n + 1 .. n + History
    BY <1>0
  <2> QED
    BY <1>11, <2>1 DEF Waiting
<1>14. Confirmed(n, n, acking)
  <2>1. /\ acks \in Seq([from : SeqNums, nack : BOOLEAN]) /\ Len(acks) = 0
        /\ acking \in [1 .. 0 -> Nat] /\ \A i \in 1 .. 0 : FALSE
    BY <1>2, <1>4
  <2> QED
    BY <1>5, <2>1 DEF Confirmed, Has
<1>15. LinkInv(n, n, n, n, content, acking)
  BY <1>1, <1>2, <1>6, <1>8, <1>9, <1>10, <1>12, <1>13, <1>14 DEF LinkInv, n
<1> QED
  BY <1>0, <1>15 DEF n

LEMMA InitInv == Init => IInv
  BY InitLink DEF IInv

LEMMA InvStep == IInv /\ [Next]_vars => IInv'
<1> SUFFICES ASSUME IInv, [Next]_vars PROVE IInv'
  OBVIOUS
<1>1. PICK acked \in Nat, sent \in Nat, filled \in Nat, handled \in Nat :
        \E content, acking : LinkInv(acked, sent, filled, handled, content, acking)
  BY DEF IInv
<1>2. PICK content, acking : LinkInv(acked, sent, filled, handled, content, acking)
  BY <1>1
<1>3. ASSUME NEW m \in MessageIds, Write(m) PROVE IInv'
  <2>1. PICK more \in Nat : \E wider : LinkInv(acked, sent, more, handled, wider, acking)'
    BY <1>2, <1>3, WriteStep
  <2> QED
    BY <2>1 DEF IInv
<1>4. CASE Flush
  <2>1. LinkInv(acked, filled, filled, handled, content, acking)'
    BY <1>2, <1>4, FlushStep
  <2> QED
    BY <2>1 DEF IInv
<1>5. CASE ArmHeartbeat \/ SendHeartbeat
  <2>1. LinkInv(acked, sent, filled, handled, content, acking)'
    BY <1>2, <1>5, ArmStep, HeartbeatStep
  <2> QED
    BY <2>1 DEF IInv
<1>7. ASSUME NEW d \in net, Arrive(d) PROVE IInv'
  <2>1. PICK h2 \in Nat : \E more : LinkInv(acked, sent, filled, h2, content, more)'
    BY <1>2, <1>7, ArriveStep
  <2> QED
    BY <2>1 DEF IInv
<1>8. CASE LoseAck
  BY <1>2, <1>8, LoseAckStep DEF IInv
<1>9. CASE ProcessAckNack
  BY <1>2, <1>9, ProcessAckNackStep DEF IInv
<1>10. CASE UNCHANGED vars
  <2>1. LinkInv(acked, sent, filled, handled, content, acking)'
    BY <1>2, <1>10 DEF LinkInv, Counts, SlotsKept, Contents, Carried, Stored, Waiting,
       Confirmed, Has, vars, writer, reader
  <2> QED
    BY <2>1 DEF IInv
<1> QED
  BY <1>3, <1>4, <1>5, <1>7, <1>8, <1>9, <1>10 DEF Next

LEMMA Invariance == Spec => []IInv
<1>1. Init => IInv
  BY InitInv
<1>2. IInv /\ [Next]_vars => IInv'
  BY InvStep
<1> QED
  BY <1>1, <1>2, PTL DEF Spec

(* The four distances between the numbers of the two ends stay in their    *)
(* bounds, of any width, for any history and through any number of wraps:  *)
(* seq_num_cmp orders them as they were given out.                         *)
THEOREM NumbersComparable == Spec => []Window
<1>1. IInv => Window
  <2> SUFFICES ASSUME IInv PROVE Window
    OBVIOUS
  <2>1. PICK acked \in Nat, sent \in Nat, filled \in Nat, handled \in Nat :
          \E content, acking : LinkInv(acked, sent, filled, handled, content, acking)
    BY DEF IInv
  <2>2. PICK content, acking : LinkInv(acked, sent, filled, handled, content, acking)
    BY <2>1
  <2> DEFINE w == Written(sent, filled)
  <2>3. /\ acked <= sent /\ sent <= filled /\ filled <= acked + History
        /\ last_acknown = Num(acked) /\ last_sent = Num(sent) /\ last_written = Num(w)
        /\ last_handled = Num(handled) /\ handled <= sent /\ acked < handled + History
    <3>1. Has(in, handled, acked) /\ Stored(in, handled, sent, content)
      BY <2>2 DEF LinkInv, Confirmed
    <3>2. acked < handled + History
      BY <3>1, HasWasSent
    <3> QED
      BY <2>2, <3>1, <3>2 DEF LinkInv, Counts, Stored
  <2>4. w \in Nat /\ sent < w /\ w - sent <= History /\ w - acked <= History + 1
    BY <2>3, Sizes DEF Written
  <2> HIDE DEF w
  <2>5. /\ History \in Nat \ {0} /\ 2 * History <= SEQ_NUM_MIDSIZE
        /\ SEQ_NUM_MIDSIZE \in Nat /\ SEQ_NUM_SIZE = 2 * SEQ_NUM_MIDSIZE
    BY Sizes
  <2>6. Dist(last_acknown, last_sent) = sent - acked
    BY <2>3, <2>5, SubNum DEF Dist
  <2>7. Dist(last_sent, last_written) = w - sent
    BY <2>3, <2>4, <2>5, SubNum DEF Dist
  <2>8. Dist(last_acknown, last_written) = w - acked
    BY <2>3, <2>4, <2>5, SubNum DEF Dist
  <2>9. Dist(last_handled, last_sent) = sent - handled
    BY <2>3, <2>5, SubNum DEF Dist
  <2> QED
    BY <2>3, <2>4, <2>5, <2>6, <2>7, <2>8, <2>9 DEF Window
<1> QED
  BY <1>1, Invariance, PTL

(* What is sent and not acknowledged stands in the writer's slots as it    *)
(* was sent, and as every copy on its way holds it.                        *)
THEOREM SentIsKept == Spec => []Retransmittable
<1>1. IInv => Retransmittable
  <2> SUFFICES ASSUME IInv, NEW s \in Between(last_acknown, last_sent)
               PROVE  /\ out[Slot(s)].items # <<>>
                      /\ \A d \in net :
                           d.seq = s /\ d.items # <<>> => d.items = out[Slot(s)].items
    BY DEF Retransmittable
  <2>1. PICK acked \in Nat, sent \in Nat, filled \in Nat, handled \in Nat :
          \E content, acking : LinkInv(acked, sent, filled, handled, content, acking)
    BY DEF IInv
  <2>2. PICK content, acking : LinkInv(acked, sent, filled, handled, content, acking)
    BY <2>1
  <2>3. /\ SEQ_NUM_MAX <= acked /\ acked <= sent /\ sent <= filled /\ filled <= acked + History
        /\ last_acknown = Num(acked) /\ last_sent = Num(sent)
        /\ History \in Nat \ {0} /\ 2 * History <= SEQ_NUM_MIDSIZE
        /\ SEQ_NUM_MIDSIZE \in Nat /\ SEQ_NUM_SIZE = 2 * SEQ_NUM_MIDSIZE
        /\ SEQ_NUM_MAX = SEQ_NUM_SIZE - 1
    BY <2>2, Sizes DEF LinkInv, Counts
  <2>4. Dist(last_acknown, last_sent) = sent - acked
    BY <2>3, SubNum DEF Dist
  <2>5. PICK k \in 1 .. sent - acked : s = seq_num_add(last_acknown, k)
    BY <2>4 DEF Between
  <2>6. PICK n \in Nat : n = acked + k
    BY <2>5
  <2>7. s = Num(n)
    <3>1. k \in 0 .. History
      BY <2>3
    <3> QED
      BY <2>3, <2>5, <2>6, <3>1, Ahead
  <2>8. n \in acked + 1 .. acked + History /\ n <= sent /\ n <= filled
        /\ n \in SEQ_NUM_SIZE .. filled
    BY <2>3, <2>6
  <2>9. out[Slot(s)].items = content[n]
    BY <2>2, <2>7, <2>8, SlotNum DEF LinkInv, SlotsKept
  <2>10. content[n] # <<>>
    BY <2>2, <2>8 DEF LinkInv, Contents
  <2>11. ASSUME NEW d \in net, d.seq = s, d.items # <<>>
         PROVE  d.items = content[n]
    <3>1. PICK m \in Nat :
            /\ d.seq = Num(m) /\ m <= sent /\ sent - m < SEQ_NUM_MIDSIZE
            /\ d.items # <<>> => m >= SEQ_NUM_SIZE /\ d.items = content[m]
      BY <2>2 DEF LinkInv, Carried
    <3>2. Num(m) = Num(n)
      BY <2>7, <2>11, <3>1
    <3>3. m - n < SEQ_NUM_SIZE /\ n - m < SEQ_NUM_SIZE
      BY <2>3, <2>8, <3>1
    <3>4. m = n
      BY <3>2, <3>3, NumApart
    <3> QED
      BY <2>11, <3>1, <3>4
  <2> QED
    BY <2>9, <2>10, <2>11
<1> QED
  BY <1>1, Invariance, PTL

(* What is acknowledged and not read is in the reader's slots.             *)
THEOREM AckedNotLost == Spec => []AckedIsKept
<1>1. IInv => AckedIsKept
  <2> SUFFICES ASSUME IInv, seq_num_cmp(last_handled, last_acknown) < 0,
                      NEW s \in Between(last_handled, last_acknown)
               PROVE  in[Slot(s)] # <<>>
    BY DEF AckedIsKept
  <2>1. PICK acked \in Nat, sent \in Nat, filled \in Nat, handled \in Nat :
          \E content, acking : LinkInv(acked, sent, filled, handled, content, acking)
    BY DEF IInv
  <2>2. PICK content, acking : LinkInv(acked, sent, filled, handled, content, acking)
    BY <2>1
  <2>3. Has(in, handled, acked) /\ Stored(in, handled, sent, content)
    BY <2>2 DEF LinkInv, Confirmed
  <2>4. /\ acked <= sent /\ sent <= acked + History /\ handled <= sent
        /\ last_acknown = Num(acked) /\ last_handled = Num(handled)
        /\ History \in Nat \ {0} /\ 2 * History <= SEQ_NUM_MIDSIZE
        /\ SEQ_NUM_MIDSIZE \in Nat /\ SEQ_NUM_SIZE = 2 * SEQ_NUM_MIDSIZE
        /\ acked < handled + History
    <3>1. acked < handled + History
      BY <2>3, HasWasSent
    <3>2. acked <= sent /\ sent <= filled /\ filled <= acked + History
          /\ last_acknown = Num(acked) /\ last_handled = Num(handled)
      BY <2>2 DEF LinkInv, Counts
    <3> QED
      BY <2>3, <3>1, <3>2, Sizes DEF Stored
  <2>5. handled < acked
    <3>1. handled - acked <= SEQ_NUM_MIDSIZE /\ acked - handled < SEQ_NUM_MIDSIZE
      BY <2>4
    <3> QED
      BY <2>4, <3>1, CmpNum
  <2>6. Dist(last_handled, last_acknown) = acked - handled
    BY <2>4, <2>5, SubNum DEF Dist
  <2>7. PICK k \in 1 .. acked - handled : s = seq_num_add(last_handled, k)
    BY <2>6 DEF Between
  <2>8. k \in 0 .. History
    BY <2>4
  <2>9. Slot(s) = Place(handled + k)
    BY <2>4, <2>7, <2>8, Ahead
  <2>10. handled + k \in handled + 1 .. acked /\ ~(acked <= handled)
    BY <2>5
  <2> QED
    BY <2>3, <2>9, <2>10 DEF Has
<1> QED
  BY <1>1, Invariance, PTL

-----------------------------------------------------------------------------
(* Types.                                                                  *)

Counters == tries \in BOOLEAN /\ faults \in 0 .. MaxFaults /\ got \in Seq(Readable)

LEMMA FiniteIfNumbered ==
  ASSUME NEW n \in Nat, NEW f, NEW S, \A y \in S : \E k \in 1 .. n : f[k] = y
  PROVE  IsFiniteSet(S)
<1> DEFINE T == {k \in 1 .. n : f[k] \in S}
           g == [k \in T |-> f[k]]
<1>1. IsFiniteSet(1 .. n)
  BY FS_Interval
<1>2. IsFiniteSet(T)
  BY <1>1, FS_Subset
<1>3. g \in Surjection(T, S)
  BY DEF Surjection
<1> HIDE DEF T, g
<1> QED
  BY <1>2, <1>3, FS_Surjection

LEMMA FaultsCounted ==
  ASSUME faults \in 0 .. MaxFaults, NEW batch, IsFiniteSet(batch), NEW rest, NEW last,
         NEW late \in {0, 1}, Transmit(batch, rest, last, late)
  PROVE  faults' \in 0 .. MaxFaults
<1>1. PICK lost \in SUBSET batch :
        faults' = faults + Cardinality(lost) + late /\ faults' <= MaxFaults
  BY DEF Transmit
<1>2. Cardinality(lost) \in Nat
  BY FS_Subset, FS_CardinalityType
<1>3. MaxFaults \in Nat
  BY SlotsAssumption
<1> QED
  BY <1>1, <1>2, <1>3

LEMMA FlushCounted ==
  ASSUME NEW acked \in Nat, NEW sent \in Nat, NEW filled \in Nat, NEW content,
         Counts(acked, sent, filled), SlotsKept(acked, filled, content),
         faults \in 0 .. MaxFaults, Flush
  PROVE  faults' \in 0 .. MaxFaults
<1> DEFINE batch == {Datagram(seq_num_add(last_sent, k)) : k \in 1 .. Burst}
           f == [k \in 1 .. Burst |-> Datagram(seq_num_add(last_sent, k))]
<1>1. Burst \in Nat
  <2>1. filled - sent \in Nat
    BY DEF Counts
  <2> QED
    BY <2>1, BurstIsAll
<1>2. \A y \in batch : \E k \in 1 .. Burst : f[k] = y
  OBVIOUS
<1>3. Transmit(batch, net, last_sent', 0)
  BY DEF Flush
<1> HIDE DEF batch, f
<1>4. IsFiniteSet(batch)
  BY <1>1, <1>2, FiniteIfNumbered
<1> QED
  BY <1>3, <1>4, FaultsCounted

LEMMA ResendCounted ==
  ASSUME NEW acked, NEW handled, NEW acking, Confirmed(acked, handled, acking),
         last_sent \in SeqNums, faults \in 0 .. MaxFaults, ProcessAckNack
  PROVE  faults' \in 0 .. MaxFaults
<1> DEFINE ack == Head(acks)
           a == Acked(ack)
           unacked == IF ~ ack.nack \/ seq_num_cmp(seq_num_add(a, 1), last_sent) > 0 THEN {}
                      ELSE {seq_num_add(a, k) : k \in 1 .. seq_num_sub(last_sent, a)}
           again == {s \in unacked : out'[Slot(s)].size # header_offset}
           batch == {[seq |-> s, items |-> out'[Slot(s)].items] : s \in again}
           N == seq_num_sub(last_sent, a)
           f == [k \in 1 .. N |-> [seq |-> seq_num_add(a, k),
                                   items |-> out'[Slot(seq_num_add(a, k))].items]]
<1>1. N \in Nat
  <2>1. ack.from \in SeqNums
    <3>1. acks \in Seq([from : SeqNums, nack : BOOLEAN]) /\ acks # <<>>
      BY DEF Confirmed, ProcessAckNack
    <3>2. ack \in [from : SeqNums, nack : BOOLEAN]
      BY <3>1, HeadTailProperties
    <3> QED
      BY <3>2
  <2> HIDE DEF ack
  <2>2. a \in SeqNums
    BY <2>1, Sizes DEF Acked, seq_num_sub, SeqNums
  <2> HIDE DEF a
  <2> QED
    BY <2>2, Sizes DEF seq_num_sub, SeqNums
<1>2. Transmit(batch, net, last_sent', 0)
  <2>1. last_sent' = last_sent
    BY DEF ProcessAckNack
  <2> QED
    BY <2>1 DEF ProcessAckNack
<1> HIDE DEF ack, a
<1>3. \A y \in batch : \E k \in 1 .. N : f[k] = y
  <2> SUFFICES ASSUME NEW s \in again
               PROVE  \E k \in 1 .. N : f[k] = [seq |-> s, items |-> out'[Slot(s)].items]
    OBVIOUS
  <2>1. PICK k \in 1 .. N : s = seq_num_add(a, k)
    OBVIOUS
  <2> HIDE DEF N
  <2> QED
    BY <2>1
<1> HIDE DEF batch, f, N
<1>4. IsFiniteSet(batch)
  BY <1>1, <1>3, FiniteIfNumbered
<1> QED
  BY <1>2, <1>4, FaultsCounted

LEMMA CountersStep == IInv /\ Counters /\ [Next]_vars => Counters'
<1> SUFFICES ASSUME IInv, Counters, [Next]_vars PROVE Counters'
  OBVIOUS
<1>1. PICK acked \in Nat, sent \in Nat, filled \in Nat, handled \in Nat :
        \E content, acking : LinkInv(acked, sent, filled, handled, content, acking)
  BY DEF IInv
<1>2. PICK content, acking : LinkInv(acked, sent, filled, handled, content, acking)
  BY <1>1
<1>3. <<>> \in Seq(Readable)
  BY EmptySeq
<1>4. /\ Counts(acked, sent, filled) /\ SlotsKept(acked, filled, content)
      /\ Confirmed(acked, handled, acking)
  BY <1>2 DEF LinkInv
<1>5. ASSUME NEW m \in MessageIds, Write(m) PROVE Counters'
  BY <1>3, <1>5 DEF Write, Counters
<1>6. CASE Flush
  <2>1. faults' \in 0 .. MaxFaults
    BY <1>4, <1>6, FlushCounted DEF Counters
  <2> QED
    BY <1>3, <1>6, <2>1 DEF Flush, Counters
<1>7. CASE ArmHeartbeat
  BY <1>3, <1>7 DEF ArmHeartbeat, Counters
<1>8. CASE SendHeartbeat
  <2>1. Transmit({Heartbeat(last_sent)}, net, last_sent, IF net = {} /\ acks = <<>> THEN 0 ELSE 1)
    BY <1>8 DEF SendHeartbeat
  <2>2. IsFiniteSet({Heartbeat(last_sent)})
    BY FS_Singleton
  <2>3. faults' \in 0 .. MaxFaults
    BY <2>1, <2>2, FaultsCounted DEF Counters
  <2> QED
    BY <1>3, <1>8, <2>3 DEF SendHeartbeat, Counters, writer
<1>9. ASSUME NEW d \in net, Arrive(d) PROVE Counters'
  <2>1. PICK h2 \in Nat : \E more :
          /\ LinkInv(acked, sent, filled, h2, content, more)'
          /\ Told(got', handled, h2, content, filled, acked)
    BY <1>2, <1>9, ArriveStep
  <2>2. got' \in Seq(Readable)
    BY <2>1 DEF Told
  <2>3. faults' \in 0 .. MaxFaults
    BY <1>9, SlotsAssumption DEF Arrive, Counters
  <2> QED
    BY <1>9, <2>2, <2>3 DEF Arrive, Counters, writer
<1>10. CASE LoseAck
  <2>1. faults' \in 0 .. MaxFaults
    BY <1>10, SlotsAssumption DEF LoseAck, Counters
  <2> QED
    BY <1>3, <1>10, <2>1 DEF LoseAck, Counters, writer
<1>11. CASE ProcessAckNack
  <2>1. last_sent \in SeqNums
    BY <1>4, NumType DEF Counts
  <2>2. faults' \in 0 .. MaxFaults
    BY <1>4, <1>11, <2>1, ResendCounted DEF Counters
  <2> QED
    BY <1>3, <1>11, <2>2 DEF ProcessAckNack, Counters
<1>12. CASE UNCHANGED vars
  BY <1>12 DEF vars, writer, Counters
<1> QED
  BY <1>5, <1>6, <1>7, <1>8, <1>9, <1>10, <1>11, <1>12 DEF Next

(* No slot of either stream ever holds more than its capacity, whatever is *)
(* written, split and sent again, and every number, datagram and ACKNACK   *)
(* is one of the streams'.                                                 *)
THEOREM LinkTypeCorrect == Spec => []TypeOK
<1>1. Init => Counters
  <2>1. <<>> \in Seq(Readable) /\ MaxFaults \in Nat
    BY EmptySeq, SlotsAssumption
  <2> SUFFICES ASSUME Init PROVE Counters
    OBVIOUS
  <2>2. tries = FALSE /\ faults = 0 /\ got = <<>>
    BY DEF Init
  <2>3. tries \in BOOLEAN
    BY <2>2
  <2>4. faults \in 0 .. MaxFaults
    BY <2>1, <2>2
  <2> QED
    BY <2>1, <2>2, <2>3, <2>4 DEF Counters
<1>2. IInv /\ Counters /\ [Next]_vars => Counters'
  BY CountersStep
<1>3. IInv /\ Counters => TypeOK
  <2> SUFFICES ASSUME IInv, Counters PROVE TypeOK
    OBVIOUS
  <2>1. PICK acked \in Nat, sent \in Nat, filled \in Nat, handled \in Nat :
          \E content, acking : LinkInv(acked, sent, filled, handled, content, acking)
    BY DEF IInv
  <2>2. PICK content, acking : LinkInv(acked, sent, filled, handled, content, acking)
    BY <2>1
  <2>3. /\ last_written \in SeqNums /\ last_sent \in SeqNums /\ last_acknown \in SeqNums
        /\ last_handled \in SeqNums
    <3>1. Written(sent, filled) \in Nat
      BY DEF Written
    <3> QED
      BY <2>2, <3>1, NumType DEF LinkInv, Counts
  <2>4. out \in [Slots -> [size : 0 .. Capacity, items : Seq(Items)]]
    BY <2>2 DEF LinkInv, SlotsKept, OutSlots
  <2>5. in \in [Slots -> Seq(Items)] /\ last_announced \in SeqNums
    BY <2>2 DEF LinkInv, Stored
  <2>6. net \subseteq [seq : SeqNums, items : Seq(Items)]
    BY <2>2 DEF LinkInv, Carried, Datagrams
  <2>7. acks \in Seq([from : SeqNums, nack : BOOLEAN])
    BY <2>2 DEF LinkInv, Confirmed
  <2> QED
    BY <2>3, <2>4, <2>5, <2>6, <2>7 DEF TypeOK, Counters, Readable
<1> QED
  BY <1>1, <1>2, <1>3, Invariance, PTL DEF Spec

-----------------------------------------------------------------------------
(* The streams are a reliable channel.                                     *)

(* Pieces joined one after the other.                                      *)
Joins(n, e, g) == g = [k \in 0 .. n |-> IF k = 0 THEN <<>> ELSE g[k - 1] \o e[k]]

LEMMA JoinsExist ==
  ASSUME NEW e, NEW n \in Nat
  PROVE  \E g : Joins(n, e, g)
<1> DEFINE T == {m \in Nat : ~ \E g : Joins(m, e, g)}
<1> SUFFICES ASSUME T # {} PROVE FALSE
  OBVIOUS
<1>1. PICK x \in T : \A y \in T : x <= y
  <2>1. T \in SUBSET Nat
    OBVIOUS
  <2> HIDE DEF T
  <2> QED
    BY <2>1, Least
<1>2. CASE x = 0
  <2> DEFINE g == [k \in 0 .. 0 |-> <<>>]
  <2>1. Joins(0, e, g)
    <3>1. \A k \in 0 .. 0 : k = 0
      OBVIOUS
    <3> QED
      BY <3>1 DEF Joins
  <2> QED
    BY <1>2, <2>1
<1>3. CASE x # 0
  <2>1. x \in Nat /\ x - 1 \in Nat /\ x - 1 \notin T
    BY <1>1, <1>3
  <2>2. PICK g : Joins(x - 1, e, g)
    BY <2>1
  <2>3. /\ \A k \in 0 .. x : k = 0 \/ k - 1 \in 0 .. x - 1
        /\ \A k \in 0 .. x - 1 : k = 0 \/ k - 1 \in 0 .. x - 1
        /\ 0 \in 0 .. x - 1
    BY <2>1, <1>3
  <2>4. g[0] = <<>> /\ \A k \in 0 .. x - 1 : k # 0 => g[k] = g[k - 1] \o e[k]
    BY <2>2, <2>3 DEF Joins
  <2> DEFINE h == [k \in 0 .. x |-> IF k = 0 THEN <<>> ELSE g[k - 1] \o e[k]]
  <2>5. \A k \in 0 .. x - 1 : h[k] = g[k]
    <3> SUFFICES ASSUME NEW k \in 0 .. x - 1 PROVE h[k] = g[k]
      OBVIOUS
    <3>1. k \in 0 .. x
      BY <2>1
    <3>2. h[k] = IF k = 0 THEN <<>> ELSE g[k - 1] \o e[k]
      BY <3>1
    <3> HIDE DEF h
    <3> QED
      BY <2>4, <3>2
  <2>6. \A k \in 0 .. x : k # 0 => h[k - 1] = g[k - 1]
    <3> HIDE DEF h
    <3> QED
      BY <2>3, <2>5
  <2>7. Joins(x, e, h)
    <3>1. h = [k \in 0 .. x |-> IF k = 0 THEN <<>> ELSE h[k - 1] \o e[k]]
      BY <2>6
    <3> HIDE DEF h
    <3> QED
      BY <3>1 DEF Joins
  <2> QED
    BY <2>7
<1> QED
  BY <1>2, <1>3

(* They make the difference between a first and a last total.              *)
Differ(n, e, t) ==
  /\ \A k \in 1 .. n : e[k] \in Seq(MessageIds)
  /\ \A k \in 0 .. n : t[k] \in Seq(MessageIds)
  /\ \A k \in 1 .. n : t[k] = t[k - 1] \o e[k]

Makes(n, g, t) == g[n] \in Seq(MessageIds) /\ t[0] \o g[n] = t[n]

LEMMA MessagesJoined ==
  \A a, b, c \in Seq(MessageIds) : (a \o b) \o c = a \o (b \o c) /\ a \o b \in Seq(MessageIds)
  BY ConcatAssociative, ConcatProperties

LEMMA JoinIs ==
  ASSUME NEW n \in Nat, NEW e, NEW g, NEW t, Joins(n, e, g), Differ(n, e, t)
  PROVE  Makes(n, g, t)
<1> DEFINE Good(k) == g[k] \in Seq(MessageIds) /\ t[0] \o g[k] = t[k]
           T == {k \in 0 .. n : ~ Good(k)}
<1>1. g[0] = <<>> /\ \A k \in 1 .. n : g[k] = g[k - 1] \o e[k]
  <2>1. 0 \in 0 .. n /\ \A k \in 1 .. n : k \in 0 .. n /\ k # 0
    OBVIOUS
  <2> QED
    BY <2>1 DEF Joins
<1>2. Good(0)
  <2>1. 0 \in 0 .. n
    OBVIOUS
  <2>2. t[0] \in Seq(MessageIds) /\ <<>> \in Seq(MessageIds)
    BY <2>1, EmptySeq DEF Differ
  <2> QED
    BY <1>1, <2>2, ConcatEmptySeq
<1>3. ASSUME NEW k \in 1 .. n, Good(k - 1) PROVE Good(k)
  <2>1. /\ e[k] \in Seq(MessageIds) /\ g[k - 1] \in Seq(MessageIds) /\ t[0] \in Seq(MessageIds)
        /\ t[k] = t[k - 1] \o e[k] /\ t[0] \o g[k - 1] = t[k - 1]
        /\ g[k] = g[k - 1] \o e[k]
    <3>1. 0 \in 0 .. n
      OBVIOUS
    <3> QED
      BY <1>1, <1>3, <3>1 DEF Differ
  <2>2. /\ (t[0] \o g[k - 1]) \o e[k] = t[0] \o (g[k - 1] \o e[k])
        /\ g[k - 1] \o e[k] \in Seq(MessageIds)
    BY <2>1, MessagesJoined
  <2> QED
    BY <2>1, <2>2
<1>4. T = {}
  <2> SUFFICES ASSUME T # {} PROVE FALSE
    OBVIOUS
  <2>1. PICK x \in T : \A y \in T : x <= y
    <3> HIDE DEF Good
    <3>1. T \in SUBSET Nat
      OBVIOUS
    <3> HIDE DEF T
    <3> QED
      BY <3>1, Least
  <2>2. x \in 0 .. n /\ ~ Good(x)
    OBVIOUS
  <2> HIDE DEF Good
  <2>3. x \in 1 .. n /\ x - 1 \in 0 .. n /\ ~(x <= x - 1)
    BY <1>2, <2>2
  <2>4. Good(x - 1)
    BY <2>1, <2>3
  <2> QED
    BY <1>3, <2>2, <2>3, <2>4
<1>5. n \in 0 .. n
  OBVIOUS
<1>6. Good(n)
  <2> HIDE DEF Good
  <2> QED
    BY <1>4, <1>5
<1> QED
  BY <1>6 DEF Makes

(* What is kept of number n, by the writer or by the reader.               *)
LEMMA KeptIs ==
  ASSUME NEW acked \in Nat, NEW sent \in Nat, NEW filled \in Nat, NEW handled \in Nat,
         NEW content, NEW acking,
         LinkInv(acked, sent, filled, handled, content, acking),
         NEW n \in handled + 1 .. acked + History
  PROVE  Kept(Num(n)) = IF n <= filled THEN content[n] ELSE <<>>
<1>1. /\ Counts(acked, sent, filled) /\ SlotsKept(acked, filled, content)
      /\ Stored(in, handled, sent, content) /\ Has(in, handled, acked)
  BY DEF LinkInv, Confirmed
<1>2. /\ acked <= sent /\ sent <= filled /\ filled <= acked + History
      /\ last_acknown = Num(acked) /\ acked < handled + History /\ n \in Nat
      /\ History \in Nat \ {0} /\ 2 * History <= SEQ_NUM_MIDSIZE /\ SEQ_NUM_MIDSIZE \in Nat \ {0}
  <2>1. acked < handled + History
    BY <1>1, HasWasSent
  <2> QED
    BY <1>1, <2>1, Sizes DEF Counts
<1>3. seq_num_cmp(Num(n), last_acknown) <= 0 <=> n <= acked
  <2>1. n - acked <= SEQ_NUM_MIDSIZE /\ acked - n < SEQ_NUM_MIDSIZE
    BY <1>2
  <2> QED
    BY <1>2, <2>1, CmpNum
<1>4. Slot(Num(n)) = Place(n)
  BY <1>2, SlotNum
<1>5. CASE n <= acked
  <2>1. n \in handled + 1 .. acked /\ ~(acked <= handled) /\ n \in handled + 1 .. handled + History
    BY <1>2, <1>5
  <2>2. in[Place(n)] # <<>>
    BY <1>1, <2>1 DEF Has
  <2>3. in[Place(n)] = content[n]
    BY <1>1, <2>1, <2>2 DEF Stored
  <2>4. n <= filled
    BY <1>2, <1>5
  <2> QED
    BY <1>3, <1>4, <1>5, <2>3, <2>4 DEF Kept
<1>6. CASE ~(n <= acked)
  <2>1. n \in acked + 1 .. acked + History /\ (n <= filled \/ n > filled)
    BY <1>2, <1>6
  <2>2. Kept(Num(n)) = out[Place(n)].items
    BY <1>3, <1>4, <1>6 DEF Kept
  <2>3. CASE n <= filled
    BY <1>1, <2>1, <2>2, <2>3 DEF SlotsKept
  <2>4. CASE n > filled
    BY <1>1, <1>2, <2>1, <2>2, <2>4 DEF SlotsKept, EmptySlot
  <2> QED
    BY <2>1, <2>3, <2>4
<1> QED
  BY <1>5, <1>6

LEMMA LastFilledIs ==
  ASSUME NEW acked \in Nat, NEW sent \in Nat, NEW filled \in Nat, NEW content,
         Counts(acked, sent, filled), SlotsKept(acked, filled, content)
  PROVE  \E top \in Nat : /\ LastFilled = Num(top) /\ top <= acked + History
                          /\ top = filled \/ top = filled + 1
<1> DEFINE w == Written(sent, filled)
<1>1. /\ w \in Nat /\ (w = filled \/ w = filled + 1) /\ last_written = Num(w)
      /\ (w = filled + 1 => sent = filled) /\ last_sent = Num(sent) /\ filled <= acked + History
      /\ Room(last_written) <=> w <= acked + History
  <2>1. Room(last_written) <=> w <= acked + History
    BY CurrentSlot
  <2> QED
    BY <2>1 DEF Counts, Written
<1> HIDE DEF w
<1>2. CASE Room(last_written)
  BY <1>1, <1>2 DEF LastFilled
<1>3. CASE ~ Room(last_written)
  <2>1. w = filled + 1 /\ sent = filled
    BY <1>1, <1>3
  <2> QED
    BY <1>1, <1>3, <2>1 DEF LastFilled
<1> QED
  BY <1>2, <1>3

(* The pending messages are the difference of two totals: what ends in a   *)
(* slot up to the last filled one, and what did up to the reader's number. *)
Balance(pending, handled, filled, total) ==
  pending \in Seq(MessageIds) /\ total[handled] \o pending = total[filled]

LEMMA PendingIs ==
  ASSUME NEW acked \in Nat, NEW sent \in Nat, NEW filled \in Nat, NEW handled \in Nat,
         NEW content, NEW acking, NEW total,
         LinkInv(acked, sent, filled, handled, content, acking),
         Story(content, filled, total)
  PROVE  Balance(Pending, handled, filled, total)
<1> DEFINE n == Dist(last_handled, LastFilled)
           f[k \in 0 .. n] ==
             IF k = 0 THEN <<>> ELSE f[k - 1] \o Ends(Kept(seq_num_add(last_handled, k)))
           e == [k \in 1 .. n |-> Ends(Kept(seq_num_add(last_handled, k)))]
           t == [k \in 0 .. n |-> IF handled + k <= filled THEN total[handled + k] ELSE total[filled]]
<1>1. /\ Counts(acked, sent, filled) /\ SlotsKept(acked, filled, content)
      /\ Stored(in, handled, sent, content) /\ last_handled = Num(handled)
      /\ Has(in, handled, acked) /\ Contents(content, filled)
  BY DEF LinkInv, Confirmed
<1>2. /\ sent <= filled /\ filled <= acked + History /\ handled <= sent
      /\ acked < handled + History /\ SEQ_NUM_MAX <= handled
      /\ History \in Nat \ {0} /\ 2 * History <= SEQ_NUM_MIDSIZE /\ SEQ_NUM_MIDSIZE \in Nat \ {0}
      /\ SEQ_NUM_SIZE = 2 * SEQ_NUM_MIDSIZE /\ SEQ_NUM_MAX = SEQ_NUM_SIZE - 1
  <2>1. acked < handled + History
    BY <1>1, HasWasSent
  <2> QED
    BY <1>1, <2>1, Sizes DEF Counts, Stored
<1>3. PICK top \in Nat : /\ LastFilled = Num(top) /\ top <= acked + History
                         /\ top = filled \/ top = filled + 1
  BY <1>1, LastFilledIs
<1>4. handled <= top /\ top - handled < SEQ_NUM_SIZE
  BY <1>2, <1>3
<1>5. n = top - handled /\ n \in Nat
  <2>1. n = top - handled
    BY <1>1, <1>3, <1>4, SubNum DEF Dist
  <2> QED
    BY <1>4, <2>1
<1>6. Pending = f[n]
  BY DEF Pending
<1>7. f = CHOOSE h : h = [k \in 0 .. n |->
            IF k = 0 THEN <<>> ELSE h[k - 1] \o Ends(Kept(seq_num_add(last_handled, k)))]
  BY DEF f
<1> HIDE DEF f, n
<1>8. \A h : Joins(n, e, h) <=> h = [k \in 0 .. n |->
            IF k = 0 THEN <<>> ELSE h[k - 1] \o Ends(Kept(seq_num_add(last_handled, k)))]
  <2> SUFFICES ASSUME NEW h
               PROVE  Joins(n, e, h) <=> h = [k \in 0 .. n |->
                        IF k = 0 THEN <<>> ELSE h[k - 1] \o Ends(Kept(seq_num_add(last_handled, k)))]
    OBVIOUS
  <2>1. \A k \in 0 .. n : k # 0 => k \in 1 .. n
    BY <1>5
  <2>2. \A k \in 0 .. n : k # 0 => e[k] = Ends(Kept(seq_num_add(last_handled, k)))
    BY <2>1
  <2> HIDE DEF e
  <2> QED
    BY <2>2 DEF Joins
<1> HIDE DEF e
<1>9. Joins(n, e, f)
  <2>1. \E h : Joins(n, e, h)
    BY <1>5, JoinsExist
  <2> QED
    BY <1>7, <1>8, <2>1
<1>10. ASSUME NEW k \in 1 .. n
       PROVE  e[k] = IF handled + k <= filled THEN Ends(content[handled + k]) ELSE <<>>
  <2>1. k \in 0 .. SEQ_NUM_MAX /\ handled + k \in handled + 1 .. acked + History
        /\ k < SEQ_NUM_SIZE /\ k \in Nat
    BY <1>2, <1>3, <1>4, <1>5
  <2>2. seq_num_add(last_handled, k) = Num(handled + k)
    BY <1>1, <2>1, AddNum
  <2>3. Kept(Num(handled + k)) = IF handled + k <= filled THEN content[handled + k] ELSE <<>>
    BY <2>1, KeptIs
  <2>4. e[k] = Ends(Kept(Num(handled + k)))
    BY <2>2 DEF e
  <2> QED
    BY <2>3, <2>4, EndsOfOne
<1>11. total \in [Nat -> Seq(MessageIds)] /\ content \in [Nat -> Seq(Items)]
  BY <1>1 DEF Story, Contents
<1>12. \A k \in 0 .. n : t[k] \in Seq(MessageIds)
                         /\ t[k] = IF handled + k <= filled THEN total[handled + k] ELSE total[filled]
  <2> SUFFICES ASSUME NEW k \in 0 .. n
               PROVE  /\ t[k] \in Seq(MessageIds)
                      /\ t[k] = IF handled + k <= filled THEN total[handled + k] ELSE total[filled]
    OBVIOUS
  <2>1. handled + k \in Nat
    BY <1>5
  <2> QED
    BY <1>11, <2>1
<1> HIDE DEF t
<1>13. Differ(n, e, t)
  <2> SUFFICES ASSUME NEW k \in 1 .. n
               PROVE  e[k] \in Seq(MessageIds) /\ t[k] = t[k - 1] \o e[k]
    BY <1>12 DEF Differ
  <2>1. k \in 0 .. n /\ k - 1 \in 0 .. n /\ handled + k \in Nat /\ handled + (k - 1) = (handled + k) - 1
    BY <1>5
  <2>2. CASE handled + k <= filled
    <3>1. handled + k \in SEQ_NUM_SIZE .. filled /\ handled + (k - 1) <= filled
      BY <1>2, <2>1, <2>2
    <3>2. Framed(content, filled, total, handled + k)
      BY <3>1 DEF Story
    <3>3. content[handled + k] \in Seq(Items)
      BY <1>11, <2>1
    <3>4. e[k] = Ends(content[handled + k]) /\ e[k] \in Seq(MessageIds)
      BY <1>10, <2>2, <3>3, EndsType
    <3>5. t[k] = total[handled + k] /\ t[k - 1] = total[(handled + k) - 1]
      BY <1>12, <2>1, <2>2, <3>1
    <3> QED
      BY <3>2, <3>4, <3>5 DEF Framed
  <2>3. CASE ~(handled + k <= filled)
    <3>1. e[k] = <<>> /\ e[k] \in Seq(MessageIds)
      BY <1>10, <2>3, EmptySeq
    <3>2. t[k] = total[filled]
      BY <1>12, <2>1, <2>3
    <3>3. handled + (k - 1) = filled
      BY <1>3, <1>5, <2>3
    <3>4. t[k - 1] = total[filled] /\ t[k - 1] \in Seq(MessageIds)
      BY <1>12, <2>1, <3>3
    <3> QED
      BY <3>1, <3>2, <3>4, ConcatEmptySeq
  <2> QED
    BY <2>2, <2>3
<1>14. f[n] \in Seq(MessageIds) /\ t[0] \o f[n] = t[n]
  <2>1. Makes(n, f, t)
    BY <1>5, <1>9, <1>13, JoinIs
  <2> QED
    BY <2>1 DEF Makes
<1>15. t[0] = total[handled] /\ t[n] = total[filled]
  <2>1. 0 \in 0 .. n /\ n \in 0 .. n /\ handled + 0 = handled /\ handled <= filled
    BY <1>2, <1>5
  <2>2. t[0] = total[handled]
    BY <1>12, <2>1
  <2>3. handled + n = filled \/ ~(handled + n <= filled)
    BY <1>3, <1>5
  <2> QED
    BY <1>12, <2>1, <2>2, <2>3
<1> QED
  BY <1>6, <1>14, <1>15 DEF Balance

Tale(acked, sent, filled, handled, content, acking, total) ==
  /\ LinkInv(acked, sent, filled, handled, content, acking)
  /\ Story(content, filled, total) /\ AtStart(content, handled)

TInv ==
  \E acked, sent, filled, handled \in Nat : \E content, acking, total :
    Tale(acked, sent, filled, handled, content, acking, total)

(* The pending messages, in this state and in the next one.                *)
PendingAlways ==
  \A acked, sent, filled, handled \in Nat : \A content, acking, total :
    LinkInv(acked, sent, filled, handled, content, acking) /\ Story(content, filled, total) =>
      Balance(Pending, handled, filled, total)

LEMMA PendingNow == PendingAlways
  BY PendingIs DEF PendingAlways

LEMMA PendingNext == PendingAlways'
  BY PendingNow, PTL

LEMMA PendingThen ==
  ASSUME NEW acked \in Nat, NEW sent \in Nat, NEW filled \in Nat, NEW handled \in Nat,
         NEW content, NEW acking, NEW total,
         LinkInv(acked, sent, filled, handled, content, acking)',
         Story(content, filled, total)
  PROVE  Balance(Pending', handled, filled, total)
<1>1. Story(content, filled, total)'
  BY DEF Story, Framed, Continued, AtStart, Starts, Begins, Ends
<1>2. Balance(Pending, handled, filled, total)'
  BY <1>1, PendingNext DEF PendingAlways
<1> QED
  BY <1>2 DEF Balance

(* A piece of a message goes into slots of its own, where it is labelled.  *)
FragmentsAlone ==
  \A m \in MessageIds : WriteFragments(m) => FragmentHeaders /\ (Tight \/ Current.items = <<>>)

(* What the link's invariant says of the counts.                           *)
LEMMA InOrder ==
  ASSUME NEW acked \in Nat, NEW sent \in Nat, NEW filled \in Nat, NEW handled \in Nat,
         NEW content, NEW acking, NEW total,
         Tale(acked, sent, filled, handled, content, acking, total)
  PROVE  /\ SEQ_NUM_MAX <= handled /\ handled <= sent /\ sent <= filled /\ SEQ_NUM_MAX <= filled
         /\ Contents(content, filled) /\ Story(content, filled, total)
         /\ total \in [Nat -> Seq(MessageIds)] /\ Balance(Pending, handled, filled, total)
<1>1. /\ SEQ_NUM_MAX <= handled /\ handled <= sent /\ sent <= filled
      /\ Contents(content, filled) /\ Story(content, filled, total)
  BY DEF Tale, LinkInv, Stored, Counts
<1>2. Balance(Pending, handled, filled, total)
  BY PendingIs DEF Tale
<1>3. SEQ_NUM_MAX \in Nat
  BY Sizes
<1> QED
  <2>1. total \in [Nat -> Seq(MessageIds)]
    BY <1>1 DEF Story
  <2>2. SEQ_NUM_MAX <= filled
    BY <1>1, <1>3
  <2> QED
    BY <1>1, <1>2, <2>1, <2>2

LEMMA Cancelled ==
  \A a, b, c \in Seq(Readable) : a \o b = a \o c => b = c
  BY ConcatSimplifications

LEMMA SeqOfReadable == \A s \in Seq(MessageIds) : s \in Seq(Readable)
<1>1. MessageIds \subseteq Readable
  BY DEF Readable
<1> QED
  BY <1>1, SeqMonotonic

LEMMA Balanced ==
  ASSUME NEW total \in [Nat -> Seq(MessageIds)], NEW handled \in Nat, NEW filled \in Nat,
         NEW p, NEW q, Balance(p, handled, filled, total), Balance(q, handled, filled, total)
  PROVE  p = q
<1>1. p \in Seq(Readable) /\ q \in Seq(Readable) /\ total[handled] \in Seq(Readable)
  BY SeqOfReadable DEF Balance
<1>2. total[handled] \o p = total[handled] \o q
  BY DEF Balance
<1> QED
  BY <1>1, <1>2, Cancelled

(* Where nothing is written and nothing read the channel stays.            *)
LEMMA SamePending ==
  ASSUME NEW acked \in Nat, NEW sent \in Nat, NEW filled \in Nat, NEW handled \in Nat,
         NEW content, NEW acking, NEW total,
         Tale(acked, sent, filled, handled, content, acking, total),
         NEW acked2 \in Nat, NEW sent2 \in Nat, NEW acking2,
         LinkInv(acked2, sent2, filled, handled, content, acking2)'
  PROVE  TInv' /\ Pending' = Pending
<1>1. /\ Story(content, filled, total) /\ total \in [Nat -> Seq(MessageIds)]
      /\ Balance(Pending, handled, filled, total)
  BY InOrder
<1>2. Balance(Pending', handled, filled, total)
  BY <1>1, PendingThen
<1>3. Pending' = Pending
  BY <1>1, <1>2, Balanced
<1>4. Tale(acked2, sent2, filled, handled, content, acking2, total)'
  <2>1. AtStart(content, handled)
    BY DEF Tale
  <2> QED
    BY <1>1, <2>1 DEF Tale, Story, Framed, Continued, AtStart, Starts, Begins, Ends
<1> QED
  BY <1>3, <1>4 DEF TInv

(* A message is written behind all that is pending.                        *)
Grown(m) == TInv' /\ Pending' = Append(Pending, m)

LEMMA PendingGrows ==
  ASSUME NEW acked \in Nat, NEW sent \in Nat, NEW filled \in Nat, NEW handled \in Nat,
         NEW content, NEW acking, NEW total,
         Tale(acked, sent, filled, handled, content, acking, total),
         NEW m \in MessageIds, NEW more \in Nat, NEW wider, sent < more, filled <= more,
         LinkInv(acked, sent, more, handled, wider, acking)',
         wider[handled] = content[handled],
         Story(wider, more, Extended(total, filled, more, m))
  PROVE  Grown(m)
<1> DEFINE t == Extended(total, filled, more, m)
           longer == Append(Pending, m)
<1>1. /\ SEQ_NUM_MAX <= handled /\ handled <= sent /\ sent <= filled
      /\ Story(content, filled, total)
      /\ total \in [Nat -> Seq(MessageIds)] /\ Balance(Pending, handled, filled, total)
  BY InOrder
<1>2. Totals(t, total, filled, more, m)
  BY <1>1, ExtendedTotal
<1> HIDE DEF t
<1>3. /\ t \in [Nat -> Seq(MessageIds)]
      /\ t[handled] = total[handled]
      /\ t[more] = Append(total[filled], m)
  <2>1. handled < more /\ handled <= filled
    <3>1. handled <= sent /\ sent <= filled
      BY <1>1
    <3> QED
      BY <3>1
  <2> QED
    BY <1>2, <2>1 DEF Totals
<1>4. Balance(Pending', handled, more, t)
  BY PendingThen DEF t
<1>5. Balance(longer, handled, more, t)
  <2>1. Pending \in Seq(MessageIds) /\ total[handled] \in Seq(MessageIds)
        /\ total[handled] \o Pending = total[filled]
    BY <1>1 DEF Balance
  <2>2. \A a, b \in Seq(MessageIds) : Append(a \o b, m) = a \o Append(b, m)
    BY JoinedAppend
  <2>3. longer \in Seq(MessageIds)
    BY <2>1
  <2>4. Append(total[handled] \o Pending, m) = total[handled] \o longer
    BY <2>1, <2>2
  <2> HIDE DEF longer
  <2> QED
    BY <1>3, <2>1, <2>3, <2>4 DEF Balance
<1> HIDE DEF longer
<1>6. Pending' = longer
  BY <1>3, <1>4, <1>5, Balanced
<1>7. Tale(acked, sent, more, handled, wider, acking, t)'
  <2>1. AtStart(wider, handled)
    BY DEF Tale, AtStart
  <2>2. Story(wider, more, t)
    BY DEF t
  <2> QED
    BY <2>1, <2>2 DEF Tale, Story, Framed, Continued, AtStart, Starts, Begins, Ends
<1> QED
  BY <1>6, <1>7 DEF TInv, Grown, longer

LEMMA WriteImplements ==
  ASSUME NEW acked \in Nat, NEW sent \in Nat, NEW filled \in Nat, NEW handled \in Nat,
         NEW content, NEW acking, NEW total,
         Tale(acked, sent, filled, handled, content, acking, total),
         NEW m \in MessageIds, Write(m), FragmentsAlone
  PROVE  TInv' /\ Channel!Write
<1>1. /\ LinkInv(acked, sent, filled, handled, content, acking)
      /\ SEQ_NUM_MAX <= handled /\ handled <= sent /\ sent <= filled /\ SEQ_NUM_MAX <= filled
      /\ Contents(content, filled) /\ Story(content, filled, total)
  BY InOrder DEF Tale
<1>2. PICK more \in Nat : \E wider :
        /\ LinkInv(acked, sent, more, handled, wider, acking)' /\ sent < more
        /\ \/ AddedWhole(content, filled, wider, more, m)
           \/ /\ WriteFragments(m)
              /\ \E first \in Nat :
                   /\ AddedPieces(content, filled, wider, first, more, m)
                   /\ sent < first /\ (first = filled => Behind(content[filled]))
  BY <1>1, WriteStep
<1>3. PICK wider :
        /\ LinkInv(acked, sent, more, handled, wider, acking)' /\ sent < more
        /\ \/ AddedWhole(content, filled, wider, more, m)
           \/ /\ WriteFragments(m)
              /\ \E first \in Nat :
                   /\ AddedPieces(content, filled, wider, first, more, m)
                   /\ sent < first /\ (first = filled => Behind(content[filled]))
  BY <1>2
<1>8. LinkInv(acked, sent, more, handled, wider, acking)' /\ sent < more
  BY <1>3
<1>0. SEQ_NUM_SIZE \in Nat \ {0} /\ SEQ_NUM_MAX = SEQ_NUM_SIZE - 1 /\ handled < more
  BY <1>1, <1>3, Sizes
<1>4. ASSUME AddedWhole(content, filled, wider, more, m)
      PROVE  Grown(m)
  <2>1. filled <= more /\ SEQ_NUM_SIZE <= more
    BY <1>0, <1>1, <1>4 DEF AddedWhole
  <2>2. Story(wider, more, Extended(total, filled, more, m))
    BY <1>1, <1>4, <2>1, WholeAdded
  <2>3. wider[handled] = content[handled]
    <3>1. content \in [Nat -> Seq(Items)]
      BY <1>1 DEF Contents
    <3>2. handled # more
      BY <1>0
    <3> QED
      BY <1>4, <3>1, <3>2 DEF AddedWhole
  <2> QED
    BY <1>8, <2>1, <2>2, <2>3, PendingGrows
<1>5. ASSUME WriteFragments(m),
             \E first \in Nat :
               /\ AddedPieces(content, filled, wider, first, more, m)
               /\ sent < first /\ (first = filled => Behind(content[filled]))
      PROVE  Grown(m)
  <2>1. PICK first \in Nat :
          /\ AddedPieces(content, filled, wider, first, more, m)
          /\ sent < first /\ (first = filled => Behind(content[filled]))
    BY <1>5
  <2>2. FragmentHeaders /\ (Tight \/ Current.items = <<>>)
    BY <1>5 DEF FragmentsAlone
  <2>3. first # filled
    <3> SUFFICES ASSUME first = filled PROVE FALSE
      OBVIOUS
    <3>1. filled \in SEQ_NUM_SIZE .. filled
      BY <1>0, <1>1, <2>1
    <3>2. content[filled] # <<>>
      BY <1>1, <3>1 DEF Contents
    <3> QED
      BY <2>1, <2>2, <3>2 DEF Behind
  <2>4. first = filled + 1 /\ first < more
    BY <2>1, <2>3 DEF AddedPieces
  <2>5. AddedPieces(content, filled, wider, filled + 1, more, m)
    BY <2>1, <2>4
  <2>6. Story(wider, more, Extended(total, filled, more, m))
    BY <1>1, <2>2, <2>5, PiecesAdded
  <2>7. wider[handled] = content[handled]
    <3>1. handled < filled + 1
      BY <1>1
    <3> QED
      BY <2>5, <3>1 DEF AddedPieces
  <2>8. filled <= more
    BY <2>4
  <2> QED
    BY <1>8, <2>6, <2>7, <2>8, PendingGrows
<1>6. Grown(m)
  BY <1>3, <1>4, <1>5
<1>7. got' = <<>>
  BY DEF Write
<1> QED
  BY <1>6, <1>7 DEF Grown, Channel!Write

LEMMA ReadableJoined ==
  \A a, b, c \in Seq(Readable) : (a \o b) \o c = a \o (b \o c) /\ a \o b \in Seq(Readable)
  BY ConcatAssociative, ConcatProperties

LEMMA EmptyJoined == \A a \in Seq(Readable) : <<>> \o a = a
  BY ConcatEmptySeq

(* What is read was pending, and comes before all that still is.           *)
LEMMA ReadFirst ==
  ASSUME NEW total \in [Nat -> Seq(MessageIds)], NEW handled \in Nat, NEW h2 \in Nat,
         NEW filled \in Nat, NEW read \in Seq(Readable), NEW p, NEW q,
         Balance(p, handled, filled, total), Balance(q, h2, filled, total),
         total[h2] = total[handled] \o read
  PROVE  p = read \o q
<1>1. p \in Seq(Readable) /\ q \in Seq(Readable) /\ total[handled] \in Seq(Readable)
  BY SeqOfReadable DEF Balance
<1>2. total[handled] \o p = (total[handled] \o read) \o q
  BY DEF Balance
<1>3. /\ read \o q \in Seq(Readable)
      /\ total[handled] \o p = total[handled] \o (read \o q)
  BY <1>1, <1>2, ReadableJoined
<1> QED
  BY <1>1, <1>3, Cancelled

(* The arrival of a datagram reads from the channel, or nothing.           *)
LEMMA ArriveImplements ==
  ASSUME NEW acked \in Nat, NEW sent \in Nat, NEW filled \in Nat, NEW handled \in Nat,
         NEW content, NEW acking, NEW total,
         Tale(acked, sent, filled, handled, content, acking, total),
         NEW d \in net, Arrive(d)
  PROVE  TInv' /\ (Channel!Read \/ Channel!Idle)
<1>1. /\ LinkInv(acked, sent, filled, handled, content, acking) /\ AtStart(content, handled)
      /\ Story(content, filled, total) /\ total \in [Nat -> Seq(MessageIds)]
      /\ Balance(Pending, handled, filled, total)
  BY InOrder DEF Tale
<1>2. PICK h2 \in Nat : \E more :
        /\ LinkInv(acked, sent, filled, h2, content, more)'
        /\ Told(got', handled, h2, content, filled, total)
  BY <1>1, ArriveStep
<1>3. PICK more :
        /\ LinkInv(acked, sent, filled, h2, content, more)'
        /\ Told(got', handled, h2, content, filled, total)
  BY <1>2
<1>4. LinkInv(acked, sent, filled, h2, content, more)'
  BY <1>3
<1>5. /\ got' \in Seq(Readable) /\ AtStart(content, h2)
      /\ total[h2] = total[handled] \o got'
  BY <1>1, <1>3 DEF Told
<1>6. Balance(Pending', h2, filled, total)
  BY <1>1, <1>4, PendingThen
<1>7. Pending = got' \o Pending'
  BY <1>1, <1>5, <1>6, ReadFirst
<1>8. Tale(acked, sent, filled, h2, content, more, total)'
  BY <1>1, <1>4, <1>5 DEF Tale, Story, Framed, Continued, AtStart, Starts, Begins, Ends
<1>9. TInv'
  BY <1>8 DEF TInv
<1>10. CASE got' = <<>>
  <2>1. Pending' \in Seq(Readable)
    BY <1>6, SeqOfReadable DEF Balance
  <2>2. Pending' = Pending
    BY <1>7, <1>10, <2>1, EmptyJoined
  <2> QED
    BY <1>9, <1>10, <2>2 DEF Channel!Idle
<1>11. CASE got' # <<>>
  BY <1>7, <1>9, <1>11 DEF Channel!Read
<1> QED
  BY <1>10, <1>11

(* Where neither end reads nor writes, the channel is idle.                *)
LEMMA IdleImplements ==
  ASSUME NEW acked \in Nat, NEW sent \in Nat, NEW filled \in Nat, NEW handled \in Nat,
         NEW content, NEW acking, NEW total,
         Tale(acked, sent, filled, handled, content, acking, total),
         Flush \/ ArmHeartbeat \/ SendHeartbeat \/ LoseAck \/ ProcessAckNack
  PROVE  TInv' /\ Channel!Idle
<1>1. LinkInv(acked, sent, filled, handled, content, acking)
  BY DEF Tale
<1>2. got' = <<>>
  BY DEF Flush, ArmHeartbeat, SendHeartbeat, LoseAck, ProcessAckNack
<1>3. TInv' /\ Pending' = Pending
  <2>1. CASE Flush
    BY <1>1, <2>1, FlushStep, SamePending
  <2>2. CASE ArmHeartbeat \/ SendHeartbeat
    <3>1. LinkInv(acked, sent, filled, handled, content, acking)'
      BY <1>1, <2>2, ArmStep, HeartbeatStep
    <3> QED
      BY <3>1, SamePending
  <2>3. CASE LoseAck
    <3>1. PICK behind : LinkInv(acked, sent, filled, handled, content, behind)'
      BY <1>1, <2>3, LoseAckStep
    <3> QED
      BY <3>1, SamePending
  <2>4. CASE ProcessAckNack
    <3>1. PICK a \in Nat : \E behind : LinkInv(a, sent, filled, handled, content, behind)'
      BY <1>1, <2>4, ProcessAckNackStep
    <3>2. PICK behind : LinkInv(a, sent, filled, handled, content, behind)'
      BY <3>1
    <3> QED
      BY <3>2, SamePending
  <2> QED
    BY <2>1, <2>2, <2>3, <2>4
<1> QED
  BY <1>2, <1>3 DEF Channel!Idle

LEMMA InitImplements == Init => TInv /\ Channel!Init
<1> SUFFICES ASSUME Init PROVE TInv /\ Channel!Init
  OBVIOUS
<1> DEFINE n == SEQ_NUM_MAX
           total == [i \in Nat |-> <<>>]
<1>1. n \in Nat /\ n < SEQ_NUM_SIZE /\ SEQ_NUM_SIZE \in Nat
  BY Sizes
<1>2. PICK content, acking : LinkInv(n, n, n, n, content, acking)
  BY InitLink
<1>3. total \in [Nat -> Seq(MessageIds)] /\ total[n] = <<>>
  BY <1>1, EmptySeq
<1> HIDE DEF total
<1>4. Story(content, n, total)
  <2>1. /\ \A k \in SEQ_NUM_SIZE .. n : FALSE
        /\ \A k \in SEQ_NUM_MAX .. n - 1 : FALSE
    BY <1>1
  <2> HIDE DEF n
  <2> QED
    BY <1>3, <2>1 DEF Story
<1>5. AtStart(content, n)
  BY DEF AtStart
<1> HIDE DEF n
<1>6. Tale(n, n, n, n, content, acking, total)
  BY <1>2, <1>4, <1>5 DEF Tale
<1>7. Balance(Pending, n, n, total)
  BY <1>1, <1>6, InOrder
<1>8. Pending = <<>>
  <2>1. Pending \in Seq(MessageIds) /\ <<>> \o Pending = <<>>
    BY <1>3, <1>7 DEF Balance
  <2>2. Pending \in Seq(Readable)
    BY <2>1, SeqOfReadable
  <2> QED
    BY <2>1, <2>2, EmptyJoined
<1>9. TInv
  BY <1>1, <1>6 DEF TInv
<1> QED
  BY <1>8, <1>9 DEF Init, Channel!Init

LEMMA StepImplements ==
  TInv /\ [Next]_vars /\ [FragmentsAlone]_vars => TInv' /\ [Channel!Next]_(Channel!vars)
<1> SUFFICES ASSUME TInv, [Next]_vars, [FragmentsAlone]_vars
             PROVE  TInv' /\ [Channel!Next]_(Channel!vars)
  OBVIOUS
<1>1. PICK acked \in Nat, sent \in Nat, filled \in Nat, handled \in Nat :
        \E content, acking, total : Tale(acked, sent, filled, handled, content, acking, total)
  BY DEF TInv
<1>2. PICK content, acking, total :
        Tale(acked, sent, filled, handled, content, acking, total)
  BY <1>1
<1>3. CASE UNCHANGED vars
  <2>1. LinkInv(acked, sent, filled, handled, content, acking)
    BY <1>2 DEF Tale
  <2>2. LinkInv(acked, sent, filled, handled, content, acking)'
    BY <2>1, <1>3 DEF LinkInv, Counts, SlotsKept, Contents, Carried, Stored, Waiting,
       Confirmed, Has, vars, writer, reader
  <2>3. TInv' /\ Pending' = Pending
    BY <1>2, <2>2, SamePending
  <2>4. got' = got
    BY <1>3 DEF vars
  <2> QED
    BY <2>3, <2>4 DEF Channel!vars
<1>4. CASE Next /\ FragmentsAlone
  <2>1. ASSUME NEW m \in MessageIds, Write(m) PROVE TInv' /\ Channel!Write
    BY <1>2, <1>4, <2>1, WriteImplements
  <2>2. ASSUME NEW d \in net, Arrive(d) PROVE TInv' /\ (Channel!Read \/ Channel!Idle)
    BY <1>2, <2>2, ArriveImplements
  <2>3. CASE Flush \/ ArmHeartbeat \/ SendHeartbeat \/ LoseAck \/ ProcessAckNack
    BY <1>2, <2>3, IdleImplements DEF Channel!Next
  <2> QED
    BY <1>4, <2>1, <2>2, <2>3 DEF Next, Channel!Next
<1> QED
  BY <1>3, <1>4

(* The streams are a reliable channel: whatever the network loses,         *)
(* duplicates and delays, and through every wrap of the numbers, what      *)
(* uxr_prepare_reliable_buffer_to_write took is read by                    *)
(* uxr_next_input_reliable_buffer_available once, whole and in the order   *)
(* of the writing, as long as a piece of a message goes only into slots    *)
(* that hold nothing else, under a header of its own.                      *)
THEOREM LinkIsChannel == Spec /\ [][FragmentsAlone]_vars => ChannelSpec
<1>1. Init => TInv /\ Channel!Init
  BY InitImplements
<1>2. TInv /\ [Next]_vars /\ [FragmentsAlone]_vars => TInv' /\ [Channel!Next]_(Channel!vars)
  BY StepImplements
<1> QED
  BY <1>1, <1>2, PTL DEF Spec, ChannelSpec, Channel!Spec

(* Where every message fits in a slot none is split, and the streams are a *)
(* reliable channel without a condition on where they are put.             *)
THEOREM WholeMessagesChannel ==
  ASSUME \A m \in MessageIds : Length[m] <= Capacity
  PROVE  Spec => ChannelSpec
<1>1. ASSUME NEW m \in MessageIds PROVE ~ WriteFragments(m)
  <2>1. Length[m] \in Nat /\ Length[m] <= Capacity /\ Capacity \in Nat
    BY SlotsAssumption
  <2>2. FitsNew(m)
    BY <2>1 DEF FitsNew, header_offset
  <2> QED
    BY <2>2 DEF WriteFragments
<1>2. FragmentsAlone
  BY <1>1 DEF FragmentsAlone
<1>3. Spec /\ [][FragmentsAlone]_vars => ChannelSpec
  BY LinkIsChannel
<1> QED
  BY <1>2, <1>3, PTL

=============================================================================
