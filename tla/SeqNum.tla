------------------------------- MODULE SeqNum -------------------------------
(***************************************************************************)
(* Sequence numbers (seq_num.c): unsigned numbers of sixteen bits that     *)
(* wrap, with the order of serial numbers, in which the number ahead is    *)
(* the one less than half the range away.                                  *)
(***************************************************************************)
EXTENDS Integers

CONSTANT SEQ_NUM_MIDSIZE       \* 2^15 in the code

ASSUME MidsizeAssumption == SEQ_NUM_MIDSIZE \in Nat \ {0}

SEQ_NUM_SIZE == 2 * SEQ_NUM_MIDSIZE
SeqNums == 0 .. SEQ_NUM_SIZE - 1
SEQ_NUM_MAX == SEQ_NUM_SIZE - 1

seq_num_add(s, increment) == (s + increment) % SEQ_NUM_SIZE

seq_num_sub(s, decrement) ==
  IF decrement > s THEN s + (SEQ_NUM_SIZE - decrement) ELSE s - decrement

seq_num_cmp(s, t) ==
  CASE s = t -> 0
    [] \/ s < t /\ t - s < SEQ_NUM_MIDSIZE
       \/ s > t /\ s - t > SEQ_NUM_MIDSIZE -> -1
    [] OTHER -> 1
=============================================================================
