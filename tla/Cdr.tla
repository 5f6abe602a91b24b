------------------------------- MODULE Cdr -------------------------------
(* The buffers of Micro CDR: an iterator over one slot of memory, or over  *)
(* the slots of a fragmented message one after the other, the offset       *)
(* alignment is computed from, and a sticky error.                         *)
(*                                                                         *)
(* A buffer is a record:                                                   *)
(*   ends    bytes in the slots up to each one                             *)
(*   slot    the slot being accessed     at     iterator, in that slot     *)
(*   offset  what alignment is computed from                               *)
(*   last    last_data_size              error  set once, never cleared    *)
(*   full    the callback of a full slot: "none", "out" or "in"            *)
(* The bytes themselves are not here: an operation yields the places it    *)
(* touched, pairs of a slot and an index into it.                          *)
EXTENDS Integers, Sequences, FiniteSets

DataSizes == {1, 2, 4, 8}

Buffers ==
  [ends : Seq(Nat), slot : Nat \ {0}, at : Int, offset : Nat, last : {0} \cup DataSizes,
   error : BOOLEAN, full : {"none", "out", "in"}]

\* A buffer over the given slots, starting `offset` bytes into the first one.
InitBuffer(ends, offset, full) ==
  [ends |-> ends, slot |-> 1, at |-> offset, offset |-> offset, last |-> 0,
   error |-> FALSE, full |-> full]

\* The same memory from the iterator on, as a buffer of its own.
RebasedBuffer(ub) == [ub EXCEPT !.offset = 0, !.last = 0, !.error = FALSE]

---------------------------------------------------------------------------
(* Slots.                                                                  *)

\* (uint32_t)(buffer_size - offset - SUBHEADER_SIZE) of a slot that holds nothing
\* wraps: the output stream takes it for larger than any message.
Wrapped == 1000000

Begins(ub, slot) ==
  IF slot = 1 THEN 0 ELSE IF slot - 1 \in DOMAIN ub.ends THEN ub.ends[slot - 1] ELSE Wrapped
SlotSize(ub) ==
  IF ub.slot \in DOMAIN ub.ends THEN ub.ends[ub.slot] - Begins(ub, ub.slot) ELSE Wrapped

BufferRemaining(ub) == IF ub.at < SlotSize(ub) THEN SlotSize(ub) - ub.at ELSE 0

NextSlot(ub) == [ub EXCEPT !.slot = @ + 1, !.at = 0, !.last = 0]

\* The output stream always goes on, the input stream stops at a slot without data.
OnFullOutput(ub) == NextSlot(ub)
OnFullInputRestarts(ub) ==
  IF ub.slot < Len(ub.ends) THEN [NextSlot(ub) EXCEPT !.offset = 0]
  ELSE [ub EXCEPT !.error = TRUE]
OnFullInput(ub) ==
  IF ub.slot < Len(ub.ends) THEN NextSlot(ub) ELSE [ub EXCEPT !.error = TRUE]

OnFull(ub) ==
  CASE ub.full = "out"  -> OnFullOutput(ub)
    [] ub.full = "in"   -> OnFullInput(ub)
    [] ub.full = "none" -> [ub EXCEPT !.error = TRUE]

---------------------------------------------------------------------------
(* Moving bytes one after the other, from slot to slot.                    *)

\* Where the next byte goes, counted from the start of the first slot: a slot that is
\* full is left for the next one.
Position(ub) ==
  IF ub.at < SlotSize(ub) THEN Begins(ub, ub.slot) + ub.at ELSE Begins(ub, ub.slot + 1)

\* The slot that holds the byte that ends at pos.
SlotAt(ub, pos) == 1 + Cardinality({s \in DOMAIN ub.ends : ub.ends[s] < pos})

\* How many of n bytes the slots still take.
Available(ub, n) ==
  LET all == IF ub.full = "in" THEN ub.ends[Len(ub.ends)] - Position(ub)
             ELSE BufferRemaining(ub)
  IN  CASE ub.error                         -> 0
        [] ~ub.error /\ ub.full = "out"     -> n
        [] ~ub.error /\ ub.full # "out"     -> IF n <= all THEN n ELSE all

\* The loop of ucdr_advance_buffer and of the array functions: bytes are moved until
\* they are all in place or the last slot is full, which is an error.
MovedBy(ub, n, dataSize, k, pos) ==
  LET slot == IF k = 0 THEN ub.slot ELSE SlotAt(ub, pos)
  IN  [ub EXCEPT !.slot = slot, !.at = IF k = 0 THEN @ ELSE pos - Begins(ub, slot),
                 !.offset = @ + k, !.last = dataSize, !.error = @ \/ k < n]

Moved(ub, n, dataSize) ==
  LET k == Available(ub, n) IN MovedBy(ub, n, dataSize, k, Position(ub) + k)

AdvanceBuffer(ub, n) == Moved(ub, n, 1)

---------------------------------------------------------------------------
(* Alignment.                                                              *)

Padding(offset, n) == (n - (offset % n)) % n

\* Nothing is needed after an access of the same size or a larger one.
BufferAlignment(ub, n) == IF n > ub.last THEN Padding(ub.offset, n) ELSE 0

\* The iterator stops at the end of the slot, the offset does not.
AlignTo(ub, n) ==
  LET padding == BufferAlignment(ub, n)
      room == BufferRemaining(ub)
  IN  [ub EXCEPT !.offset = @ + padding, !.last = n,
                 !.at = @ + IF padding <= room THEN padding ELSE room]

---------------------------------------------------------------------------
(* A value of n bytes: aligned, then in one piece or split over two slots. *)
(* The second piece goes to the next slot whatever its size.  The client   *)
(* writes in the order of its machine.                                     *)

Aligned(ub, n) == AdvanceBuffer(ub, BufferAlignment(ub, n))

\* The next slot, the rest of this one having been used.
Continued(a) ==
  LET room == BufferRemaining(a)
  IN  OnFull([a EXCEPT !.at = @ + room, !.offset = @ + room])

\* ub has been aligned (a) and has room bytes left in its slot; b goes on in the next one.
ValueFrom(ub, n, a, room, b) ==
  CASE a.error -> a
    [] ~a.error /\ n <= room ->
         [a EXCEPT !.at = @ + n, !.offset = @ + n, !.last = n]
    [] ~a.error /\ n > room /\ b.error ->
         [a EXCEPT !.error = TRUE, !.last = IF room > 0 THEN ub.last ELSE @]
    [] ~a.error /\ n > room /\ ~b.error ->
         [b EXCEPT !.at = n - room, !.offset = @ + (n - room), !.last = n]

Value(ub, n) ==
  LET a == Aligned(ub, n) IN ValueFrom(ub, n, a, BufferRemaining(a), Continued(a))

PlacesFrom(n, a, room, b) ==
  [j \in 1..n |-> IF j <= room THEN <<a.slot, a.at + j - 1>> ELSE <<b.slot, j - room - 1>>]

ValuePlaces(ub, n) ==
  LET a == Aligned(ub, n)
  IN  IF Value(ub, n).error THEN <<>>
      ELSE PlacesFrom(n, a, BufferRemaining(a), Continued(a))

\* Where a value is read when it is split and its function was given the other byte order:
\* every byte at its distance from the start of the value, but in the first slot up to one
\* byte more than fits there, and in the next slot from then on.
SwappedFrom(n, a, room, b) ==
  [j \in 1..n |-> IF n - j <= room THEN <<a.slot, a.at + j - 1>> ELSE <<b.slot, j - 1>>]

SwappedPlaces(ub, n) ==
  LET a == Aligned(ub, n)
      room == BufferRemaining(a)
  IN  IF Value(ub, n).error \/ room = 0 \/ n <= room THEN ValuePlaces(ub, n)
      ELSE SwappedFrom(n, a, room, Continued(a))

---------------------------------------------------------------------------
(* An array of values: aligned once, its bytes moved one by one.           *)

ArrayStart(ub, dataSize) == [Aligned(ub, dataSize) EXCEPT !.last = ub.last]

ArrayForgetsSize(ub, count, dataSize) ==
  LET a == ArrayStart(ub, dataSize) IN Moved(a, count * dataSize, a.last)
ArrayCountsBytes(ub, count, dataSize) ==
  LET a == ArrayStart(ub, dataSize) IN Moved(a, count * dataSize, count * dataSize)
Array(ub, count, dataSize) ==
  LET a == ArrayStart(ub, dataSize) IN Moved(a, count * dataSize, dataSize)

PlaceAt(ub, pos, slot) == <<slot, pos - Begins(ub, slot) - 1>>
PlacesMoved(ub, n, pos) ==
  [j \in 1..Available(ub, n) |-> PlaceAt(ub, pos + j, SlotAt(ub, pos + j))]

ArrayPlaces(ub, count, dataSize) ==
  LET a == ArrayStart(ub, dataSize) IN PlacesMoved(a, count * dataSize, Position(a))

---------------------------------------------------------------------------
(* The length of a sequence that was read: too large a length is an error, *)
(* and the error alone keeps the elements from being copied.               *)

SequenceHeaderUnchecked(ub, length, capacity) == Value(ub, 4)
SequenceHeader(ub, length, capacity) ==
  LET b == Value(ub, 4) IN [b EXCEPT !.error = @ \/ length > capacity]
=============================================================================
