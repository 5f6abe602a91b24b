------------------------------ MODULE MCLQueue ------------------------------
(* LQueue with Short = 2: lengths 1, 2..15 and 16..63 take headers of one, *)
(* two and three bytes, and 64 has no encoding.                            *)
EXTENDS LQueue

MCMessages ==
  {<<>>, <<6>>, [k \in 1 .. 15 |-> 7], [k \in 1 .. 16 |-> k % 8], [k \in 1 .. 64 |-> 0]}

MCBufSizes == {2, 16}
=============================================================================
