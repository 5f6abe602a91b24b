--------------------------- MODULE MCXrceCodec ---------------------------
(* The codec for TLC: strings that fit and one beyond the capacity, slots  *)
(* of one to fourteen bytes, and a user's type with every size of value.   *)
EXTENDS XrceCodec

MCBlocks == {<<4, 8>>, <<1, 9>>, <<14, 9>>}
MCUserTopic == Uint(1) \o Uint(8) \o Text \o Uint(2) \o Uint(4)
=============================================================================
