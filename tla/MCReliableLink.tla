--------------------------- MODULE MCReliableLink ---------------------------
(* Values of the constants of ReliableLink for TLC.                        *)
EXTENDS ReliableLink

(* In two slots of twelve bytes: one message that fits in a slot, where no *)
(* header fits behind it, and one that takes both.                         *)
MCLength == [m \in MessageIds |-> IF m = "long" THEN 16 ELSE 8]

(* In four slots of twenty bytes a piece of the long one goes behind the   *)
(* short one, where the reader does not find it.                           *)
MCLengthBehind == [m \in MessageIds |-> IF m = "long" THEN 24 ELSE 8]
=============================================================================
