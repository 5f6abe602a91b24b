---------------------------- MODULE MCLQueueRace ----------------------------
(* LQueueRace with two-byte frames on a ring that holds two of them        *)
(* and wraps in the middle of a frame.                                     *)
EXTENDS LQueueRace

(* Both calls in a critical section, as cancom_transport.c makes them.     *)
Both == {"push", "pop"}
Neither == {}
=============================================================================
