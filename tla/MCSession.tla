----------------------------- MODULE MCSession -----------------------------
(* The session for TLC: two request ids after the two reserved ones, so    *)
(* that a call can wait for two requests, and the second request takes the *)
(* id of the first when a login or logout between them sets the ids back.  *)
EXTENDS Session
=============================================================================
