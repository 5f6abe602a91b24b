--------------------------- MODULE ReliableChannel ---------------------------
(***************************************************************************)
(* What a pair of reliable streams promises: the messages that were        *)
(* written and not yet read, each read once, whole and in the order of the *)
(* writing, one or several at a time.                                      *)
(***************************************************************************)
EXTENDS Naturals, Sequences

CONSTANT Messages

VARIABLES
  pending,    \* written and not yet read, oldest first
  got         \* what the last step has read

vars == <<pending, got>>

Init == pending = <<>> /\ got = <<>>

Write ==
  /\ got' = <<>>
  /\ pending' \in {Append(pending, m) : m \in Messages}

Read ==
  /\ got' # <<>>
  /\ pending = got' \o pending'

Idle == got' = <<>> /\ UNCHANGED pending

Next == Write \/ Read \/ Idle

Spec == Init /\ [][Next]_vars
=============================================================================
