--------------------------- MODULE MCSelfSession ---------------------------
(* Values of the constants of SelfSession for TLC: two services of        *)
(* different priority below the transport's task.                          *)
EXTENDS SelfSession

MCPriority == [s \in Senders |-> IF s = "low" THEN 1 ELSE 5]
MCSourceOf == [t \in Tasks |-> IF t = "low" THEN 0 ELSE 1]
=============================================================================
