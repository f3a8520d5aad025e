--------------------------- MODULE MCWindowTracker ---------------------------
(* A window and a dialog of one process, and a dialog of no known process.  *)
(* For the desktop file there are two objects, for each window one.         *)
EXTENDS WindowTracker, TLC

CONSTANTS main, child, orphan, viewer, m1, c1, o1, v1, v2

MCPid == [w \in Windows |-> IF w = orphan THEN 0 ELSE 1]

MCMadeFor == (m1 :> main) @@ (c1 :> child) @@ (o1 :> orphan) @@ (v1 :> viewer) @@ (v2 :> viewer)
=============================================================================
