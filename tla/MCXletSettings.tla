--------------------------- MODULE MCXletSettings ---------------------------
(* An xlet of two versions: the second offers other choices. *)
EXTENDS XletSettings

Size == [min |-> 0, max |-> 2, default |-> 1]

MCSchemas == <<
    [size |-> Size, mode |-> [options |-> {0, 1}, default |-> 0]],
    [size |-> Size, mode |-> [options |-> {1, 2}, default |-> 2],
     extra |-> [options |-> {0, 1}, default |-> 0]] >>
=============================================================================
