----------------------------- MODULE RequestQueue -----------------------------
(***************************************************************************)
(* What an agent with one dialog promises to those who ask it: requests    *)
(* are served one at a time in the order in which they came, each is       *)
(* answered once, a request may be answered while it waits, and nobody     *)
(* waits for an agent that is free.  PolkitAgent implements it.            *)
(***************************************************************************)
EXTENDS SequencesExt

CONSTANTS Requests, Nobody

VARIABLES
    waiting,   \* the requests that wait, in order
    current,   \* the one that is served, or Nobody
    answered   \* those that were answered

vars == <<waiting, current, answered>>

Init == waiting = <<>> /\ current = Nobody /\ answered = {}

\* A new request is served at once if nobody is.
Arrive(c) ==
    /\ c \notin answered \cup {current} \cup ToSet(waiting)
    /\ UNCHANGED answered
    /\ \/ current = Nobody /\ current' = c /\ UNCHANGED waiting
       \/ current # Nobody /\ waiting' = Append(waiting, c) /\ UNCHANGED current

\* The answer to the current request lets the next one in.
Finish ==
    /\ current # Nobody
    /\ answered' = answered \cup {current}
    /\ \/ waiting = <<>> /\ current' = Nobody /\ UNCHANGED waiting
       \/ waiting # <<>> /\ current' = Head(waiting) /\ waiting' = Tail(waiting)

\* A request is answered while it waits.
Withdraw ==
    \E i \in DOMAIN waiting :
        /\ answered' = answered \cup {waiting[i]}
        /\ waiting' = RemoveAt(waiting, i)
        /\ UNCHANGED current

Next == Finish \/ Withdraw \/ \E c \in Requests : Arrive(c)

Spec == Init /\ [][Next]_vars
=============================================================================
