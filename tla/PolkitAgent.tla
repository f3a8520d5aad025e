------------------------------ MODULE PolkitAgent ------------------------------
(***************************************************************************)
(* The shell as an authentication agent of polkit: the queue of requests   *)
(* of src/laminax-polkit-authentication-agent.c, and the dialogs of        *)
(* js/ui/polkitAuthenticationAgent.js that answer them one at a time.      *)
(*                                                                         *)
(* polkit asks and may take a request back; the answer to that is put off  *)
(* to an idle callback.  A dialog has a session with the helper, which     *)
(* asks (the dialog opens then) and completes; the dialog opens when the   *)
(* shell gets the input grab, and tries again when it does not.            *)
(*                                                                         *)
(* The texts, the users to choose from and the reset of the entry are left *)
(* out, and so is the unregistration, which only happens before there is a *)
(* request.                                                                *)
(***************************************************************************)
EXTENDS Integers, SequencesExt

CONSTANTS
    Cookies,   \* the requests of polkit
    Nobody,    \* "NULL", "null": no request, no dialog
    MAX_MODAL_RETRIES

ASSUME AgentAssumption == Nobody \notin Cookies /\ MAX_MODAL_RETRIES \in Nat

VARIABLES
    agent,      \* the requests, the dialogs and what relates them, see AgentInit
    idles,      \* the requests that a handle_cancelled_in_idle is posted for
    cancelled,  \* the requests that polkit has taken back
    userSaid,   \* history: the requests whose own dialog the user dismissed
    gaveUp      \* history: those whose own dialog could not be opened

vars == <<agent, idles, cancelled, userSaid, gaveUp>>

States == {"none", "CLOSED", "OPEN", "CLOSING"}

\* A dialog: its ModalDialog state (OPEN is OPENING or OPENED), whether it was
\* ever open, whether its session is connected, the fields _completed,
\* _doneEmitted and _modalRetryCount, and the number of retry timers.
Dialog(state, live) ==
    [state |-> state, opened |-> FALSE, session |-> live, completed |-> FALSE,
     done |-> FALSE, retries |-> 0, timers |-> 0]

AgentInit ==
    [scheduled |-> <<>>,      \* scheduled_requests
     current   |-> Nobody,    \* current_request
     status    |-> [c \in Cookies |-> "new"],
     currentDialog |-> Nobody, \* _currentDialog
     dialog    |-> [c \in Cookies |-> Dialog("none", FALSE)]]

Living == {c \in Cookies : agent.status[c] \in {"scheduled", "current"}}

-----------------------------------------------------------------------------
(* The native agent, on the state s.  "initiate" is emitted at once, so    *)
(* that _onInitiate of JavaScript runs inside maybe_process_next_request.  *)

\* _onInitiate and performAuthentication of the new dialog.
OnInitiate(s, c) ==
    [s EXCEPT !.currentDialog = c, !.dialog[c] = Dialog("CLOSED", TRUE)]

MaybeProcessNext(s) ==
    IF s.current # Nobody \/ s.scheduled = <<>> THEN s
    ELSE LET c == Head(s.scheduled)
         IN  OnInitiate([s EXCEPT !.current = c, !.scheduled = Tail(@),
                                  !.status[c] = "current"], c)

\* g_list_remove
ListRemove(q, c) == RemoveAt(q, CHOOSE i \in DOMAIN q : q[i] = c)

\* Mutant: the request that is taken back stays in the queue.
AuthRequestCompleteStays(s, c, dismissed) ==
    LET answer == IF dismissed THEN "dismissed" ELSE "answered"
    IN  IF s.current = c
        THEN MaybeProcessNext([s EXCEPT !.status[c] = answer, !.current = Nobody])
        ELSE [s EXCEPT !.status[c] = answer]

\* Mutant: the queue waits for the next request of polkit.
AuthRequestCompleteOnly(s, c, dismissed) ==
    LET answer == IF dismissed THEN "dismissed" ELSE "answered"
    IN  IF s.current = c THEN [s EXCEPT !.status[c] = answer, !.current = Nobody]
        ELSE [s EXCEPT !.status[c] = answer, !.scheduled = ListRemove(@, c)]

\* auth_request_complete
AuthRequestComplete(s, c, dismissed) ==
    LET answer == IF dismissed THEN "dismissed" ELSE "answered"
    IN  IF s.current = c
        THEN MaybeProcessNext([s EXCEPT !.status[c] = answer, !.current = Nobody])
        ELSE [s EXCEPT !.status[c] = answer, !.scheduled = ListRemove(@, c)]

-----------------------------------------------------------------------------
(* The dialogs, on the state s. *)

\* ModalDialog.close
Close(s, c) ==
    IF s.dialog[c].state = "OPEN" THEN [s EXCEPT !.dialog[c].state = "CLOSING"] ELSE s

\* Mutant: _currentDialog is reset after the native agent has gone on.
CompleteRequestThenReset(s, dismissed) ==
    IF s.currentDialog = Nobody THEN s
    ELSE [AuthRequestComplete(Close(s, s.currentDialog), s.current, dismissed)
            EXCEPT !.currentDialog = Nobody]

\* _completeRequest: it throws when there is no current dialog.  The request it
\* completes is the current one, whoever calls it.
CompleteRequest(s, dismissed) ==
    IF s.currentDialog = Nobody THEN s
    ELSE AuthRequestComplete(
            [Close(s, s.currentDialog) EXCEPT !.currentDialog = Nobody],
            s.current, dismissed)

\* _emitDone and _onDialogDone
EmitDone(s, c, dismissed) ==
    IF s.dialog[c].done THEN s
    ELSE CompleteRequest([s EXCEPT !.dialog[c].done = TRUE], dismissed)

\* pushModal asks the compositor for the grab only if nobody has it.
Grabbed(s) == \E c \in Cookies : s.dialog[c].state = "OPEN"

\* _ensureOpen opens an open dialog again without effect, or opens it, ...
Opens(s, c) ==
    IF s.dialog[c].state = "OPEN" THEN s
    ELSE [s EXCEPT !.dialog[c].state = "OPEN", !.dialog[c].opened = TRUE]

\* ... or tries again in a second, or gives up.
MayRetry(s, c) == s.dialog[c].retries < MAX_MODAL_RETRIES

\* Mutant: the retry is counted and no timer is started.
RefusedOnce(s, c) ==
    IF MayRetry(s, c) THEN [s EXCEPT !.dialog[c].retries = @ + 1]
    ELSE EmitDone(s, c, TRUE)

Refused(s, c) ==
    IF MayRetry(s, c)
    THEN [s EXCEPT !.dialog[c].retries = @ + 1, !.dialog[c].timers = @ + 1]
    ELSE EmitDone(s, c, TRUE)

\* Mutant: the handlers stay connected to the old session.
DestroySessionConnected(s, c) == [s EXCEPT !.dialog[c].completed = FALSE]

\* _destroySession.  A session that is cancelled here may complete at once, and
\* _onSessionCompleted then starts another one: that one is disconnected as well.
DestroySession(s, c) ==
    [s EXCEPT !.dialog[c].session = FALSE, !.dialog[c].completed = FALSE]

PerformAuthentication(s, c) ==
    [DestroySession(s, c) EXCEPT !.dialog[c].session = TRUE]

-----------------------------------------------------------------------------
Init ==
    /\ agent = AgentInit
    /\ idles = {} /\ cancelled = {} /\ userSaid = {} /\ gaveUp = {}

\* initiate_authentication
InitiateAuthentication(c) ==
    /\ agent.status[c] = "new"
    /\ agent' = MaybeProcessNext([agent EXCEPT !.status[c] = "scheduled",
                                               !.scheduled = Append(@, c)])
    /\ UNCHANGED <<idles, cancelled, userSaid, gaveUp>>

\* polkit takes a request back: on_request_cancelled.
RequestCancelled(c) ==
    /\ c \in Living \ cancelled
    /\ cancelled' = cancelled \cup {c}
    /\ idles' = idles \cup {c}
    /\ UNCHANGED <<agent, userSaid, gaveUp>>

\* Mutant: only the current request is looked at.
CancelCurrent(s, c) == IF s.current = c THEN CompleteRequest(s, FALSE) ELSE s

\* The current request is completed by JavaScript, on the "cancel" signal.
Cancel(s, c) ==
    IF s.current = c THEN CompleteRequest(s, FALSE)
    ELSE AuthRequestComplete(s, c, FALSE)

HandleCancelledInIdle(c) ==
    /\ c \in idles \cap Living
    /\ idles' = idles \ {c}
    /\ agent' = Cancel(agent, c)
    /\ UNCHANGED <<cancelled, userSaid, gaveUp>>

\* The idle callback of a request that was completed meanwhile reads freed memory.
\* If the shell goes on, then what is there is nobody's, or it is another request.
IdleAfterFree(c) ==
    /\ c \in idles \ Living
    /\ idles' = idles \ {c}
    /\ \/ UNCHANGED agent
       \/ \E r \in Living : agent' = Cancel(agent, r)
    /\ UNCHANGED <<cancelled, userSaid, gaveUp>>

\* What opens a dialog: request, show-error and show-info of its session, or the
\* timer of an earlier refusal.  Neither is taken away when the dialog is done.
EnsureOpen(s, c) ==
    \/ /\ agent' = Opens(s, c)
       /\ UNCHANGED gaveUp
    \/ /\ s.dialog[c].state # "OPEN" /\ ~Grabbed(s)
       /\ agent' = Refused(s, c)
       /\ gaveUp' = IF MayRetry(s, c) THEN gaveUp ELSE gaveUp \cup {c}

SessionAsks(c) ==
    /\ agent.dialog[c].session /\ ~agent.dialog[c].completed
    /\ EnsureOpen(agent, c)
    /\ UNCHANGED <<idles, cancelled, userSaid>>

RetryFires(c) ==
    /\ agent.dialog[c].timers > 0
    /\ EnsureOpen([agent EXCEPT !.dialog[c].timers = @ - 1], c)
    /\ UNCHANGED <<idles, cancelled, userSaid>>

\* _onSessionCompleted: authorized, or the next try.
SessionCompletes(c, gained) ==
    /\ agent.dialog[c].session /\ ~agent.dialog[c].completed
    /\ ~agent.dialog[c].done
    /\ agent' = IF gained THEN EmitDone([agent EXCEPT !.dialog[c].completed = TRUE], c, FALSE)
                ELSE PerformAuthentication([agent EXCEPT !.dialog[c].completed = TRUE], c)
    /\ UNCHANGED <<idles, cancelled, userSaid, gaveUp>>

\* The cancel button and the escape key.
UserCancels(c) ==
    /\ agent.dialog[c].state = "OPEN"
    /\ agent' = EmitDone(agent, c, TRUE)
    /\ userSaid' = userSaid \cup {c}
    /\ UNCHANGED <<idles, cancelled, gaveUp>>

\* Another user is chosen in the dialog's menu.
ChooseUser(c) ==
    /\ agent.dialog[c].state = "OPEN"
    /\ agent' = PerformAuthentication(agent, c)
    /\ UNCHANGED <<idles, cancelled, userSaid, gaveUp>>

\* The close animation ends: _onDialogClosed.
DialogClosed(c) ==
    /\ agent.dialog[c].state = "CLOSING"
    /\ agent' = DestroySession([agent EXCEPT !.dialog[c].state = "CLOSED"], c)
    /\ UNCHANGED <<idles, cancelled, userSaid, gaveUp>>

Next == \E c \in Cookies :
    \/ InitiateAuthentication(c) \/ RequestCancelled(c)
    \/ HandleCancelledInIdle(c) \/ IdleAfterFree(c)
    \/ SessionAsks(c) \/ RetryFires(c)
    \/ \E gained \in BOOLEAN : SessionCompletes(c, gained)
    \/ UserCancels(c) \/ ChooseUser(c) \/ DialogClosed(c)

\* The main loop runs its idle callbacks and timers, and animations end.
Fairness == \A c \in Cookies :
    /\ WF_vars(HandleCancelledInIdle(c)) /\ WF_vars(IdleAfterFree(c))
    /\ WF_vars(RetryFires(c)) /\ WF_vars(DialogClosed(c))

Spec == Init /\ [][Next]_vars /\ Fairness

-----------------------------------------------------------------------------
(* Properties *)

DialogRec ==
    [state : States, opened : BOOLEAN, session : BOOLEAN, completed : BOOLEAN,
     done : BOOLEAN, retries : 0 .. MAX_MODAL_RETRIES, timers : 0 .. MAX_MODAL_RETRIES]

AgentRec ==
    [scheduled : Seq(Cookies), current : Cookies \cup {Nobody},
     status : [Cookies -> {"new", "scheduled", "current", "answered", "dismissed"}],
     currentDialog : Cookies \cup {Nobody}, dialog : [Cookies -> DialogRec]]

\* Every part of the state keeps its range.
TypeOK ==
    /\ agent \in AgentRec
    /\ idles \subseteq cancelled /\ cancelled \subseteq Cookies
    /\ userSaid \subseteq Cookies /\ gaveUp \subseteq Cookies

\* The queue of the native agent holds each waiting request once, the current one
\* is out of it, and nobody waits while the agent is free.
QueueSound ==
    /\ IsInjective(agent.scheduled)
    /\ ToSet(agent.scheduled) = {c \in Cookies : agent.status[c] = "scheduled"}
    /\ {c \in Cookies : agent.status[c] = "current"} = {agent.current} \ {Nobody}
    /\ agent.current = Nobody => agent.scheduled = <<>>

\* The dialog that JavaScript takes for the current one is that of the native
\* agent's current request, and it can still answer it: it has not emitted its only
\* "done", it is not on its way out, and its session is there to ask or to end.
CurrentCanBeAnswered ==
    /\ agent.currentDialog = agent.current
    /\ agent.current # Nobody =>
          LET d == agent.dialog[agent.current]
          IN  ~d.done /\ d.state \in {"CLOSED", "OPEN"} /\ d.session /\ ~d.completed

\* A dialog that has closed, and has no timer left, never opens again: its session
\* cannot reach it any more.
ClosedStaysClosed ==
    [][\A c \in Cookies :
         LET d == agent.dialog[c]
         IN  d.opened /\ d.state = "CLOSED" /\ d.timers = 0
             => agent'.dialog[c].state = "CLOSED"]_vars

\* A request that polkit takes back is answered in the end, whether it waits, is
\* current or becomes current between the call and the idle callback.
CancelHonoured == \A c \in Cookies : c \in cancelled ~> c \notin Living

\* A dialog that was refused the input is open in the end, or its request is
\* answered: nobody waits for a dialog that is never seen.
OpensOrGivesUp ==
    \A c \in Cookies :
        agent.dialog[c].retries > 0 /\ c \in Living
        ~> (agent.dialog[c].state = "OPEN" \/ c \notin Living)

\* "Authentication dialog was dismissed by the user": a request that gets this
\* answer had its own dialog dismissed, or its own dialog could not be opened.
DismissedByUser ==
    \A c \in Cookies : agent.status[c] = "dismissed" => c \in userSaid \cup gaveUp

\* Seen by polkit, the two halves of the agent are one queue: requests are served one
\* at a time in order, and each is answered once (auth_request_complete and
\* maybe_process_next_request, called from JavaScript and from an idle callback).
Queue == INSTANCE RequestQueue WITH
    Requests <- Cookies,
    waiting  <- agent.scheduled,
    current  <- agent.current,
    answered <- {c \in Cookies : agent.status[c] \in {"answered", "dismissed"}}

ServesInOrder == Queue!Spec

\* The native agent's queue and current request, and all ranges, are sound.
AgentSound == TypeOK /\ QueueSound

=============================================================================
