-------------------------- MODULE NotificationDaemon --------------------------
(***************************************************************************)
(* The notification daemon of js/ui/notificationDaemon.js: clients on the  *)
(* session bus create, replace and close notifications by id.  The first   *)
(* notification of a sender waits until the bus tells the sender's pid;    *)
(* the notifications of a sender are kept by its source; those that are to *)
(* expire are in a list, and one timer is to destroy the head of it.       *)
(*                                                                         *)
(* A call of NotifyAsync makes a new ndata object, also when it replaces a *)
(* notification, which keeps its Notification object and the destroy       *)
(* closure over the ndata it was made for.  An ndata is its index here,    *)
(* and a Notification, of which there is at most one per id, is the id.    *)
(*                                                                         *)
(* The clients replace their own notifications only; a sender uses one     *)
(* application name, hence has one source in _sources; remove-old is on;   *)
(* there are no tray icons, whose source would stay without notifications. *)
(***************************************************************************)
EXTENDS Integers, SequencesExt

CONSTANTS
    Senders,            \* the clients' names on the bus
    Kinds,              \* the hints in use, of "plain", "transient", "resident"
    Timeouts,           \* the timeouts in use, in seconds, 0 for "never expires"
    MAX_NOTIFICATIONS,  \* of a source; the oldest goes when there are more
    MaxCalls,           \* bound on the calls of NotifyAsync
    MaxTime             \* bound on the clock, in seconds

ASSUME DaemonAssumption ==
    /\ Kinds \subseteq {"plain", "transient", "resident"}
    /\ Timeouts \subseteq Nat
    /\ {MAX_NOTIFICATIONS, MaxCalls, MaxTime} \subseteq Nat \ {0}

Ids == 1..MaxCalls

\* _expireTimer: no timer, or the id of one that ran and was not forgotten.
None == 0
Dead == -1

VARIABLE daemon

\* What NotifyAsync makes of a call.
NData == [id : Ids, sender : Senders, kind : Kinds, expires : Nat, bound : BOOLEAN]

\* The daemon's fields, the sources' lists, and the calls on the bus.
DaemonState ==
    [ndata : Seq(NData), current : [Ids -> 0..MaxCalls],
     life : [Ids -> {"none", "live", "destroyed"}], owner : [Ids -> 0..MaxCalls],
     reason : [Ids -> {"open", "closed", "dismissed", "expired"}],
     nextId : 1..(MaxCalls + 1), list : Seq(Ids), timer : Nat \cup {Dead},
     orphans : SUBSET Nat, held : [Senders -> Seq(Ids)], pid : [Senders -> BOOLEAN],
     calls : Seq([sender : Senders, id : Ids]), now : 0..MaxTime]

DaemonInit ==
    daemon = [
        ndata   |-> <<>>,  \* every ndata ever made
        current |-> [id \in Ids |-> 0],  \* _notifications, 0 for no entry
        life    |-> [id \in Ids |-> "none"],  \* of the Notification of the id
        owner   |-> [id \in Ids |-> 0],  \* the ndata its destroy closure is over
        reason  |-> [id \in Ids |-> "open"],  \* told in NotificationClosed
        nextId  |-> 1,     \* nextNotificationId
        list    |-> <<>>,  \* _expireNotifications
        timer   |-> None,  \* _expireTimer: None, Dead, or when it is to fire
        orphans |-> {},    \* when the running timers fire that nobody knows of
        held    |-> [s \in Senders |-> <<>>],  \* the notifications of its source
        pid     |-> [s \in Senders |-> FALSE], \* _senderToPid has an entry
        calls   |-> <<>>,  \* GetConnectionUnixProcessID calls not yet answered
        now     |-> 0]

-----------------------------------------------------------------------------
(* The list of expirations and its timer.                                  *)

\* _restartExpire: _stopExpire, then _startExpire, in one second at least.
RestartExpire(d) ==
    [d EXCEPT !.timer =
        IF d.list = <<>> THEN None
        ELSE LET due == d.ndata[Head(d.list)].expires
             IN  IF due > d.now THEN due ELSE d.now + 1]

\* The backwards search of NotifyAsync: after the last one that is earlier.
InsertExpire(d, n) ==
    LET before == {i \in DOMAIN d.list :
                     d.ndata[d.list[i]].expires < d.ndata[n].expires}
        place  == IF before = {} THEN 1 ELSE 1 + CHOOSE i \in before :
                                                   \A j \in before : j <= i
    IN  [d EXCEPT !.list = InsertAt(@, place, n)]

-----------------------------------------------------------------------------
(* A Notification is destroyed.                                            *)

\* Mutant: a source that loses its last notification keeps its pid.
LeaveSourceCached(d, id) ==
    LET s == d.ndata[d.owner[id]].sender
    IN  [d EXCEPT !.held[s] = RemoveFirst(@, id)]

\* The source drops it; a source without notifications is destroyed, and the
\* pid of its sender forgotten (not so the source of a transient one).
LeaveSource(d, id) ==
    LET s    == d.ndata[d.owner[id]].sender
        rest == RemoveFirst(d.held[s], id)
    IN  [d EXCEPT !.held[s] = rest,
                  !.pid[s] = @ /\ (rest # <<>> \/ d.held[s] = <<>>)]

\* The closure of _notifyForSource, up to the list of expirations.
Closed(d, id, why) ==
    [d EXCEPT !.current[id] = 0, !.life[id] = "destroyed", !.reason[id] = why]

\* Mutant: the timer is not restarted for the next one.
UnlistWithoutRestart(d, n) ==
    IF d.ndata[n].expires = 0 THEN d ELSE [d EXCEPT !.list = RemoveFirst(@, n)]

Unlist(d, n) ==
    IF d.ndata[n].expires = 0 THEN d
    ELSE RestartExpire([d EXCEPT !.list = RemoveFirst(@, n)])

\* The handlers run in connection order: daemon, then source.
DestroyNotification(d, id, why) ==
    IF d.life[id] # "live" THEN d
    ELSE LeaveSource(Unlist(Closed(d, id, why), d.owner[id]), id)

\* destroyNonResidentNotifications, newest first, of those it has chosen, or
\* Source.destroy, oldest first, which comes to the same.
DestroyAll(d, ids, chosen) ==
    FoldLeft(LAMBDA x, id : IF id \in chosen THEN DestroyNotification(x, id, "dismissed")
                            ELSE x,
             d, Reverse(ids))

-----------------------------------------------------------------------------
(* A notification is shown.                                                *)

\* Source.pushNotification: the oldest one leaves before it is destroyed.
JoinSource(d, id, s) ==
    LET all == Append(d.held[s], id)
    IN  IF Len(all) <= MAX_NOTIFICATIONS THEN [d EXCEPT !.held[s] = all]
        ELSE DestroyNotification([d EXCEPT !.held[s] = Tail(all)],
                                 Head(all), "dismissed")

\* _notifyForSource of an ndata without a Notification.
Show(d, n) ==
    LET id    == d.ndata[n].id
        shown == [d EXCEPT !.ndata[n].bound = TRUE,
                           !.life[id] = "live",
                           !.owner[id] = n]
    IN  IF d.ndata[n].kind = "transient" THEN shown
        ELSE JoinSource(shown, id, d.ndata[n].sender)

-----------------------------------------------------------------------------
(* Calls on the bus and events                                             *)

\* NotifyAsync.  An ndata that replaces a shown one is bound to the same
\* Notification, which it updates (bound). Otherwise it is shown if the pid
\* is known, and if it is not, a call for the pid is made, or is under way.
NotifyAsync(s, replacesId, kind, timeout) ==
    LET d        == daemon
        replaces == replacesId # 0 /\ d.current[replacesId] # 0
        id       == IF replaces THEN replacesId ELSE d.nextId
        bound    == replaces /\ d.ndata[d.current[id]].bound
        expires  == IF timeout = 0 \/ kind = "resident" THEN 0 ELSE d.now + timeout
        n        == Len(d.ndata) + 1
        made     == [d EXCEPT
                       !.ndata = Append(@, [id |-> id, sender |-> s, kind |-> kind,
                                            expires |-> expires, bound |-> bound]),
                       !.current[id] = n,
                       !.nextId = IF replaces THEN @ ELSE @ + 1]
        listed   == IF expires = 0 THEN made ELSE RestartExpire(InsertExpire(made, n))
    IN  /\ Len(d.ndata) < MaxCalls
        /\ daemon' = IF bound THEN listed
                     ELSE IF d.pid[s] THEN Show(listed, n)
                     ELSE IF replaces THEN listed
                     ELSE [listed EXCEPT !.calls = Append(@, [sender |-> s, id |-> id])]

\* The clients' calls: a new notification, or a replacement of their own.
Notifies(s) ==
    \E kind \in Kinds, timeout \in Timeouts, replacesId \in {0} \cup 1..(daemon.nextId - 1) :
        /\ replacesId # 0 => \E n \in DOMAIN daemon.ndata :
              daemon.ndata[n].id = replacesId /\ daemon.ndata[n].sender = s
        /\ NotifyAsync(s, replacesId, kind, timeout)

\* The answer to the oldest call: the application may have replaced or closed
\* the notification meanwhile.
PidAnswered ==
    LET d    == [daemon EXCEPT !.calls = Tail(@)]
        call == Head(daemon.calls)
        n    == d.current[call.id]
        \* _getSource takes the Notification's source, if there is one
        persistent == IF d.ndata[n].bound
                      THEN d.ndata[d.owner[call.id]].kind # "transient"
                      ELSE d.ndata[n].kind # "transient"
        cached == [d EXCEPT !.pid[call.sender] = @ \/ persistent]
    IN  /\ daemon.calls # <<>>
        /\ daemon' = IF n = 0 THEN d
                     ELSE IF d.ndata[n].bound THEN cached ELSE Show(cached, n)

\* The sender has left the bus: its notification is never shown.
PidFails ==
    /\ daemon.calls # <<>>
    /\ daemon' = [daemon EXCEPT !.calls = Tail(@)]

\* CloseNotification
Close(id) ==
    LET n == daemon.current[id]
    IN  /\ n # 0
        /\ daemon' = [(IF daemon.ndata[n].bound
                       THEN DestroyNotification(daemon, id, "closed") ELSE daemon)
                        EXCEPT !.current[id] = 0]

\* The user, an action of it or the message tray destroys a notification.
Dismiss(id) ==
    /\ daemon.life[id] = "live"
    /\ daemon' = DestroyNotification(daemon, id, "dismissed")

\* _onFocusAppChanged: the application of the sender gets the focus.
FocusApp(s) ==
    LET ids      == daemon.held[s]
        resident == {id \in ToSet(ids) : daemon.ndata[daemon.current[id]].kind = "resident"}
    IN  /\ ids # <<>>
        /\ daemon' = DestroyAll(daemon, ids, ToSet(ids) \ resident)

\* Source._onNameVanished of a source with an application.
NameVanishes(s) ==
    /\ daemon.held[s] # <<>>
    /\ daemon' = DestroyAll(daemon, daemon.held[s], ToSet(daemon.held[s]))

-----------------------------------------------------------------------------
(* Expiration                                                              *)

\* _expireNotification: a head without a Notification makes it throw before it
\* resets _expireTimer; otherwise the reset forgets a timer that runs, be it
\* the one that the destruction has just started.
ExpireHead(d) ==
    LET head == Head(d.list)
        gone == DestroyNotification(d, d.ndata[head].id, "expired")
    IN  IF d.list = <<>> THEN [d EXCEPT !.timer = None,
                                        !.orphans = @ \cup ({d.timer} \ {None, Dead})]
        ELSE IF ~d.ndata[head].bound THEN d
        ELSE [gone EXCEPT !.timer = None,
                          !.orphans = @ \cup ({gone.timer} \ {None, Dead})]

ExpireTimerFires ==
    /\ daemon.timer \notin {None, Dead}
    /\ daemon.timer <= daemon.now
    /\ daemon' = ExpireHead([daemon EXCEPT !.timer = Dead])

OrphanFires(t) ==
    /\ t \in daemon.orphans
    /\ t <= daemon.now
    /\ daemon' = ExpireHead([daemon EXCEPT !.orphans = @ \ {t}])

\* The bus answers, and timers fire, within the second.
Tick ==
    /\ daemon.now < MaxTime
    /\ daemon.calls = <<>>
    /\ \A t \in daemon.orphans \cup ({daemon.timer} \ {None, Dead}) : t > daemon.now
    /\ daemon' = [daemon EXCEPT !.now = @ + 1]

DaemonNext ==
    \/ \E s \in Senders : Notifies(s) \/ FocusApp(s) \/ NameVanishes(s)
    \/ PidAnswered \/ PidFails
    \/ \E id \in Ids : Close(id) \/ Dismiss(id)
    \/ ExpireTimerFires
    \/ \E t \in daemon.orphans : OrphanFires(t)
    \/ Tick

DaemonSpec == DaemonInit /\ [][DaemonNext]_daemon

-----------------------------------------------------------------------------
(* Properties *)

\* Every field keeps its range, and what refers to an ndata refers to one.
DaemonTypeOK ==
    /\ daemon \in DaemonState
    /\ Len(daemon.ndata) <= MaxCalls
    /\ \A id \in Ids : {daemon.current[id], daemon.owner[id]} \subseteq 0..Len(daemon.ndata)
    /\ ToSet(daemon.list) \subseteq 1..Len(daemon.ndata)

\* "List of expiring notifications in order from first to last to expire", each
\* of them once.
ExpireListSorted ==
    \A i, j \in DOMAIN daemon.list : i < j =>
        /\ daemon.list[i] # daemon.list[j]
        /\ daemon.ndata[daemon.list[i]].expires <= daemon.ndata[daemon.list[j]].expires

\* The ids the clients can name are those of the notifications that live or that
\* wait for a pid, whatever was replaced, closed or expired: no id of a dead one
\* can be replaced, and none that lives is out of reach.
IdsOfTheLiving ==
    \A id \in Ids :
        daemon.life[id] = "live" <=>
            daemon.current[id] # 0 /\ daemon.ndata[daemon.current[id]].bound

\* Each notification in a source's list lives and is there once, each that lives
\* and is not transient is in one, and no source has more than it may: the entries
\* are taken out on every way a notification can end, one of them in the middle
\* of another notification's arrival.
SourcesHoldTheLiving ==
    \A s \in Senders :
        /\ IsInjective(daemon.held[s])
        /\ Len(daemon.held[s]) <= MAX_NOTIFICATIONS
        /\ ToSet(daemon.held[s]) = {id \in Ids :
              /\ daemon.life[id] = "live"
              /\ daemon.ndata[daemon.owner[id]].sender = s
              /\ daemon.ndata[daemon.owner[id]].kind # "transient"}

\* A pid is only remembered as long as the sender has a source, as the sender's
\* name on the bus may be gone without it.
PidHasSource == \A s \in Senders : daemon.pid[s] => daemon.held[s] # <<>>

\* A notification that is to expire is in the list until it is destroyed.
ToExpireIsListed ==
    \A id \in Ids :
        daemon.life[id] = "live" =>
            LET n == daemon.current[id]
            IN  daemon.ndata[n].expires # 0 => Contains(daemon.list, n)

\* As long as everything in the list is alive, a timer runs that comes in time
\* for its head (in a second, if it is overdue), although _expireTimer may have
\* forgotten it.
HeadIsWatched ==
    LET Alive(n) == daemon.ndata[n].bound /\ daemon.life[daemon.ndata[n].id] = "live"
        due      == daemon.ndata[Head(daemon.list)].expires
    IN  daemon.list # <<>> /\ (\A n \in ToSet(daemon.list) : Alive(n)) =>
            \E t \in daemon.orphans \cup ({daemon.timer} \ {None, Dead}) :
                t <= due \/ t <= daemon.now + 1

\* "Remove notifications after their timeout is reached": a notification that is
\* expired has a timeout, by its latest data, and it is reached.
ExpiresAtItsTime ==
    [][\A id \in Ids :
          daemon.reason[id] = "open" /\ daemon'.reason[id] = "expired" =>
              /\ daemon.ndata[daemon.current[id]].expires # 0
              /\ daemon.ndata[daemon.current[id]].expires <= daemon.now]_daemon

\* The list of expirations is sorted, whoever is to expire is in it, and the timer
\* comes in time for its head.
ExpirationsSound == ExpireListSorted /\ ToExpireIsListed /\ HeadIsWatched

\* The daemon's ids, the sources' lists and the pids all speak of the same
\* notifications: those that live.
TablesAgree == DaemonTypeOK /\ IdsOfTheLiving /\ SourcesHoldTheLiving /\ PidHasSource

=============================================================================
