----------------------------- MODULE MessageTray -----------------------------
(***************************************************************************)
(* The message tray of js/ui/messageTray.js: at most one notification is   *)
(* on the screen, the others wait in a queue ordered by urgency.  Every    *)
(* event handler updates the fields and calls _updateState, which decides  *)
(* whether to show the head of the queue, to drop it, or to hide the one   *)
(* on the screen.  Showing and hiding are animations that complete later,  *)
(* and a timer ends the display of a notification that is not critical.    *)
(*                                                                         *)
(* The fields are one record: the handlers call each other, and their      *)
(* composition is one step.  Nothing calls _lock, so _locked is false and  *)
(* is left out, and add() never fills _sources, so that _onSourceDestroy   *)
(* returns at once and is left out too.                                    *)
(***************************************************************************)
EXTENDS Integers, Sequences

CONSTANTS
    Notifications,  \* the notifications that are ever created
    Transient,      \* those with the transient hint
    Urgencies,      \* the urgencies in use, of LOW 0, NORMAL 1, HIGH 2, CRITICAL 3
    Nothing         \* "null": no notification

CRITICAL == 3

ASSUME TrayAssumption ==
    /\ Transient \subseteq Notifications
    /\ Urgencies \subseteq 0..CRITICAL
    /\ Urgencies # {}
    /\ Nothing \notin Notifications

VARIABLE tray

Tray == [
    queue     : Seq(Notifications),                     \* _notificationQueue
    current   : Notifications \cup {Nothing},           \* _notification
    state     : {"HIDDEN", "SHOWING", "SHOWN", "HIDING"}, \* _notificationState
    timer     : BOOLEAN,                                \* _notificationTimeoutId > 0
    removed   : BOOLEAN,                                \* _notificationRemoved
    busy      : BOOLEAN,                                \* _busy
    enabled   : BOOLEAN,                                \* _notificationsEnabled
    applet    : BOOLEAN,             \* the panel has a notifications applet
    animated  : BOOLEAN,             \* ease() takes time
    urgency   : [Notifications -> Urgencies],
    life      : [Notifications -> {"new", "live", "destroyed"}],
    displayed : SUBSET Notifications, \* history: shown, or dropped, at least once
    inApplet  : SUBSET Notifications, \* history: emitted in notify-applet-update
    dnd       : BOOLEAN]   \* history: the last presence but IDLE was BUSY

Init ==
    /\ tray \in [queue : {<<>>}, current : {Nothing}, state : {"HIDDEN"},
                 timer : {FALSE}, removed : {FALSE}, busy : {FALSE},
                 enabled : BOOLEAN, applet : BOOLEAN, animated : BOOLEAN,
                 urgency : [Notifications -> Urgencies],
                 life : {[n \in Notifications |-> "new"]},
                 displayed : {{}}, inApplet : {{}}, dnd : {FALSE}]

-----------------------------------------------------------------------------
(* The methods of the tray.                                                *)

\* Mutant: the timer is for the applet's notifications only.
ShowCompletedForApplet(s) == [s EXCEPT !.state = "SHOWN", !.timer = s.applet]

\* _showNotificationCompleted: a critical notification gets a timer only
\* when there is an applet.
ShowCompleted(s) ==
    [s EXCEPT !.state = "SHOWN",
              !.timer = s.applet \/ s.urgency[s.current] # CRITICAL]

\* _updateShowingNotification: drops the transitions, also a hiding one.
UpdateShowing(s) ==
    IF s.animated THEN [s EXCEPT !.state = "SHOWING"] ELSE ShowCompleted(s)

\* _showNotification
ShowHead(s) ==
    UpdateShowing([s EXCEPT !.current = Head(s.queue),
                            !.queue = Tail(s.queue),
                            !.displayed = @ \cup {Head(s.queue)}])

\* Mutant: _notificationRemoved is not reset.
HideCompletedStillRemoved(s) ==
    [s EXCEPT !.state = "HIDDEN", !.current = Nothing]

\* _hideNotificationCompleted
HideCompleted(s) ==
    LET handed == s.applet /\ ~s.removed
    IN  [s EXCEPT !.state = "HIDDEN",
                  !.inApplet = IF handed THEN @ \cup {s.current} ELSE @,
                  !.life = IF ~handed /\ s.current \in Transient
                           THEN [@ EXCEPT ![s.current] = "destroyed"] ELSE @,
                  !.current = Nothing,
                  !.removed = FALSE]

\* _hideNotification
Hide(s) == IF s.animated THEN [s EXCEPT !.state = "HIDING"] ELSE HideCompleted(s)

\* The display is disabled: the head of the queue is dismissed unseen.
DismissHead(s) ==
    [s EXCEPT !.queue = Tail(s.queue),
              !.displayed = @ \cup {Head(s.queue)},
              !.life = [@ EXCEPT ![Head(s.queue)] = "destroyed"]]

Pending(s) ==
    s.queue # <<>> /\ (~s.busy \/ s.urgency[Head(s.queue)] = CRITICAL)

\* Mutant: critical notifications expire as well.
ExpiredAny(s) == s.removed \/ ~s.timer

\* Mutant: only a removed notification has expired.
ExpiredRemoved(s) == s.removed

Expired(s) ==
    s.removed \/ (~s.timer /\ s.urgency[s.current] # CRITICAL)

UpdateState(s) ==
    IF s.state = "HIDDEN" /\ Pending(s)
    THEN IF s.enabled THEN ShowHead(s) ELSE DismissHead(s)
    ELSE IF s.state = "SHOWN" /\ Expired(s) THEN Hide(s) ELSE s

Queued(s, n) == \E i \in DOMAIN s.queue : s.queue[i] = n

\* Array.sort by descending urgency, which keeps the order of equals: p maps
\* the positions of the sorted sequence to those of q, all of them.
Sorts(p, q, urgency) ==
    /\ \A k \in DOMAIN q : \E i \in DOMAIN q : p[i] = k
    /\ \A i, j \in DOMAIN q : i < j =>
          \/ urgency[q[p[i]]] > urgency[q[p[j]]]
          \/ urgency[q[p[i]]] = urgency[q[p[j]]] /\ p[i] < p[j]

Enqueue(s, n, p) ==
    LET q == Append(s.queue, n)
    IN  [s EXCEPT !.queue = [i \in 1..Len(q) |-> q[p[i]]]]

\* Mutant: a queued notification that is destroyed stays in the queue.
OnDestroyCurrent(s, n) ==
    IF s.current = n /\ s.state \in {"SHOWN", "SHOWING"}
    THEN UpdateState([s EXCEPT !.timer = FALSE, !.removed = TRUE])
    ELSE s

\* Mutant: the last one of the queue goes, as splice(-1, 1) removes it.
OnDestroyUnchecked(s, n) ==
    IF s.current = n /\ s.state \in {"SHOWN", "SHOWING"}
    THEN UpdateState([s EXCEPT !.timer = FALSE, !.removed = TRUE])
    ELSE IF s.queue = <<>> THEN s
    ELSE [s EXCEPT !.queue = SubSeq(@, 1, Len(@) - 1)]

\* _onNotificationDestroy of a notification that was just destroyed.
OnDestroy(s, n) ==
    IF s.current = n /\ s.state \in {"SHOWN", "SHOWING"}
    THEN UpdateState([s EXCEPT !.timer = FALSE, !.removed = TRUE])
    ELSE IF ~Queued(s, n) THEN s
    ELSE LET i == CHOOSE i \in DOMAIN s.queue : s.queue[i] = n
         IN  [s EXCEPT !.queue = SubSeq(@, 1, i - 1) \o SubSeq(@, i + 1, Len(@))]

-----------------------------------------------------------------------------
(* Events *)

\* A source notifies: n is new, or it is updated, possibly to another
\* urgency (_notifyForSource sets it just before).  _onNotify shows the
\* current one again, leaves a queued one where it is, and queues any other.
Notify(n, u) ==
    /\ tray.life[n] # "destroyed"
    /\ LET s == [tray EXCEPT !.life[n] = "live", !.urgency[n] = u]
           q == Append(s.queue, n)
       IN  IF s.current = n THEN tray' = UpdateState(UpdateShowing(s))
           ELSE IF Queued(s, n) THEN tray' = UpdateState(s)
           ELSE \E p \in [1..Len(q) -> 1..Len(q)] :
                   /\ Sorts(p, q, s.urgency)
                   /\ tray' = UpdateState(Enqueue(s, n, p))

\* The user, the source or the daemon destroys a notification.
Destroy(n) ==
    /\ tray.life[n] = "live"
    /\ tray' = OnDestroy([tray EXCEPT !.life[n] = "destroyed"], n)

ShowAnimationEnds ==
    /\ tray.state = "SHOWING" /\ tray.animated
    /\ tray' = ShowCompleted(tray)

HideAnimationEnds ==
    /\ tray.state = "HIDING"
    /\ tray' = HideCompleted(tray)

\* _notificationTimeout.  While the pointer is on the notification, or moves
\* towards it, the timer starts again instead, which changes nothing here.
TimerFires ==
    /\ tray.timer
    /\ tray' = UpdateState([tray EXCEPT !.timer = FALSE])

\* Mutant: an idle user is not busy.
StatusClears(status) ==
    /\ tray' = UpdateState(
         [tray EXCEPT !.timer = @ /\ status # "BUSY",
                      !.busy = status = "BUSY",
                      !.dnd = IF status = "IDLE" THEN @ ELSE status = "BUSY"])

\* _onStatusChanged of the session's presence.
StatusChanges(status) ==
    /\ tray' = UpdateState(
         [tray EXCEPT !.timer = @ /\ status # "BUSY",
                      !.busy = status = "BUSY" \/ (@ /\ status = "IDLE"),
                      !.dnd = IF status = "IDLE" THEN @ ELSE status = "BUSY"])

\* The overview or the expo begins to show or to hide.
OverviewMoves == tray' = UpdateState(tray)

\* A setting changes, or the applet comes or goes: no handler looks at it.
SettingsChange ==
    \/ tray' = [tray EXCEPT !.enabled = ~@]
    \/ tray' = [tray EXCEPT !.applet = ~@]

Next ==
    \/ \E n \in Notifications : (\E u \in Urgencies : Notify(n, u)) \/ Destroy(n)
    \/ ShowAnimationEnds \/ HideAnimationEnds
    \/ TimerFires
    \/ \E status \in {"AVAILABLE", "BUSY", "IDLE"} : StatusChanges(status)
    \/ OverviewMoves
    \/ SettingsChange

\* Transitions end, and timers run out; the pointer does not stay on a
\* notification for ever.
Fairness ==
    /\ WF_tray(ShowAnimationEnds)
    /\ WF_tray(HideAnimationEnds)
    /\ WF_tray(TimerFires)

Spec == Init /\ [][Next]_tray

FairSpec == Spec /\ Fairness

-----------------------------------------------------------------------------
(* Properties *)

\* Every field keeps its range.
TypeOK == tray \in Tray

\* Each notification waits at most once; what waits is neither destroyed nor
\* the one on the screen, so that _showNotification never gets a dead actor.
QueueSound ==
    /\ \A i, j \in DOMAIN tray.queue : tray.queue[i] = tray.queue[j] => i = j
    /\ \A i \in DOMAIN tray.queue :
           tray.life[tray.queue[i]] = "live" /\ tray.queue[i] # tray.current

\* There is a notification on the screen in every state but HIDDEN, and it is
\* marked as removed only if it was destroyed.
CurrentMatchesState ==
    /\ tray.current = Nothing <=> tray.state = "HIDDEN"
    /\ tray.removed => tray.current # Nothing /\ tray.life[tray.current] = "destroyed"

\* A notification that is fully shown and not critical always has a timer that
\* will hide it, whatever was updated, destroyed or switched meanwhile.
ShownHasTimer ==
    tray.state = "SHOWN" => tray.timer \/ tray.urgency[tray.current] = CRITICAL

\* A notification that was notified and is not destroyed has been on the screen
\* or waits for it: no interleaving of handlers drops it from the queue.
NothingLost ==
    \A n \in Notifications :
        tray.life[n] = "live" => n \in tray.displayed \/ Queued(tray, n)

\* "We preserve the previous value of this._busy if the status turns to IDLE so
\* that we don't start showing notifications queued during the BUSY state": as
\* long as the user is busy, idle or not, only critical ones begin to show.
BusyShowsOnlyCritical ==
    [][tray'.current \notin {tray.current, Nothing} /\ tray'.dnd
         => tray'.urgency[tray'.current] = CRITICAL]_tray

\* A critical notification leaves the screen only because it was destroyed:
\* neither a timer, also that of ten seconds which it has next to an applet
\* (messageTray.js:1020), nor a busy user takes it away.
CriticalStays ==
    [][tray.state = "SHOWN" /\ tray'.state \in {"HIDING", "HIDDEN"}
         /\ tray.urgency[tray.current] = CRITICAL
         => tray'.life[tray.current] = "destroyed"]_tray

\* A notification that is not critical does not stay on the screen: unless
\* its source updates it for ever, it is shown, times out and is hidden.
ScreenClears ==
    <>[][~\E n \in Notifications, u \in Urgencies : Notify(n, u)]_tray =>
        \A n \in Notifications :
            tray.current = n ~> (tray.current # n \/ tray.urgency[n] = CRITICAL)

\* "_updateState() figures out what (if anything) needs to be done at the
\* present time": whenever there is something that it would do, it is done. A
\* notification that may be shown is shown once the screen is free, and one that
\* is destroyed while on the screen leaves it.
NothingLeftToDo == UpdateState(tray) # tray ~> UpdateState(tray) = tray

=============================================================================
