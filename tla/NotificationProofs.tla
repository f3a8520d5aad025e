------------------------- MODULE NotificationProofs -------------------------
(***************************************************************************)
(* The message tray and the notification daemon keep their safety          *)
(* invariants, whatever notifications, urgencies, senders, timeouts and    *)
(* bounds there are.                                                       *)
(*                                                                         *)
(* The tray: every event ends in _updateState, which repairs the one       *)
(* invariant that the handlers break, ShownHasTimer: so PreSound is what   *)
(* holds of the fields in front of it, Sound behind it. And what no step   *)
(* may do: bring up a notification that is not critical while the user is  *)
(* busy, and take a critical one away that was not destroyed. All that a   *)
(* step shows or hides, it shows or hides in _updateState, save the update *)
(* of the current notification.                                            *)
(*                                                                         *)
(* The daemon: every call and event takes a good state to a good one       *)
(* (Good), and most of them come down to the destruction of notifications  *)
(* (DestroyGood) or to the showing of one (ShowGood).                      *)
(***************************************************************************)
EXTENDS MessageTray, NotificationDaemon, ListLemmas

QueueDistinct(s) ==
    \A i, j \in DOMAIN s.queue : s.queue[i] = s.queue[j] => i = j

QueueLive(s) ==
    \A i \in DOMAIN s.queue :
        s.life[s.queue[i]] = "live" /\ s.queue[i] # s.current

NoneLostBut(s, n0) ==
    \A n \in Notifications :
        n # n0 /\ s.life[n] = "live" => n \in s.displayed \/ Queued(s, n)

RemovedDestroyed(s) ==
    s.removed => s.current # Nothing /\ s.life[s.current] = "destroyed"

CurrentDisplayed(s) == s.current # Nothing => s.current \in s.displayed

\* What holds of the fields whatever is on the screen.
Base(s) ==
    /\ s \in Tray
    /\ QueueDistinct(s)
    /\ QueueLive(s)
    /\ NoneLostBut(s, Nothing)
    /\ RemovedDestroyed(s)
    /\ CurrentDisplayed(s)

PreSound(s) == Base(s) /\ (s.current = Nothing <=> s.state = "HIDDEN")

TimerArmed(s) == s.state = "SHOWN" => s.timer \/ s.urgency[s.current] = CRITICAL

Sound(s) == PreSound(s) /\ TimerArmed(s)

-----------------------------------------------------------------------------
\* What Base says depends on these fields only.
LEMMA BaseFields ==
    ASSUME NEW s, NEW t, Base(s), t \in Tray,
           t.queue = s.queue, t.current = s.current, t.life = s.life,
           t.displayed = s.displayed, t.removed = s.removed
    PROVE  Base(t)
BY DEF Base, QueueDistinct, QueueLive, NoneLostBut, RemovedDestroyed, CurrentDisplayed, Queued

\* _showNotificationCompleted arms the timer of what is not critical.
LEMMA ShowCompletedSound ==
    ASSUME NEW s, Base(s), s.current # Nothing
    PROVE  Sound(ShowCompleted(s))
<1> DEFINE t == ShowCompleted(s)
           armed == s.applet \/ s.urgency[s.current] # CRITICAL
<1> SUFFICES Sound(t)
  OBVIOUS
<1>0. s \in Tray
  BY DEF Base
<1>1. t = [s EXCEPT !.state = "SHOWN", !.timer = armed]
  BY DEF ShowCompleted
<1>2. t \in Tray
  BY <1>0, <1>1 DEF Tray
<1>3. /\ t.queue = s.queue /\ t.current = s.current /\ t.life = s.life
      /\ t.displayed = s.displayed /\ t.removed = s.removed
      /\ t.state = "SHOWN" /\ t.timer = armed /\ t.urgency = s.urgency
  BY <1>0, <1>1 DEF Tray
<1> HIDE DEF t
<1>4. Base(t)
  BY <1>2, <1>3, BaseFields
<1> QED BY <1>3, <1>4 DEF Sound, PreSound, TimerArmed

\* _updateShowingNotification brings any current notification on the screen.
LEMMA UpdateShowingSound ==
    ASSUME NEW s, Base(s), s.current # Nothing
    PROVE  Sound(UpdateShowing(s))
<1> DEFINE t == UpdateShowing(s)
<1> SUFFICES Sound(t)
  OBVIOUS
<1>0. s \in Tray
  BY DEF Base
<1>1. CASE s.animated
  <2>1. t = [s EXCEPT !.state = "SHOWING"]
    BY <1>1 DEF UpdateShowing
  <2>2. t \in Tray
    BY <1>0, <2>1 DEF Tray
  <2>3. /\ t.queue = s.queue /\ t.current = s.current /\ t.life = s.life
        /\ t.displayed = s.displayed /\ t.removed = s.removed /\ t.state = "SHOWING"
    BY <1>0, <2>1 DEF Tray
  <2> HIDE DEF t
  <2>4. Base(t)
    BY <2>2, <2>3, BaseFields
  <2> QED BY <2>3, <2>4 DEF Sound, PreSound, TimerArmed
<1>2. CASE ~s.animated
  BY <1>2, ShowCompletedSound DEF UpdateShowing
<1> QED BY <1>0, <1>1, <1>2 DEF Tray

\* _hideNotificationCompleted leaves nothing on the screen.
LEMMA HideCompletedSound ==
    ASSUME NEW s, PreSound(s), s.current # Nothing
    PROVE  Sound(HideCompleted(s))
<1> DEFINE t == HideCompleted(s)
           life == IF ~(s.applet /\ ~s.removed) /\ s.current \in Transient
                   THEN [s.life EXCEPT ![s.current] = "destroyed"] ELSE s.life
<1> SUFFICES Sound(t)
  OBVIOUS
<1>0. s \in Tray /\ s.current \in Notifications
  BY DEF PreSound, Base, Tray
<1>1. t \in Tray
  BY <1>0 DEF HideCompleted, Tray
<1>2. /\ t.queue = s.queue /\ t.current = Nothing /\ t.state = "HIDDEN"
      /\ t.life = life /\ t.displayed = s.displayed /\ t.removed = FALSE
  BY <1>0 DEF HideCompleted, Tray
<1>3. \A n \in Notifications : n # s.current => life[n] = s.life[n]
  BY <1>0 DEF Tray
<1>4. \A n \in Notifications : life[n] = "live" => s.life[n] = "live"
  BY <1>0 DEF Tray
<1>5. \A i \in DOMAIN s.queue : s.queue[i] \in Notifications
  BY <1>0 DEF Tray
<1> HIDE DEF t, life
<1>6. QueueDistinct(t)
  BY <1>2 DEF PreSound, Base, QueueDistinct
<1>7. QueueLive(t)
  BY <1>2, <1>3, <1>5, TrayAssumption DEF PreSound, Base, QueueLive
<1>8. NoneLostBut(t, Nothing)
  BY <1>2, <1>4 DEF PreSound, Base, NoneLostBut, Queued
<1>9. Base(t)
  BY <1>1, <1>2, <1>6, <1>7, <1>8 DEF Base, PreSound, RemovedDestroyed, CurrentDisplayed
<1> QED BY <1>2, <1>9 DEF Sound, PreSound, TimerArmed

LEMMA HideSound ==
    ASSUME NEW s, PreSound(s), s.current # Nothing
    PROVE  Sound(Hide(s))
<1> DEFINE t == Hide(s)
<1> SUFFICES Sound(t)
  OBVIOUS
<1>0. s \in Tray
  BY DEF PreSound, Base
<1>1. CASE s.animated
  <2>1. t = [s EXCEPT !.state = "HIDING"]
    BY <1>1 DEF Hide
  <2>2. t \in Tray
    BY <1>0, <2>1 DEF Tray
  <2>3. /\ t.queue = s.queue /\ t.current = s.current /\ t.life = s.life
        /\ t.displayed = s.displayed /\ t.removed = s.removed /\ t.state = "HIDING"
    BY <1>0, <2>1 DEF Tray
  <2> HIDE DEF t
  <2>4. Base(t)
    BY <2>2, <2>3, BaseFields DEF PreSound
  <2> QED BY <2>3, <2>4 DEF Sound, PreSound, TimerArmed
<1>2. CASE ~s.animated
  BY <1>2, HideCompletedSound DEF Hide
<1> QED BY <1>0, <1>1, <1>2 DEF Tray

\* The head of a queue without duplicates is in no other place of it.
LEMMA TailOfQueue ==
    ASSUME NEW s, s \in Tray, s.queue # <<>>
    PROVE  /\ Head(s.queue) \in Notifications
           /\ Head(s.queue) = s.queue[1]
           /\ 1 \in DOMAIN s.queue
           /\ Tail(s.queue) \in Seq(Notifications)
           /\ \A i \in DOMAIN Tail(s.queue) :
                 i + 1 \in DOMAIN s.queue /\ Tail(s.queue)[i] = s.queue[i + 1] /\ i + 1 # 1
           /\ \A i \in DOMAIN s.queue : i # 1 =>
                 i - 1 \in DOMAIN Tail(s.queue) /\ Tail(s.queue)[i - 1] = s.queue[i]
<1>1. s.queue \in Seq(Notifications)
  BY DEF Tray
<1> QED BY <1>1

\* _showNotification takes a live notification from the queue.
LEMMA ShowHeadSound ==
    ASSUME NEW s, PreSound(s), s.state = "HIDDEN", s.queue # <<>>
    PROVE  Sound(ShowHead(s))
<1> DEFINE h == Head(s.queue)
           t == [s EXCEPT !.current = h, !.queue = Tail(s.queue),
                          !.displayed = @ \cup {h}]
<1>0. s \in Tray /\ h \in Notifications /\ Tail(s.queue) \in Seq(Notifications)
  BY TailOfQueue DEF PreSound, Base
<1>2. s.current = Nothing /\ ~s.removed
  BY DEF PreSound, Base, RemovedDestroyed
<1>3. t \in Tray
  BY <1>0 DEF Tray
<1>4. /\ t.queue = Tail(s.queue) /\ t.current = h /\ t.life = s.life
      /\ t.removed = s.removed /\ t.displayed = s.displayed \cup {h}
  BY <1>0 DEF Tray
<1>5. QueueDistinct(t)
  BY <1>0, <1>4, TailOfQueue DEF PreSound, Base, QueueDistinct, Tray
<1>6. QueueLive(t)
  BY <1>0, <1>4, TailOfQueue DEF PreSound, Base, QueueDistinct, QueueLive
<1>7. NoneLostBut(t, Nothing)
  <2> SUFFICES ASSUME NEW n \in Notifications, s.life[n] = "live", n \notin s.displayed, n # h,
                      n # Nothing
               PROVE  Queued(t, n)
    BY <1>4 DEF NoneLostBut
  <2>1. PICK i \in DOMAIN s.queue : s.queue[i] = n
    BY DEF PreSound, Base, NoneLostBut, Queued
  <2>2. s \in Tray /\ s.queue[1] # n
    BY TailOfQueue DEF PreSound, Base
  <2>3. i - 1 \in DOMAIN Tail(s.queue) /\ Tail(s.queue)[i - 1] = n
    BY <2>1, <2>2, TailOfQueue
  <2> QED BY <2>3, <1>4 DEF Queued
<1>8. RemovedDestroyed(t)
  BY <1>2, <1>4 DEF RemovedDestroyed
<1>9. t.current # Nothing
  BY <1>0, <1>4, TrayAssumption
<1>10. ShowHead(s) = UpdateShowing(t)
  BY DEF ShowHead
<1>11. CurrentDisplayed(t)
  BY <1>4 DEF CurrentDisplayed
<1> QED BY <1>11, <1>3, <1>5, <1>6, <1>7, <1>8, <1>9, <1>10, UpdateShowingSound DEF Base

\* A dismissed notification leaves the queue.
LEMMA DismissHeadSound ==
    ASSUME NEW s, PreSound(s), s.state = "HIDDEN", s.queue # <<>>
    PROVE  Sound(DismissHead(s))
<1> DEFINE h == Head(s.queue)
           t == DismissHead(s)
<1> SUFFICES Sound(t)
  OBVIOUS
<1>0. s \in Tray /\ h \in Notifications /\ Tail(s.queue) \in Seq(Notifications)
  BY TailOfQueue DEF PreSound, Base
<1>2. s.current = Nothing /\ ~s.removed
  BY DEF PreSound, Base, RemovedDestroyed
<1>3. t \in Tray
  BY <1>0 DEF DismissHead, Tray
<1>4. /\ t.queue = Tail(s.queue) /\ t.current = s.current /\ t.state = "HIDDEN"
      /\ t.life = [s.life EXCEPT ![h] = "destroyed"]
      /\ t.removed = s.removed /\ t.displayed = s.displayed \cup {h}
  BY <1>0 DEF DismissHead, Tray
<1>5. \A n \in Notifications : t.life[n] = IF n = h THEN "destroyed" ELSE s.life[n]
  BY <1>0, <1>4 DEF Tray
<1> HIDE DEF t
<1>6. QueueDistinct(t)
  BY <1>0, <1>4, TailOfQueue DEF PreSound, Base, QueueDistinct, Tray
<1>7. QueueLive(t)
  <2> SUFFICES ASSUME NEW i \in DOMAIN Tail(s.queue)
               PROVE  t.life[Tail(s.queue)[i]] = "live" /\ Tail(s.queue)[i] # s.current
    BY <1>4 DEF QueueLive
  <2>1. /\ i + 1 \in DOMAIN s.queue /\ Tail(s.queue)[i] = s.queue[i + 1] /\ i + 1 # 1
        /\ 1 \in DOMAIN s.queue /\ h = s.queue[1]
    BY <1>0, TailOfQueue
  <2>2. s.queue[i + 1] # h
    BY <2>1 DEF PreSound, Base, QueueDistinct
  <2>3. s.queue[i + 1] \in Notifications
    BY <1>0, <2>1 DEF Tray
  <2> QED BY <1>5, <2>1, <2>2, <2>3 DEF PreSound, Base, QueueLive
<1>8. NoneLostBut(t, Nothing)
  <2> SUFFICES ASSUME NEW n \in Notifications, s.life[n] = "live", n \notin s.displayed, n # h,
                      n # Nothing
               PROVE  Queued(t, n)
    BY <1>4, <1>5 DEF NoneLostBut
  <2>1. PICK i \in DOMAIN s.queue : s.queue[i] = n
    BY DEF PreSound, Base, NoneLostBut, Queued
  <2>2. s.queue[1] # n
    BY <1>0, TailOfQueue
  <2>3. i - 1 \in DOMAIN Tail(s.queue) /\ Tail(s.queue)[i - 1] = n
    BY <1>0, <2>1, <2>2, TailOfQueue
  <2> QED BY <2>3, <1>4 DEF Queued
<1>9. Base(t)
  BY <1>2, <1>3, <1>4, <1>6, <1>7, <1>8 DEF Base, PreSound, RemovedDestroyed, CurrentDisplayed
<1> QED BY <1>2, <1>4, <1>9 DEF Sound, PreSound, TimerArmed

-----------------------------------------------------------------------------
\* _updateState makes the fields sound.
LEMMA UpdateStateSound ==
    ASSUME NEW s, PreSound(s)
    PROVE  Sound(UpdateState(s))
<1>1. CASE s.state = "HIDDEN" /\ Pending(s)
  BY <1>1, ShowHeadSound, DismissHeadSound DEF UpdateState, Pending
<1>2. CASE ~(s.state = "HIDDEN" /\ Pending(s)) /\ s.state = "SHOWN" /\ Expired(s)
  <2>1. s.current # Nothing
    BY <1>2 DEF PreSound
  <2> QED BY <1>2, <2>1, HideSound DEF UpdateState
<1>3. CASE ~(s.state = "HIDDEN" /\ Pending(s)) /\ ~(s.state = "SHOWN" /\ Expired(s))
  BY <1>3 DEF UpdateState, Expired, Sound, TimerArmed
<1> QED BY <1>1, <1>2, <1>3

\* _onNotificationDestroy of a notification that is destroyed just before.
LEMMA OnDestroySound ==
    ASSUME NEW s0, Sound(s0), NEW n \in Notifications
    PROVE  Sound(OnDestroy([s0 EXCEPT !.life[n] = "destroyed"], n))
<1> DEFINE s == [s0 EXCEPT !.life[n] = "destroyed"]
<1>0. s0 \in Tray
  BY DEF Sound, PreSound, Base
<1>1. s \in Tray
  BY <1>0 DEF Tray
<1>2. /\ s.queue = s0.queue /\ s.current = s0.current /\ s.state = s0.state
      /\ s.displayed = s0.displayed /\ s.removed = s0.removed
      /\ s.timer = s0.timer /\ s.urgency = s0.urgency
      /\ s.life = [s0.life EXCEPT ![n] = "destroyed"]
  BY <1>0 DEF Tray
<1>3. \A k \in Notifications : s.life[k] = IF k = n THEN "destroyed" ELSE s0.life[k]
  BY <1>0, <1>2 DEF Tray
<1> SUFFICES Sound(OnDestroy(s, n))
  OBVIOUS
<1> HIDE DEF s
<1>4. QueueDistinct(s) /\ NoneLostBut(s, Nothing)
  BY <1>2, <1>3 DEF Sound, PreSound, Base, QueueDistinct, NoneLostBut, Queued
<1>5. RemovedDestroyed(s)
  BY <1>0, <1>2, <1>3 DEF Sound, PreSound, Base, RemovedDestroyed, Tray
<1>51. CurrentDisplayed(s)
  BY <1>2 DEF Sound, PreSound, Base, CurrentDisplayed
<1>6. \A i \in DOMAIN s.queue :
         /\ s.queue[i] \in Notifications
         /\ s.queue[i] # s.current
         /\ s.queue[i] # n => s.life[s.queue[i]] = "live"
  <2>1. \A i \in DOMAIN s0.queue : s0.queue[i] \in Notifications
    BY <1>0 DEF Tray
  <2> QED BY <1>2, <1>3, <2>1 DEF Sound, PreSound, Base, QueueLive
<1>7. CASE s.current = n /\ s.state \in {"SHOWN", "SHOWING"}
  <2> DEFINE t == [s EXCEPT !.timer = FALSE, !.removed = TRUE]
  <2>1. t \in Tray
    BY <1>1 DEF Tray
  <2>2. /\ t.queue = s.queue /\ t.current = s.current /\ t.state = s.state
        /\ t.displayed = s.displayed /\ t.life = s.life
    BY <1>1 DEF Tray
  <2>3. OnDestroy(s, n) = UpdateState(t)
    BY <1>7 DEF OnDestroy
  <2> HIDE DEF t
  <2>4. QueueLive(t)
    BY <1>6, <1>7, <2>2 DEF QueueLive
  <2>5. QueueDistinct(t) /\ NoneLostBut(t, Nothing)
    BY <1>4, <2>2 DEF QueueDistinct, NoneLostBut, Queued
  <2>6. RemovedDestroyed(t)
    BY <1>3, <1>7, <2>2, TrayAssumption DEF RemovedDestroyed
  <2>7. PreSound(t)
    BY <1>2, <1>51, <2>1, <2>2, <2>4, <2>5, <2>6 DEF Sound, PreSound, Base, CurrentDisplayed
  <2> QED BY <2>3, <2>7, UpdateStateSound
<1>8. CASE ~(s.current = n /\ s.state \in {"SHOWN", "SHOWING"}) /\ ~Queued(s, n)
  <2>1. QueueLive(s)
    BY <1>6, <1>8 DEF QueueLive, Queued
  <2>2. OnDestroy(s, n) = s
    BY <1>8 DEF OnDestroy
  <2> QED BY <1>1, <1>2, <1>4, <1>5, <1>51, <2>1, <2>2 DEF Sound, PreSound, Base, TimerArmed
<1>9. CASE ~(s.current = n /\ s.state \in {"SHOWN", "SHOWING"}) /\ Queued(s, n)
  <2> DEFINE i == CHOOSE i \in DOMAIN s.queue : s.queue[i] = n
             r == Without(s.queue, i)
             t == [s EXCEPT !.queue = r]
  <2>1. s.queue \in Seq(Notifications)
    BY <1>1 DEF Tray
  <2>2. i \in DOMAIN s.queue /\ s.queue[i] = n
    BY <1>9 DEF Queued
  <2>3. OnDestroy(s, n) = t
    BY <1>9 DEF OnDestroy, Without
  <2> HIDE DEF i
  <2>5. /\ r \in Seq(Notifications)
        /\ \A k \in DOMAIN r : /\ Skip(i, k) \in DOMAIN s.queue
                               /\ Skip(i, k) # i
                               /\ r[k] = s.queue[Skip(i, k)]
        /\ \A k, l \in DOMAIN r : Skip(i, k) = Skip(i, l) => k = l
        /\ \A m \in DOMAIN s.queue : m # i => \E k \in DOMAIN r : Skip(i, k) = m
    BY <2>1, <2>2, WithoutPositions
  <2> HIDE DEF r
  <2>6. t \in Tray
    BY <1>1, <2>5 DEF Tray
  <2>7. /\ t.queue = r /\ t.current = s.current /\ t.state = s.state
        /\ t.displayed = s.displayed /\ t.removed = s.removed
        /\ t.timer = s.timer /\ t.urgency = s.urgency /\ t.life = s.life
    BY <1>1 DEF Tray
  <2> HIDE DEF t
  <2>9. QueueDistinct(t)
    BY <1>4, <2>5, <2>7 DEF QueueDistinct
  <2>10. QueueLive(t)
    <3> SUFFICES ASSUME NEW k \in DOMAIN r
                 PROVE  s.life[r[k]] = "live" /\ r[k] # s.current
      BY <2>7 DEF QueueLive
    <3>1. s.queue[Skip(i, k)] # n
      BY <1>4, <2>2, <2>5 DEF QueueDistinct
    <3> QED BY <1>6, <2>5, <3>1
  <2>11. NoneLostBut(t, Nothing)
    <3> SUFFICES ASSUME NEW a \in Notifications, s.life[a] = "live", a \notin s.displayed,
                        a # Nothing
                 PROVE  \E k \in DOMAIN r : r[k] = a
      BY <2>7 DEF NoneLostBut, Queued
    <3>1. PICK m \in DOMAIN s.queue : s.queue[m] = a
      BY <1>4 DEF NoneLostBut, Queued
    <3>2. m # i
      BY <1>3, <2>2, <3>1
    <3> QED BY <2>5, <3>1, <3>2
  <2>12. RemovedDestroyed(t)
    BY <1>5, <2>7 DEF RemovedDestroyed
  <2>13. PreSound(t)
    BY <1>2, <1>51, <2>6, <2>7, <2>9, <2>10, <2>11, <2>12
       DEF Sound, PreSound, Base, CurrentDisplayed
  <2> QED BY <1>2, <2>3, <2>7, <2>13 DEF Sound, TimerArmed
<1> QED BY <1>7, <1>8, <1>9

-----------------------------------------------------------------------------
\* _onNotify: in each of its three cases the notification ends on the screen
\* or in the queue, once.
LEMMA NotifySound ==
    ASSUME Sound(tray), NEW n \in Notifications, NEW u \in Urgencies, Notify(n, u)
    PROVE  Sound(tray')
<1> DEFINE s == [tray EXCEPT !.life[n] = "live", !.urgency[n] = u]
           q == Append(s.queue, n)
<1>0. tray \in Tray /\ tray.life[n] # "destroyed"
  BY DEF Sound, PreSound, Base, Notify
<1>1. s \in Tray
  BY <1>0 DEF Tray
<1>2. /\ s.queue = tray.queue /\ s.current = tray.current /\ s.state = tray.state
      /\ s.displayed = tray.displayed /\ s.removed = tray.removed
      /\ s.life = [tray.life EXCEPT ![n] = "live"]
  BY <1>0 DEF Tray
<1>3. \A k \in Notifications : s.life[k] = IF k = n THEN "live" ELSE tray.life[k]
  BY <1>0, <1>2 DEF Tray
<1>4. \/ s.current = n /\ tray' = UpdateState(UpdateShowing(s))
      \/ s.current # n /\ Queued(s, n) /\ tray' = UpdateState(s)
      \/ /\ s.current # n /\ ~Queued(s, n)
         /\ \E p \in [1..Len(q) -> 1..Len(q)] :
               Sorts(p, q, s.urgency) /\ tray' = UpdateState(Enqueue(s, n, p))
  BY DEF Notify
<1> HIDE DEF s
<1>5. s.queue \in Seq(Notifications) /\ \A i \in DOMAIN s.queue : s.queue[i] \in Notifications
  BY <1>1 DEF Tray
<1>6. QueueDistinct(s) /\ QueueLive(s) /\ NoneLostBut(s, n)
  BY <1>2, <1>3, <1>5, TrayAssumption
     DEF Sound, PreSound, Base, QueueDistinct, QueueLive, NoneLostBut, Queued
<1>7. RemovedDestroyed(s) /\ CurrentDisplayed(s)
  BY <1>0, <1>2, <1>3 DEF Sound, PreSound, Base, RemovedDestroyed, CurrentDisplayed, Tray
<1>8. s.current = Nothing <=> s.state = "HIDDEN"
  BY <1>2 DEF Sound, PreSound
<1>9. CASE s.current = n /\ tray' = UpdateState(UpdateShowing(s))
  <2>1. NoneLostBut(s, Nothing)
    BY <1>6, <1>7, <1>9, TrayAssumption DEF NoneLostBut, CurrentDisplayed
  <2>2. Base(s) /\ s.current # Nothing
    BY <1>1, <1>6, <1>7, <1>9, <2>1, TrayAssumption DEF Base
  <2>3. Sound(UpdateShowing(s))
    BY <2>2, UpdateShowingSound
  <2> QED BY <1>9, <2>3, UpdateStateSound DEF Sound
<1>10. CASE s.current # n /\ Queued(s, n) /\ tray' = UpdateState(s)
  <2>1. NoneLostBut(s, Nothing)
    BY <1>6, <1>10 DEF NoneLostBut
  <2>2. PreSound(s)
    BY <1>1, <1>6, <1>7, <1>8, <2>1 DEF PreSound, Base
  <2> QED BY <1>10, <2>2, UpdateStateSound
<1>11. ASSUME s.current # n, ~Queued(s, n),
              NEW p \in [1..Len(q) -> 1..Len(q)], Sorts(p, q, s.urgency),
              tray' = UpdateState(Enqueue(s, n, p))
       PROVE  Sound(tray')
  <2> DEFINE r == [i \in 1..Len(q) |-> q[p[i]]]
             t == [s EXCEPT !.queue = r]
  <2>1. Len(s.queue) \in Nat /\ DOMAIN s.queue = 1..Len(s.queue)
    BY <1>5
  <2>2. /\ Len(q) = Len(s.queue) + 1
        /\ DOMAIN q = 1..Len(q)
        /\ q[Len(q)] = n
        /\ \A i \in 1..Len(s.queue) : q[i] = s.queue[i]
        /\ \A i \in 1..Len(q) : i = Len(q) \/ i \in 1..Len(s.queue)
    BY <1>5, <2>1
  <2> HIDE DEF q
  <2>3. \A i \in DOMAIN q : q[i] \in Notifications
    BY <1>5, <2>1, <2>2
  <2>4. \A i, j \in DOMAIN q : q[i] = q[j] => i = j
    BY <1>6, <1>11, <2>1, <2>2 DEF QueueDistinct, Queued
  <2>5. \A i \in DOMAIN q : s.life[q[i]] = "live" /\ q[i] # s.current
    BY <1>3, <1>6, <1>11, <2>1, <2>2 DEF QueueLive
  <2>6. /\ \A k \in DOMAIN q : \E i \in DOMAIN q : p[i] = k
        /\ \A i, j \in DOMAIN q : i < j => q[p[i]] # q[p[j]] \/ p[i] < p[j]
    <3>1. \A i, j \in DOMAIN q : i < j =>
            \/ s.urgency[q[p[i]]] > s.urgency[q[p[j]]]
            \/ p[i] < p[j]
      BY <1>11 DEF Sorts
    <3>2. \A a \in Notifications : ~(s.urgency[a] > s.urgency[a])
      <4>1. s.urgency \in [Notifications -> Urgencies]
        BY <1>1 DEF Tray
      <4>2. \A x \in Urgencies : ~(x > x)
        BY TrayAssumption DEF CRITICAL
      <4> QED BY <4>1, <4>2
    <3>3. \A i \in DOMAIN q : q[p[i]] \in Notifications
      BY <2>2, <2>3
    <3>4. \A k \in DOMAIN q : \E i \in DOMAIN q : p[i] = k
      BY <1>11 DEF Sorts
    <3> QED BY <3>1, <3>2, <3>3, <3>4
  <2>7. \A i, j \in DOMAIN q : p[i] = p[j] => i = j
    <3>1. Len(q) \in Nat
      BY <2>1, <2>2
    <3>2. \A i \in DOMAIN q : p[i] \in Int
      BY <2>2, <3>1
    <3>3. ASSUME NEW i \in DOMAIN q, NEW j \in DOMAIN q, i < j, p[i] = p[j]
          PROVE  FALSE
      <4>1. p[i] < p[j]
        BY <2>6, <3>3
      <4> QED BY <3>2, <3>3, <4>1
    <3> QED BY <2>2, <3>1, <3>3
  <2>8. r \in Seq(Notifications) /\ DOMAIN r = DOMAIN q
    BY <2>1, <2>2, <2>3
  <2>9. \A i \in DOMAIN q : r[i] = q[p[i]] /\ p[i] \in DOMAIN q
    BY <2>2
  <2>10. Enqueue(s, n, p) = t
    BY DEF Enqueue, q
  <2> HIDE DEF r
  <2>11. t \in Tray
    BY <1>1, <2>8 DEF Tray
  <2>12. /\ t.queue = r /\ t.current = s.current /\ t.state = s.state
         /\ t.displayed = s.displayed /\ t.removed = s.removed /\ t.life = s.life
    BY <1>1 DEF Tray
  <2> HIDE DEF t
  <2>13. QueueDistinct(t)
    <3> SUFFICES ASSUME NEW i \in DOMAIN q, NEW j \in DOMAIN q, r[i] = r[j]
                 PROVE  i = j
      <4>1. DOMAIN r = DOMAIN q /\ t.queue = r
        BY <2>8, <2>12
      <4> QED BY <4>1 DEF QueueDistinct
    <3>1. q[p[i]] = q[p[j]] /\ p[i] \in DOMAIN q /\ p[j] \in DOMAIN q
      BY <2>9
    <3>2. p[i] = p[j]
      BY <2>4, <3>1
    <3> QED BY <2>7, <3>2
  <2>14. QueueLive(t)
    <3> SUFFICES ASSUME NEW i \in DOMAIN q
                 PROVE  s.life[r[i]] = "live" /\ r[i] # s.current
      <4>1. DOMAIN r = DOMAIN q /\ t.queue = r /\ t.life = s.life /\ t.current = s.current
        BY <2>8, <2>12
      <4> QED BY <4>1 DEF QueueLive
    <3> QED BY <2>5, <2>9
  <2>15. NoneLostBut(t, Nothing)
    <3> SUFFICES ASSUME NEW a \in Notifications, s.life[a] = "live", a \notin s.displayed
                 PROVE  \E k \in DOMAIN r : r[k] = a
      BY <2>12 DEF NoneLostBut, Queued
    <3>1. PICK m \in DOMAIN q : q[m] = a
      BY <1>6, <2>1, <2>2 DEF NoneLostBut, Queued
    <3>2. PICK k \in DOMAIN q : p[k] = m
      BY <2>6
    <3> QED BY <2>8, <2>9, <3>1, <3>2
  <2>16. RemovedDestroyed(t) /\ CurrentDisplayed(t)
    BY <1>7, <2>12 DEF RemovedDestroyed, CurrentDisplayed
  <2>17. PreSound(t)
    BY <1>8, <2>11, <2>12, <2>13, <2>14, <2>15, <2>16 DEF PreSound, Base
  <2> QED BY <1>11, <2>10, <2>17, UpdateStateSound
<1> QED BY <1>4, <1>9, <1>10, <1>11

-----------------------------------------------------------------------------
LEMMA InitSound == Init => Sound(tray)
<1> SUFFICES ASSUME Init PROVE Sound(tray)
  OBVIOUS
<1>0. <<>> \in Seq(Notifications) /\ {} \in SUBSET Notifications
      /\ [n \in Notifications |-> "new"]
           \in [Notifications -> {"new", "live", "destroyed"}]
  OBVIOUS
<1>1. tray \in Tray
  BY <1>0 DEF Init, Tray
<1>2. /\ tray.queue = <<>> /\ tray.current = Nothing /\ tray.state = "HIDDEN"
      /\ tray.removed = FALSE /\ tray.life = [n \in Notifications |-> "new"]
  BY DEF Init
<1> QED BY <1>1, <1>2
  DEF Sound, PreSound, Base, TimerArmed, QueueDistinct, QueueLive, NoneLostBut,
      RemovedDestroyed, CurrentDisplayed

\* A change of fields that Sound does not speak of, in front of _updateState.
LEMMA PreSoundFields ==
    ASSUME NEW s, NEW t, PreSound(s), t \in Tray,
           t.queue = s.queue, t.current = s.current, t.state = s.state, t.life = s.life,
           t.displayed = s.displayed, t.removed = s.removed
    PROVE  PreSound(t)
BY BaseFields DEF PreSound

LEMMA NextSound == Sound(tray) /\ [Next]_tray => Sound(tray')
<1> SUFFICES ASSUME Sound(tray), [Next]_tray PROVE Sound(tray')
  OBVIOUS
<1>0. tray \in Tray /\ PreSound(tray) /\ Base(tray)
  BY DEF Sound, PreSound, Base
<1>1. ASSUME NEW n \in Notifications, NEW u \in Urgencies, Notify(n, u)
      PROVE  Sound(tray')
  BY <1>1, NotifySound
<1>2. ASSUME NEW n \in Notifications, Destroy(n)
      PROVE  Sound(tray')
  BY <1>2, OnDestroySound DEF Destroy
<1>3. CASE ShowAnimationEnds
  <2>1. tray.current # Nothing
    BY <1>0, <1>3 DEF ShowAnimationEnds, PreSound
  <2> QED BY <1>0, <1>3, <2>1, ShowCompletedSound DEF ShowAnimationEnds
<1>4. CASE HideAnimationEnds
  <2>1. tray.current # Nothing
    BY <1>0, <1>4 DEF HideAnimationEnds, PreSound
  <2> QED BY <1>0, <1>4, <2>1, HideCompletedSound DEF HideAnimationEnds
<1>5. CASE TimerFires
  <2> DEFINE t == [tray EXCEPT !.timer = FALSE]
  <2>1. t \in Tray
    BY <1>0 DEF Tray
  <2>2. /\ t.queue = tray.queue /\ t.current = tray.current /\ t.state = tray.state
        /\ t.life = tray.life /\ t.displayed = tray.displayed /\ t.removed = tray.removed
    BY <1>0 DEF Tray
  <2>3. tray' = UpdateState(t)
    BY <1>5 DEF TimerFires
  <2> HIDE DEF t
  <2> QED BY <1>0, <2>1, <2>2, <2>3, PreSoundFields, UpdateStateSound
<1>6. ASSUME NEW status \in {"AVAILABLE", "BUSY", "IDLE"}, StatusChanges(status)
      PROVE  Sound(tray')
  <2> DEFINE timer == tray.timer /\ status # "BUSY"
             busy == status = "BUSY" \/ (tray.busy /\ status = "IDLE")
             dnd == IF status = "IDLE" THEN tray.dnd ELSE status = "BUSY"
             t == [tray EXCEPT !.timer = timer, !.busy = busy, !.dnd = dnd]
  <2>1. tray' = UpdateState(t)
    BY <1>6 DEF StatusChanges
  <2>2. timer \in BOOLEAN /\ busy \in BOOLEAN /\ dnd \in BOOLEAN
    BY <1>0 DEF Tray
  <2> HIDE DEF timer, busy, dnd
  <2>3. t \in Tray
    BY <1>0, <2>2 DEF Tray
  <2>4. /\ t.queue = tray.queue /\ t.current = tray.current /\ t.state = tray.state
        /\ t.life = tray.life /\ t.displayed = tray.displayed /\ t.removed = tray.removed
    BY <1>0 DEF Tray
  <2> HIDE DEF t
  <2> QED BY <1>0, <2>1, <2>3, <2>4, PreSoundFields, UpdateStateSound
<1>7. CASE OverviewMoves
  BY <1>0, <1>7, UpdateStateSound DEF OverviewMoves
<1>8. CASE SettingsChange
  <2>1. tray' \in Tray
    BY <1>0, <1>8 DEF SettingsChange, Tray
  <2>2. /\ tray'.queue = tray.queue /\ tray'.current = tray.current
        /\ tray'.state = tray.state /\ tray'.life = tray.life
        /\ tray'.displayed = tray.displayed /\ tray'.removed = tray.removed
        /\ tray'.timer = tray.timer /\ tray'.urgency = tray.urgency
    BY <1>0, <1>8 DEF SettingsChange, Tray
  <2>3. PreSound(tray')
    BY <1>0, <2>1, <2>2, PreSoundFields
  <2> QED BY <2>2, <2>3 DEF Sound, TimerArmed
<1>9. CASE UNCHANGED tray
  BY <1>9
<1> QED BY <1>1, <1>2, <1>3, <1>4, <1>5, <1>6, <1>7, <1>8, <1>9 DEF Next

-----------------------------------------------------------------------------
TrayInv == Sound(tray)

\* The inductive invariant.
THEOREM TrayInvAlways == Spec => []TrayInv
<1>1. Init => TrayInv
  BY InitSound DEF TrayInv
<1>2. TrayInv /\ [Next]_tray => TrayInv'
  BY NextSound DEF TrayInv
<1> QED BY <1>1, <1>2, PTL DEF Spec

\* Every field of the tray keeps its range.
THEOREM TypeCorrect == Spec => []TypeOK
<1>1. TrayInv => TypeOK
  BY DEF TrayInv, Sound, PreSound, Base, TypeOK
<1> QED BY <1>1, TrayInvAlways, PTL

\* No notification waits twice, or after its destruction, or while it is on the
\* screen: _notificationQueue of messageTray.js.
THEOREM QueueSoundAlways == Spec => []QueueSound
<1>1. TrayInv => QueueSound
  BY DEF TrayInv, Sound, PreSound, Base, QueueSound, QueueDistinct, QueueLive
<1> QED BY <1>1, TrayInvAlways, PTL

\* The screen is free exactly in the state HIDDEN, and what is marked as removed
\* was destroyed.
THEOREM CurrentMatchesStateAlways == Spec => []CurrentMatchesState
<1>1. TrayInv => CurrentMatchesState
  BY DEF TrayInv, Sound, PreSound, Base, CurrentMatchesState, RemovedDestroyed
<1> QED BY <1>1, TrayInvAlways, PTL

\* What is shown and is not critical has a timer, which _showNotificationCompleted
\* arms and _updateState replaces by the hiding.
THEOREM ShownHasTimerAlways == Spec => []ShownHasTimer
<1>1. TrayInv => ShownHasTimer
  BY DEF TrayInv, Sound, ShownHasTimer, TimerArmed
<1> QED BY <1>1, TrayInvAlways, PTL

\* No live notification is lost before it was on the screen.
THEOREM NothingLostAlways == Spec => []NothingLost
<1>1. TrayInv => NothingLost
  BY TrayAssumption DEF TrayInv, Sound, PreSound, Base, NothingLost, NoneLostBut
<1> QED BY <1>1, TrayInvAlways, PTL

-----------------------------------------------------------------------------
\* What every method that takes the fields from s to t leaves alone.
Keeps(s, t) ==
    /\ t.busy = s.busy /\ t.dnd = s.dnd /\ t.urgency = s.urgency
    /\ \A n \in Notifications : s.life[n] = "destroyed" => t.life[n] = "destroyed"

LEMMA UpdateShowingEffect ==
    ASSUME NEW s \in Tray
    PROVE  /\ Keeps(s, UpdateShowing(s))
           /\ UpdateShowing(s).current = s.current
           /\ UpdateShowing(s).removed = s.removed
           /\ UpdateShowing(s).state \in {"SHOWING", "SHOWN"}
           /\ TimerArmed(UpdateShowing(s))
<1>1. CASE s.animated
  <2>1. UpdateShowing(s) = [s EXCEPT !.state = "SHOWING"]
    BY <1>1 DEF UpdateShowing
  <2> QED BY <2>1 DEF Tray, Keeps, TimerArmed
<1>2. CASE ~s.animated
  <2> DEFINE armed == s.applet \/ s.urgency[s.current] # CRITICAL
             t == [s EXCEPT !.state = "SHOWN", !.timer = armed]
  <2>1. UpdateShowing(s) = t
    BY <1>2 DEF UpdateShowing, ShowCompleted
  <2>2. /\ t.busy = s.busy /\ t.dnd = s.dnd /\ t.urgency = s.urgency /\ t.life = s.life
        /\ t.current = s.current /\ t.removed = s.removed /\ t.timer = armed
        /\ t.state = "SHOWN"
    BY DEF Tray
  <2> HIDE DEF t
  <2>3. TimerArmed(t)
    BY <2>2 DEF TimerArmed
  <2> QED BY <2>1, <2>2, <2>3 DEF Keeps
<1> QED BY <1>1, <1>2

LEMMA ShowHeadEffect ==
    ASSUME NEW s \in Tray, s.queue # <<>>
    PROVE  Keeps(s, ShowHead(s)) /\ ShowHead(s).current = Head(s.queue)
<1> DEFINE h == Head(s.queue)
           t == [s EXCEPT !.current = h, !.queue = Tail(s.queue), !.displayed = @ \cup {h}]
<1>0. h \in Notifications /\ Tail(s.queue) \in Seq(Notifications)
  BY TailOfQueue
<1>1. t \in Tray
  BY <1>0 DEF Tray
<1>2. /\ t.busy = s.busy /\ t.dnd = s.dnd /\ t.urgency = s.urgency /\ t.life = s.life
      /\ t.current = h
  BY DEF Tray
<1>3. ShowHead(s) = UpdateShowing(t)
  BY DEF ShowHead
<1> HIDE DEF t
<1> QED BY <1>1, <1>2, <1>3, UpdateShowingEffect DEF Keeps

LEMMA DismissHeadEffect ==
    ASSUME NEW s \in Tray, s.queue # <<>>
    PROVE  Keeps(s, DismissHead(s)) /\ DismissHead(s).current = s.current
<1> DEFINE h == Head(s.queue)
           t == DismissHead(s)
<1>1. /\ t.busy = s.busy /\ t.dnd = s.dnd /\ t.urgency = s.urgency
      /\ t.life = [s.life EXCEPT ![h] = "destroyed"] /\ t.current = s.current
  BY DEF DismissHead, Tray
<1>2. h \in Notifications
  BY TailOfQueue
<1>3. \A n \in Notifications : t.life[n] = IF n = h THEN "destroyed" ELSE s.life[n]
  BY <1>1, <1>2 DEF Tray
<1> SUFFICES Keeps(s, t) /\ t.current = s.current
  OBVIOUS
<1> HIDE DEF t
<1> QED BY <1>1, <1>3 DEF Keeps

LEMMA HideCompletedEffect ==
    ASSUME NEW s \in Tray
    PROVE  Keeps(s, HideCompleted(s)) /\ HideCompleted(s).current = Nothing
<1> DEFINE t == HideCompleted(s)
           life == IF ~(s.applet /\ ~s.removed) /\ s.current \in Transient
                   THEN [s.life EXCEPT ![s.current] = "destroyed"] ELSE s.life
<1>1. /\ t.busy = s.busy /\ t.dnd = s.dnd /\ t.urgency = s.urgency
      /\ t.life = life /\ t.current = Nothing
  BY DEF HideCompleted, Tray
<1>2. \A n \in Notifications : s.life[n] = "destroyed" => life[n] = "destroyed"
  BY DEF Tray
<1> SUFFICES Keeps(s, t) /\ t.current = Nothing
  OBVIOUS
<1> HIDE DEF t, life
<1> QED BY <1>1, <1>2 DEF Keeps

LEMMA HideEffect ==
    ASSUME NEW s \in Tray
    PROVE  Keeps(s, Hide(s)) /\ Hide(s).current \in {s.current, Nothing}
<1>1. CASE s.animated
  <2>1. Hide(s) = [s EXCEPT !.state = "HIDING"]
    BY <1>1 DEF Hide
  <2> QED BY <2>1 DEF Tray, Keeps
<1>2. CASE ~s.animated
  BY <1>2, HideCompletedEffect DEF Hide
<1> QED BY <1>1, <1>2

\* _updateState brings up the head of the queue if that is critical or the user
\* is not busy, and hides only what has expired.
LEMMA UpdateStateEffect ==
    ASSUME NEW s \in Tray
    PROVE  /\ Keeps(s, UpdateState(s))
           /\ \/ UpdateState(s).current \in {s.current, Nothing}
              \/ ~s.busy
              \/ s.urgency[UpdateState(s).current] = CRITICAL
           /\ s.state \in {"SHOWING", "SHOWN"} =>
                 UpdateState(s) = s \/ (s.state = "SHOWN" /\ Expired(s))
<1>1. CASE s.state = "HIDDEN" /\ Pending(s) /\ s.enabled
  <2>1. UpdateState(s) = ShowHead(s) /\ s.queue # <<>>
    BY <1>1 DEF UpdateState, Pending
  <2> QED BY <1>1, <2>1, ShowHeadEffect DEF Pending
<1>2. CASE s.state = "HIDDEN" /\ Pending(s) /\ ~s.enabled
  <2>1. UpdateState(s) = DismissHead(s) /\ s.queue # <<>>
    BY <1>2 DEF UpdateState, Pending
  <2> QED BY <1>2, <2>1, DismissHeadEffect
<1>3. CASE s.state = "SHOWN" /\ Expired(s)
  <2>1. UpdateState(s) = Hide(s)
    BY <1>3 DEF UpdateState
  <2> QED BY <1>3, <2>1, HideEffect
<1>4. CASE ~(s.state = "HIDDEN" /\ Pending(s)) /\ ~(s.state = "SHOWN" /\ Expired(s))
  <2>1. UpdateState(s) = s
    BY <1>4 DEF UpdateState
  <2> QED BY <2>1 DEF Keeps
<1> QED BY <1>1, <1>2, <1>3, <1>4

-----------------------------------------------------------------------------
\* _busy is what the user last asked for: an idle user does not change it.
StepInv == TrayInv /\ tray.busy = tray.dnd

\* The two properties, of one step.
CalmStep ==
    /\ tray'.busy = tray'.dnd
    /\ tray'.current \notin {tray.current, Nothing} /\ tray'.dnd
          => tray'.urgency[tray'.current] = CRITICAL
    /\ tray.state = "SHOWN" /\ tray'.state \in {"HIDING", "HIDDEN"}
          /\ tray.urgency[tray.current] = CRITICAL
       => tray'.life[tray.current] = "destroyed"

\* A step that ends in _updateState of the fields s.
LEMMA UpdatingStep ==
    ASSUME StepInv, NEW s \in Tray, tray' = UpdateState(s),
           s.current = tray.current, s.busy = s.dnd,
           tray.state = "SHOWN" /\ tray.urgency[tray.current] = CRITICAL =>
              /\ s.state \in {"SHOWING", "SHOWN"}
              /\ s.state = "SHOWN" /\ Expired(s) => s.life[s.current] = "destroyed"
    PROVE  CalmStep
<1>1. /\ tray'.busy = s.busy /\ tray'.dnd = s.dnd /\ tray'.urgency = s.urgency
      /\ \A n \in Notifications : s.life[n] = "destroyed" => tray'.life[n] = "destroyed"
      /\ \/ tray'.current \in {s.current, Nothing}
         \/ ~s.busy
         \/ s.urgency[tray'.current] = CRITICAL
      /\ s.state \in {"SHOWING", "SHOWN"} =>
            tray' = s \/ (s.state = "SHOWN" /\ Expired(s))
  BY UpdateStateEffect DEF Keeps
<1>2. tray.state = "SHOWN" => tray.current \in Notifications
  BY DEF StepInv, TrayInv, Sound, PreSound, Base, Tray
<1>3. ASSUME tray.state = "SHOWN", tray'.state \in {"HIDING", "HIDDEN"},
             tray.urgency[tray.current] = CRITICAL
      PROVE  tray'.life[tray.current] = "destroyed"
  <2>1. tray' # s
    BY <1>3
  <2>2. s.life[s.current] = "destroyed"
    BY <1>1, <1>3, <2>1
  <2> QED BY <1>1, <1>2, <1>3, <2>2
<1> QED BY <1>1, <1>3 DEF CalmStep

\* A step that changes neither the urgencies nor what is on the screen before it
\* ends in _updateState.
LEMMA SameScreenStep ==
    ASSUME StepInv, NEW s \in Tray, tray' = UpdateState(s), s.busy = s.dnd,
           s.current = tray.current, s.state = tray.state,
           s.current # Nothing => s.urgency[s.current] = tray.urgency[s.current],
           s.removed /\ s.current # Nothing => s.life[s.current] = "destroyed"
    PROVE  CalmStep
<1>1. ASSUME tray.state = "SHOWN", tray.urgency[tray.current] = CRITICAL, Expired(s)
      PROVE  s.life[s.current] = "destroyed"
  <2>1. tray.current # Nothing
    BY <1>1 DEF StepInv, TrayInv, Sound, PreSound
  <2> QED BY <1>1, <2>1 DEF Expired
<1> QED BY <1>1, UpdatingStep

\* A step without _updateState: nothing comes on the screen, and what is shown
\* stays.
LEMMA PlainStep ==
    ASSUME tray'.current \in {tray.current, Nothing}, tray'.busy = tray'.dnd,
           tray.state = "SHOWN" => tray'.state = "SHOWN"
    PROVE  CalmStep
BY DEF CalmStep

LEMMA NotifyCalm ==
    ASSUME StepInv, NEW n \in Notifications, NEW u \in Urgencies, Notify(n, u)
    PROVE  CalmStep
<1> DEFINE s == [tray EXCEPT !.life[n] = "live", !.urgency[n] = u]
           q == Append(s.queue, n)
<1>1. tray \in Tray /\ tray.life[n] # "destroyed" /\ RemovedDestroyed(tray)
  BY DEF StepInv, TrayInv, Sound, PreSound, Base, Notify
<1>2. s \in Tray
  BY <1>1 DEF Tray
<1>3. /\ s.current = tray.current /\ s.state = tray.state /\ s.removed = tray.removed
      /\ s.busy = tray.busy /\ s.dnd = tray.dnd /\ s.queue = tray.queue
      /\ s.life = [tray.life EXCEPT ![n] = "live"]
      /\ s.urgency = [tray.urgency EXCEPT ![n] = u]
  BY <1>1 DEF Tray
<1>4. \A k \in Notifications : k # n => s.life[k] = tray.life[k] /\ s.urgency[k] = tray.urgency[k]
  BY <1>1, <1>3 DEF Tray
<1>5. \/ s.current = n /\ tray' = UpdateState(UpdateShowing(s))
      \/ s.current # n /\ Queued(s, n) /\ tray' = UpdateState(s)
      \/ /\ s.current # n /\ ~Queued(s, n)
         /\ \E p \in [1..Len(q) -> 1..Len(q)] :
               Sorts(p, q, s.urgency) /\ tray' = UpdateState(Enqueue(s, n, p))
  BY DEF Notify
<1>6. s.current \in Notifications \cup {Nothing}
  BY <1>2 DEF Tray
<1> HIDE DEF s
<1>7. s.busy = s.dnd
  BY <1>3 DEF StepInv
<1>8. s.current # n /\ s.current # Nothing =>
         /\ s.urgency[s.current] = tray.urgency[s.current]
         /\ s.removed => s.life[s.current] = "destroyed"
  BY <1>1, <1>3, <1>4, <1>6 DEF RemovedDestroyed
<1>9. CASE s.current = n /\ tray' = UpdateState(UpdateShowing(s))
  <2> DEFINE t == UpdateShowing(s)
  <2>1. /\ t.busy = s.busy /\ t.dnd = s.dnd /\ t.current = s.current
        /\ t.removed = s.removed /\ t.state \in {"SHOWING", "SHOWN"} /\ TimerArmed(t)
    BY <1>2, UpdateShowingEffect DEF Keeps
  <2>2. ~s.removed
    BY <1>1, <1>3, <1>9 DEF RemovedDestroyed
  <2>3. t.state = "SHOWN" => ~Expired(t)
    BY <1>2, <2>1, <2>2 DEF TimerArmed, Expired, Tray
  <2>4. t \in Tray
    <3>1. CASE s.animated
      BY <1>2, <3>1 DEF UpdateShowing, Tray
    <3>2. CASE ~s.animated
      <4> DEFINE armed == s.applet \/ s.urgency[s.current] # CRITICAL
      <4>1. t = [s EXCEPT !.state = "SHOWN", !.timer = armed]
        BY <3>2 DEF UpdateShowing, ShowCompleted
      <4> QED BY <1>2, <4>1 DEF Tray
    <3> QED BY <3>1, <3>2
  <2> HIDE DEF t
  <2>5. tray' = UpdateState(t)
    BY <1>9 DEF t
  <2> QED BY <1>3, <1>7, <2>1, <2>3, <2>4, <2>5, UpdatingStep
<1>10. CASE s.current # n /\ tray' = UpdateState(s)
  BY <1>2, <1>3, <1>7, <1>8, <1>10, SameScreenStep
<1>11. ASSUME s.current # n, NEW p \in [1..Len(q) -> 1..Len(q)],
              tray' = UpdateState(Enqueue(s, n, p))
       PROVE  CalmStep
  <2> DEFINE r == [i \in 1..Len(q) |-> q[p[i]]]
             t == [s EXCEPT !.queue = r]
  <2>1. s.queue \in Seq(Notifications) /\ q \in Seq(Notifications) /\ Len(q) \in Nat
    BY <1>2 DEF Tray
  <2>2. \A i \in 1..Len(q) : q[p[i]] \in Notifications
    BY <2>1
  <2> HIDE DEF q
  <2>3. r \in Seq(Notifications)
    BY <2>1, <2>2
  <2>4. Enqueue(s, n, p) = t
    BY DEF Enqueue, q
  <2> HIDE DEF r
  <2>5. t \in Tray
    BY <1>2, <2>3 DEF Tray
  <2>6. /\ t.current = s.current /\ t.state = s.state /\ t.removed = s.removed
        /\ t.busy = s.busy /\ t.dnd = s.dnd /\ t.life = s.life /\ t.urgency = s.urgency
    BY <1>2 DEF Tray
  <2> HIDE DEF t
  <2> QED BY <1>3, <1>7, <1>8, <1>11, <2>4, <2>5, <2>6, SameScreenStep
<1> QED BY <1>5, <1>9, <1>10, <1>11

LEMMA DestroyCalm ==
    ASSUME StepInv, NEW n \in Notifications, Destroy(n)
    PROVE  CalmStep
<1> DEFINE s == [tray EXCEPT !.life[n] = "destroyed"]
<1>1. tray \in Tray /\ tray' = OnDestroy(s, n)
  BY DEF StepInv, TrayInv, Sound, PreSound, Base, Destroy
<1>2. s \in Tray
  BY <1>1 DEF Tray
<1>3. /\ s.current = tray.current /\ s.state = tray.state
      /\ s.busy = tray.busy /\ s.dnd = tray.dnd /\ s.urgency = tray.urgency
      /\ s.life[n] = "destroyed"
  BY <1>1 DEF Tray
<1> HIDE DEF s
<1>4. CASE s.current = n /\ s.state \in {"SHOWN", "SHOWING"}
  <2> DEFINE t == [s EXCEPT !.timer = FALSE, !.removed = TRUE]
  <2>1. tray' = UpdateState(t)
    BY <1>1, <1>4 DEF OnDestroy
  <2>2. t \in Tray
    BY <1>2 DEF Tray
  <2>3. /\ t.current = s.current /\ t.state = s.state /\ t.busy = s.busy
        /\ t.dnd = s.dnd /\ t.urgency = s.urgency /\ t.life = s.life
    BY <1>2 DEF Tray
  <2> HIDE DEF t
  <2> QED BY <1>3, <1>4, <2>1, <2>2, <2>3, SameScreenStep DEF StepInv
<1>5. CASE ~(s.current = n /\ s.state \in {"SHOWN", "SHOWING"})
  <2>1. \/ tray' = s
        \/ \E r : tray' = [s EXCEPT !.queue = r]
    BY <1>1, <1>5 DEF OnDestroy
  <2>2. /\ tray'.current = s.current /\ tray'.state = s.state
        /\ tray'.busy = s.busy /\ tray'.dnd = s.dnd
    BY <1>2, <2>1 DEF Tray
  <2> QED BY <1>3, <2>2, PlainStep DEF StepInv
<1> QED BY <1>4, <1>5

LEMMA NextCalm == StepInv /\ [Next]_tray => CalmStep
<1> SUFFICES ASSUME StepInv, [Next]_tray PROVE CalmStep
  OBVIOUS
<1>0. tray \in Tray /\ RemovedDestroyed(tray) /\ tray.busy = tray.dnd
  BY DEF StepInv, TrayInv, Sound, PreSound, Base
<1>1. ASSUME NEW n \in Notifications, NEW u \in Urgencies, Notify(n, u)
      PROVE  CalmStep
  BY <1>1, NotifyCalm
<1>2. ASSUME NEW n \in Notifications, Destroy(n)
      PROVE  CalmStep
  BY <1>2, DestroyCalm
<1>3. CASE ShowAnimationEnds
  <2>1. /\ tray'.current = tray.current /\ tray'.busy = tray.busy /\ tray'.dnd = tray.dnd
        /\ tray'.state = "SHOWN"
    BY <1>0, <1>3 DEF ShowAnimationEnds, ShowCompleted, Tray
  <2> QED BY <1>0, <2>1, PlainStep
<1>4. CASE HideAnimationEnds
  BY <1>0, <1>4, HideCompletedEffect, PlainStep DEF HideAnimationEnds, Keeps
<1>5. CASE TimerFires
  <2> DEFINE t == [tray EXCEPT !.timer = FALSE]
  <2>1. t \in Tray /\ tray' = UpdateState(t)
    BY <1>0, <1>5 DEF TimerFires, Tray
  <2>2. /\ t.current = tray.current /\ t.state = tray.state /\ t.removed = tray.removed
        /\ t.busy = tray.busy /\ t.dnd = tray.dnd
        /\ t.life = tray.life /\ t.urgency = tray.urgency
    BY <1>0 DEF Tray
  <2> HIDE DEF t
  <2> QED BY <1>0, <2>1, <2>2, SameScreenStep DEF RemovedDestroyed
<1>6. ASSUME NEW status \in {"AVAILABLE", "BUSY", "IDLE"}, StatusChanges(status)
      PROVE  CalmStep
  <2> DEFINE timer == tray.timer /\ status # "BUSY"
             busy == status = "BUSY" \/ (tray.busy /\ status = "IDLE")
             dnd == IF status = "IDLE" THEN tray.dnd ELSE status = "BUSY"
             t == [tray EXCEPT !.timer = timer, !.busy = busy, !.dnd = dnd]
  <2>1. tray' = UpdateState(t)
    BY <1>6 DEF StatusChanges
  <2>2. timer \in BOOLEAN /\ busy \in BOOLEAN /\ dnd \in BOOLEAN
    BY <1>0 DEF Tray
  <2>3. tray.busy \in BOOLEAN
    BY <1>0 DEF Tray
  <2>4. busy = dnd
    <3>1. CASE status = "IDLE"
      BY <1>0, <2>3, <3>1
    <3>2. CASE status # "IDLE"
      BY <2>3, <3>2
    <3> QED BY <3>1, <3>2
  <2> HIDE DEF timer, busy, dnd
  <2>5. t \in Tray
    BY <1>0, <2>2 DEF Tray
  <2>6. /\ t.current = tray.current /\ t.state = tray.state /\ t.removed = tray.removed
        /\ t.busy = busy /\ t.dnd = dnd
        /\ t.life = tray.life /\ t.urgency = tray.urgency
    BY <1>0 DEF Tray
  <2> HIDE DEF t
  <2> QED BY <1>0, <2>1, <2>4, <2>5, <2>6, SameScreenStep DEF RemovedDestroyed
<1>7. CASE OverviewMoves
  BY <1>0, <1>7, SameScreenStep DEF OverviewMoves, RemovedDestroyed
<1>8. CASE SettingsChange
  <2>1. /\ tray'.current = tray.current /\ tray'.state = tray.state
        /\ tray'.busy = tray.busy /\ tray'.dnd = tray.dnd
    BY <1>0, <1>8 DEF SettingsChange, Tray
  <2> QED BY <1>0, <2>1, PlainStep
<1>9. CASE UNCHANGED tray
  BY <1>0, <1>9, PlainStep
<1> QED BY <1>1, <1>2, <1>3, <1>4, <1>5, <1>6, <1>7, <1>8, <1>9 DEF Next

-----------------------------------------------------------------------------
\* Going idle does not make a busy user available: _onStatusChanged.
THEOREM StepInvAlways == Spec => []StepInv
<1>1. Init => StepInv
  BY InitSound DEF Init, StepInv, TrayInv
<1>2. StepInv /\ [Next]_tray => StepInv'
  BY NextSound, NextCalm DEF StepInv, TrayInv, CalmStep
<1> QED BY <1>1, <1>2, PTL DEF Spec

\* As long as the user is busy, idle or not, _updateState brings up only critical
\* notifications.
THEOREM BusyShowsOnlyCriticalAlways == Spec => BusyShowsOnlyCritical
<1>1. StepInv /\ [Next]_tray =>
        [tray'.current \notin {tray.current, Nothing} /\ tray'.dnd
           => tray'.urgency[tray'.current] = CRITICAL]_tray
  BY NextCalm DEF CalmStep
<1> QED BY <1>1, StepInvAlways, PTL DEF Spec, BusyShowsOnlyCritical

\* A critical notification that is shown leaves the screen only after its
\* destruction: neither the timer nor the presence takes it away.
THEOREM CriticalStaysAlways == Spec => CriticalStays
<1>1. StepInv /\ [Next]_tray =>
        [tray.state = "SHOWN" /\ tray'.state \in {"HIDING", "HIDDEN"}
           /\ tray.urgency[tray.current] = CRITICAL
           => tray'.life[tray.current] = "destroyed"]_tray
  BY NextCalm DEF CalmStep
<1> QED BY <1>1, StepInvAlways, PTL DEF Spec, CriticalStays

-----------------------------------------------------------------------------
(* The notification daemon: its inductive invariant, in parts              *)

\* The ids are given out in turn, and what refers to an ndata refers to one of the id.
Refs(d) ==
    /\ Len(d.ndata) <= MaxCalls
    /\ d.nextId <= Len(d.ndata) + 1
    /\ \A n \in DOMAIN d.ndata : d.ndata[n].id < d.nextId
    /\ \A id \in Ids : d.current[id] # 0 =>
          d.current[id] \in DOMAIN d.ndata /\ d.ndata[d.current[id]].id = id
    /\ \A id \in Ids : d.owner[id] # 0 =>
          d.owner[id] \in DOMAIN d.ndata /\ d.ndata[d.owner[id]].id = id
    /\ \A i \in DOMAIN d.list : d.list[i] \in DOMAIN d.ndata

\* A notification is one sender's, who is the one whose pid is asked for.
OneSender(d) ==
    /\ \A n, m \in DOMAIN d.ndata :
          d.ndata[n].id = d.ndata[m].id => d.ndata[n].sender = d.ndata[m].sender
    /\ \A k \in DOMAIN d.calls, n \in DOMAIN d.ndata :
          d.ndata[n].id = d.calls[k].id => d.ndata[n].sender = d.calls[k].sender
    /\ \A k \in DOMAIN d.calls : d.calls[k].id < d.nextId

\* What is bound was shown; what is gone has no entry.
Lives(d) ==
    /\ \A id \in Ids : d.life[id] = "live" <=> d.current[id] # 0 /\ d.ndata[d.current[id]].bound
    /\ \A id \in Ids : d.life[id] = "live" => d.owner[id] # 0
    /\ \A id \in Ids : d.life[id] = "destroyed" => d.current[id] = 0
    /\ \A id \in Ids : d.life[id] # "none" => id < d.nextId
    /\ \A n \in DOMAIN d.ndata : d.ndata[n].bound => d.life[d.ndata[n].id] # "none"

\* ExpireListSorted and ToExpireIsListed, also of those that wait for a pid.
SortedList(d) ==
    \A i, j \in DOMAIN d.list : i < j =>
        d.list[i] # d.list[j] /\ d.ndata[d.list[i]].expires <= d.ndata[d.list[j]].expires

AllListed(d) ==
    \A id \in Ids : d.current[id] # 0 /\ d.ndata[d.current[id]].expires # 0 =>
        \E i \in DOMAIN d.list : d.list[i] = d.current[id]

\* An entry of the list that is alive, and one that the answer to a call may yet show.
Living(d, n) == d.ndata[n].bound /\ d.life[d.ndata[n].id] = "live"

Expected(d, n) ==
    /\ ~d.ndata[n].bound
    /\ d.current[d.ndata[n].id] = n
    /\ \E k \in DOMAIN d.calls : d.calls[k].id = d.ndata[n].id

\* Time t comes in time for the head of the list.
InTime(d, t) == t <= d.ndata[Head(d.list)].expires \/ t <= d.now + 1

Running(d) == d.orphans \cup ({d.timer} \ {None, Dead})

\* HeadIsWatched, as long as there is hope for every entry. The timer that comes
\* in time does so after the calls are answered: it is not yet due.
Watched(d) ==
    d.list # <<>> /\ (\A i \in DOMAIN d.list : Living(d, d.list[i]) \/ Expected(d, d.list[i])) =>
        \E t \in Running(d) :
            /\ InTime(d, t)
            /\ (\E i \in DOMAIN d.list : Expected(d, d.list[i])) => t > d.now

\* The sources' lists, but for the notifications in gone.
Shown(d, s) ==
    {id \in Ids : /\ d.life[id] = "live"
                  /\ d.ndata[d.owner[id]].sender = s
                  /\ d.ndata[d.owner[id]].kind # "transient"}

Holding(d, gone) ==
    \A s \in Senders : /\ IsInjective(d.held[s])
                       /\ Len(d.held[s]) <= MAX_NOTIFICATIONS
                       /\ ToSet(d.held[s]) = Shown(d, s) \ gone

\* Who has a pid has a source, but for the senders in those.
PidBut(d, those) == \A s \in Senders \ those : d.pid[s] => d.held[s] # <<>>

Tabled(d) ==
    /\ d \in DaemonState
    /\ Refs(d) /\ OneSender(d) /\ Lives(d)
    /\ SortedList(d) /\ AllListed(d)

Kept(d) == Tabled(d) /\ Watched(d)

Good(d) == Kept(d) /\ Holding(d, {}) /\ PidBut(d, {})

DaemonInv == Good(daemon)

-----------------------------------------------------------------------------
(* The timer and the ends of notifications                                 *)

\* The daemon's fields.
LEMMA DaemonFields ==
  ASSUME NEW d \in DaemonState
  PROVE  /\ d.ndata \in Seq(NData) /\ d.current \in [Ids -> 0..MaxCalls]
         /\ d.life \in [Ids -> {"none", "live", "destroyed"}]
         /\ d.owner \in [Ids -> 0..MaxCalls]
         /\ d.reason \in [Ids -> {"open", "closed", "dismissed", "expired"}]
         /\ d.nextId \in 1..(MaxCalls + 1) /\ d.list \in Seq(Ids) /\ d.timer \in Nat \cup {Dead}
         /\ d.orphans \in SUBSET Nat /\ d.held \in [Senders -> Seq(Ids)]
         /\ d.pid \in [Senders -> BOOLEAN] /\ d.calls \in Seq([sender : Senders, id : Ids])
         /\ d.now \in 0..MaxTime
BY DEF DaemonState

LEMMA NDataFields ==
  ASSUME NEW d \in DaemonState, NEW n \in DOMAIN d.ndata
  PROVE  /\ d.ndata[n] \in NData
         /\ d.ndata[n].id \in Ids /\ d.ndata[n].sender \in Senders /\ d.ndata[n].kind \in Kinds
         /\ d.ndata[n].expires \in Nat /\ d.ndata[n].bound \in BOOLEAN
<1>1. d.ndata[n] \in NData
  <2>1. d.ndata \in Seq(NData)
    BY DaemonFields
  <2> QED BY <2>1
<1> QED BY <1>1 DEF NData

LEMMA CallFields ==
  ASSUME NEW d \in DaemonState, NEW k \in DOMAIN d.calls
  PROVE  d.calls[k].sender \in Senders /\ d.calls[k].id \in Ids
<1> DEFINE S == [sender : Senders, id : Ids]
           q == d.calls
<1>1. q \in Seq(S) /\ k \in DOMAIN q
  BY DaemonFields
<1> HIDE DEF S, q
<1>2. q[k] \in S
  BY <1>1
<1> QED BY <1>2 DEF S, q

\* The timer was just restarted: it comes in time for the head, and later than now.
Renewed(d) ==
    d.list # <<>> => d.timer \notin {None, Dead} /\ d.timer > d.now /\ InTime(d, d.timer)

\* Everything but the list and its timer.
SameOthers(r, d) ==
    /\ r.ndata = d.ndata /\ r.current = d.current /\ r.life = d.life /\ r.owner = d.owner
    /\ r.reason = d.reason /\ r.nextId = d.nextId /\ r.orphans = d.orphans
    /\ r.held = d.held /\ r.pid = d.pid /\ r.calls = d.calls /\ r.now = d.now

LEMMA RestartExpireIs ==
  ASSUME NEW d \in DaemonState, \A i \in DOMAIN d.list : d.list[i] \in DOMAIN d.ndata,
         NEW r, r = RestartExpire(d)
  PROVE  r \in DaemonState /\ SameOthers(r, d) /\ r.list = d.list /\ Renewed(r)
<1> DEFINE due == d.ndata[Head(d.list)].expires
           t == IF d.list = <<>> THEN None ELSE IF due > d.now THEN due ELSE d.now + 1
<1>1. d.now \in Nat /\ d.list \in Seq(Ids)
  BY DaemonAssumption DEF DaemonState
<1>2. d.list # <<>> => due \in Nat
  <2>1. d.list # <<>> => Head(d.list) = d.list[1] /\ 1 \in DOMAIN d.list
    BY <1>1
  <2>2. \A n \in DOMAIN d.ndata : d.ndata[n].expires \in Nat
    BY NDataFields
  <2> QED BY <2>1, <2>2
<1>3. t \in Nat /\ (d.list # <<>> => t > d.now /\ t # None /\ t # Dead /\ (t <= due \/ t <= d.now + 1))
  BY <1>1, <1>2 DEF None, Dead
<1>4. r = [d EXCEPT !.timer = t]
  BY DEF RestartExpire
<1> HIDE DEF t, due
<1>5. r \in DaemonState /\ SameOthers(r, d) /\ r.list = d.list /\ r.timer = t
  BY <1>3, <1>4 DEF DaemonState, SameOthers
<1> QED BY <1>3, <1>5 DEF Renewed, InTime, SameOthers, due

\* Whoever is running comes in time for a head that was just set.
LEMMA RenewedWatched ==
  ASSUME NEW d, Renewed(d)
  PROVE  Watched(d)
BY DEF Renewed, Watched, Running

\* What became of the list and the timer when the one that owns it was destroyed.
Unlisted(r, d, n) ==
    \/ d.ndata[n].expires = 0 /\ r.list = d.list /\ r.timer = d.timer
    \/ r.list = RemoveFirst(d.list, n) /\ Renewed(r)

\* What became of the sources' lists and the pids.
Left(r, d, id) ==
    LET s == d.ndata[d.owner[id]].sender
    IN  /\ r.held = [d.held EXCEPT ![s] = RemoveFirst(@, id)]
        /\ \A t \in Senders :
              r.pid[t] => d.pid[t] /\ (d.held[t] # <<>> => r.held[t] # <<>>)

\* The destruction of a living notification as a whole.
Destroyed(r, d, id) ==
    /\ r.ndata = d.ndata /\ r.owner = d.owner /\ r.nextId = d.nextId
    /\ r.orphans = d.orphans /\ r.calls = d.calls /\ r.now = d.now
    /\ r.current = [d.current EXCEPT ![id] = 0]
    /\ r.life = [d.life EXCEPT ![id] = "destroyed"]
    /\ Unlisted(r, d, d.owner[id])
    /\ Left(r, d, id)

Reasons == {"closed", "dismissed", "expired"}

LEMMA ListInjective ==
  ASSUME NEW d \in DaemonState, SortedList(d)
  PROVE  IsInjective(d.list)
<1>1. DOMAIN d.list \subseteq Int
  BY DEF DaemonState
<1> QED BY <1>1 DEF SortedList, IsInjective

LEMMA UnlistIs ==
  ASSUME NEW d \in DaemonState, \A i \in DOMAIN d.list : d.list[i] \in DOMAIN d.ndata,
         IsInjective(d.list), NEW n, NEW r, r = Unlist(d, n)
  PROVE  r \in DaemonState /\ SameOthers(r, d) /\ Unlisted(r, d, n)
<1>1. CASE d.ndata[n].expires = 0
  BY <1>1 DEF Unlist, Unlisted, SameOthers
<1>2. CASE d.ndata[n].expires # 0
  <2> DEFINE q == RemoveFirst(d.list, n)
             e == [d EXCEPT !.list = q]
  <2>1. q \in Seq(Ids) /\ ToSet(q) \subseteq ToSet(d.list)
    <3>1. d.list \in Seq(Ids)
      BY DEF DaemonState
    <3> QED BY <3>1, RemoveFirstKeeps
  <2>2. r = RestartExpire(e)
    BY <1>2 DEF Unlist
  <2> HIDE DEF q
  <2>3. e \in DaemonState /\ e.list = q /\ SameOthers(e, d)
    BY <2>1 DEF DaemonState, SameOthers
  <2> HIDE DEF e
  <2>4. \A i \in DOMAIN e.list : e.list[i] \in DOMAIN e.ndata
    BY <2>1, <2>3 DEF SameOthers, ToSet
  <2>5. r \in DaemonState /\ SameOthers(r, e) /\ r.list = e.list /\ Renewed(r)
    BY <2>2, <2>3, <2>4, RestartExpireIs
  <2> QED BY <2>3, <2>5 DEF SameOthers, Unlisted, q
<1> QED BY <1>1, <1>2

LEMMA ClosedIs ==
  ASSUME NEW d \in DaemonState, NEW id \in Ids, NEW why \in Reasons,
         NEW r, r = Closed(d, id, why)
  PROVE  /\ r \in DaemonState
         /\ r.ndata = d.ndata /\ r.owner = d.owner /\ r.nextId = d.nextId
         /\ r.orphans = d.orphans /\ r.calls = d.calls /\ r.now = d.now
         /\ r.list = d.list /\ r.timer = d.timer /\ r.held = d.held /\ r.pid = d.pid
         /\ r.current = [d.current EXCEPT ![id] = 0]
         /\ r.life = [d.life EXCEPT ![id] = "destroyed"]
<1> DEFINE c == [d.current EXCEPT ![id] = 0]
           l == [d.life EXCEPT ![id] = "destroyed"]
           w == [d.reason EXCEPT ![id] = why]
<1>1. /\ c \in [Ids -> 0..MaxCalls] /\ l \in [Ids -> {"none", "live", "destroyed"}]
      /\ w \in [Ids -> {"open", "closed", "dismissed", "expired"}]
  BY DaemonFields, DaemonAssumption DEF Reasons
<1>2. r = [d EXCEPT !.current = c, !.life = l, !.reason = w]
  BY DEF Closed, DaemonState
<1> HIDE DEF c, l, w
<1>3. r \in DaemonState /\ r.current = c /\ r.life = l /\ r.ndata = d.ndata /\ r.owner = d.owner
      /\ r.nextId = d.nextId /\ r.orphans = d.orphans /\ r.calls = d.calls /\ r.now = d.now
      /\ r.list = d.list /\ r.timer = d.timer /\ r.held = d.held /\ r.pid = d.pid
  <2>1. d \in DaemonState
    OBVIOUS
  <2> QED BY ONLY <1>1, <1>2, <2>1 DEF DaemonState
<1> QED BY <1>3 DEF c, l

LEMMA LeaveSourceIs ==
  ASSUME NEW d \in DaemonState, NEW id \in Ids, d.owner[id] \in DOMAIN d.ndata,
         \A s \in Senders : IsInjective(d.held[s]), NEW r, r = LeaveSource(d, id)
  PROVE  /\ r \in DaemonState
         /\ r.ndata = d.ndata /\ r.owner = d.owner /\ r.nextId = d.nextId
         /\ r.orphans = d.orphans /\ r.calls = d.calls /\ r.now = d.now
         /\ r.list = d.list /\ r.timer = d.timer
         /\ r.current = d.current /\ r.life = d.life
         /\ Left(r, d, id)
<1> DEFINE s == d.ndata[d.owner[id]].sender
           rest == RemoveFirst(d.held[s], id)
           h == [d.held EXCEPT ![s] = rest]
           p == [d.pid EXCEPT ![s] = @ /\ (rest # <<>> \/ d.held[s] = <<>>)]
<1>1. s \in Senders
  BY NDataFields
<1>2. d.held \in [Senders -> Seq(Ids)] /\ d.pid \in [Senders -> BOOLEAN]
  BY DaemonFields
<1>3. r = [d EXCEPT !.held = h, !.pid = p]
  BY <1>1, <1>2 DEF LeaveSource, DaemonState
<1> HIDE DEF s
<1>4. rest \in Seq(Ids)
  <2>1. d.held[s] \in Seq(Ids) /\ IsInjective(d.held[s])
    BY <1>1, <1>2
  <2> QED BY <2>1, RemoveFirstKeeps
<1> HIDE DEF rest
<1>5. h \in [Senders -> Seq(Ids)] /\ p \in [Senders -> BOOLEAN]
  BY <1>1, <1>2, <1>4
<1>6. /\ h[s] = rest /\ \A t \in Senders : t # s => h[t] = d.held[t]
      /\ \A t \in Senders : p[t] => d.pid[t]
      /\ p[s] => rest # <<>> \/ d.held[s] = <<>>
  BY <1>1, <1>2
<1> HIDE DEF p
<1>7. /\ r \in DaemonState /\ r.held = h /\ r.pid = p
      /\ r.ndata = d.ndata /\ r.owner = d.owner /\ r.nextId = d.nextId
      /\ r.orphans = d.orphans /\ r.calls = d.calls /\ r.now = d.now
      /\ r.list = d.list /\ r.timer = d.timer
      /\ r.current = d.current /\ r.life = d.life
  <2> HIDE DEF h
  <2> QED BY <1>3, <1>5 DEF DaemonState
<1>8. \A t \in Senders : r.pid[t] => d.pid[t] /\ (d.held[t] # <<>> => r.held[t] # <<>>)
  <2> HIDE DEF h
  <2> QED BY <1>6, <1>7
<1>9. r.held = [d.held EXCEPT ![s] = RemoveFirst(@, id)]
  BY <1>1, <1>2, <1>7 DEF rest
<1> QED BY <1>7, <1>8, <1>9 DEF Left, s

LEMMA DestroyIs ==
  ASSUME NEW d, Tabled(d), \A s \in Senders : IsInjective(d.held[s]), NEW id \in Ids,
         d.life[id] = "live", NEW why \in Reasons, NEW r, r = DestroyNotification(d, id, why)
  PROVE  r \in DaemonState /\ Destroyed(r, d, id)
<1> DEFINE c == Closed(d, id, why)
           n == d.owner[id]
           u == Unlist(c, n)
<1>1. /\ d \in DaemonState /\ n \in DOMAIN d.ndata /\ IsInjective(d.list)
      /\ \A i \in DOMAIN d.list : d.list[i] \in DOMAIN d.ndata
  BY ListInjective DEF Kept, Tabled, Refs, Lives
<1>2. r = LeaveSource(u, id)
  BY DEF DestroyNotification
<1> HIDE DEF n, u, c
<1>3. /\ c \in DaemonState
      /\ c.ndata = d.ndata /\ c.owner = d.owner /\ c.nextId = d.nextId
      /\ c.orphans = d.orphans /\ c.calls = d.calls /\ c.now = d.now
      /\ c.list = d.list /\ c.timer = d.timer /\ c.held = d.held /\ c.pid = d.pid
      /\ c.current = [d.current EXCEPT ![id] = 0]
      /\ c.life = [d.life EXCEPT ![id] = "destroyed"]
  BY <1>1, ClosedIs DEF c
<1>4. u \in DaemonState /\ SameOthers(u, c) /\ Unlisted(u, c, n)
  <2>1. IsInjective(c.list) /\ \A i \in DOMAIN c.list : c.list[i] \in DOMAIN c.ndata
    BY <1>1, <1>3
  <2> QED BY <1>3, <2>1, UnlistIs DEF u
<1>5. u.owner[id] \in DOMAIN u.ndata /\ \A s \in Senders : IsInjective(u.held[s])
  BY <1>1, <1>3, <1>4 DEF SameOthers, n
<1>6. /\ r \in DaemonState
      /\ r.ndata = u.ndata /\ r.owner = u.owner /\ r.nextId = u.nextId
      /\ r.orphans = u.orphans /\ r.calls = u.calls /\ r.now = u.now
      /\ r.list = u.list /\ r.timer = u.timer
      /\ r.current = u.current /\ r.life = u.life
      /\ Left(r, u, id)
  BY <1>2, <1>4, <1>5, LeaveSourceIs
<1>7. Unlisted(r, d, n)
  BY <1>3, <1>4, <1>6 DEF SameOthers, Unlisted, Renewed, InTime
<1>8. Left(r, d, id)
  <2>1. u.ndata = d.ndata /\ u.owner = d.owner /\ u.held = d.held /\ u.pid = d.pid
    BY <1>3, <1>4 DEF SameOthers
  <2>2. Left(r, u, id)
    BY <1>6
  <2> QED BY ONLY <2>1, <2>2 DEF Left
<1>9. /\ r.ndata = d.ndata /\ r.owner = d.owner /\ r.nextId = d.nextId
      /\ r.orphans = d.orphans /\ r.calls = d.calls /\ r.now = d.now
      /\ r.current = [d.current EXCEPT ![id] = 0]
      /\ r.life = [d.life EXCEPT ![id] = "destroyed"]
  BY <1>3, <1>4, <1>6 DEF SameOthers
<1> QED BY <1>6, <1>7, <1>8, <1>9 DEF Destroyed, n

\* Who loses hope does not need the timer.
LEMMA WatchedKept ==
  ASSUME NEW d, NEW r, Watched(d),
         r.ndata = d.ndata, r.list = d.list, r.now = d.now,
         Running(d) \subseteq Running(r),
         \A i \in DOMAIN d.list : Living(r, d.list[i]) \/ Expected(r, d.list[i]) =>
                                  Living(d, d.list[i]) \/ Expected(d, d.list[i]),
         \A i \in DOMAIN d.list : Expected(r, d.list[i]) => Expected(d, d.list[i])
  PROVE  Watched(r)
BY DEF Watched, InTime

LEMMA DestroyedTabled ==
  ASSUME NEW d, Tabled(d), NEW id \in Ids, d.life[id] = "live",
         NEW r \in DaemonState, Destroyed(r, d, id)
  PROVE  /\ Tabled(r)
         /\ r.list # d.list \/ r.timer # d.timer => Renewed(r)
         /\ \A i \in DOMAIN d.list : /\ Living(r, d.list[i]) => Living(d, d.list[i])
                                     /\ Expected(r, d.list[i]) => Expected(d, d.list[i])
<1> DEFINE n == d.owner[id]
<1>1. /\ d \in DaemonState /\ n \in DOMAIN d.ndata /\ d.ndata[n].id = id
      /\ d.list \in Seq(Ids) /\ IsInjective(d.list) /\ DOMAIN d.list \subseteq Nat
  <2>1. d \in DaemonState /\ Refs(d) /\ Lives(d) /\ SortedList(d)
    BY DEF Kept, Tabled
  <2>2. n \in DOMAIN d.ndata /\ d.ndata[n].id = id
    BY <2>1 DEF Refs, Lives
  <2>3. d.list \in Seq(Ids) /\ IsInjective(d.list)
    BY <2>1, DaemonFields, ListInjective
  <2>4. DOMAIN d.list \subseteq Nat
    BY <2>3
  <2> QED BY <2>1, <2>2, <2>3, <2>4
<1>2. /\ r.ndata = d.ndata /\ r.owner = d.owner /\ r.nextId = d.nextId
      /\ r.orphans = d.orphans /\ r.calls = d.calls /\ r.now = d.now
  BY DEF Destroyed
<1>3. /\ r.current[id] = 0 /\ \A x \in Ids : x # id => r.current[x] = d.current[x]
      /\ r.life[id] = "destroyed" /\ \A x \in Ids : x # id => r.life[x] = d.life[x]
  BY <1>1, DaemonFields DEF Destroyed
<1>4. /\ \A i \in DOMAIN r.list : \E k \in DOMAIN d.list : r.list[i] = d.list[k]
      /\ \A k \in DOMAIN d.list : d.list[k] # n => \E i \in DOMAIN r.list : r.list[i] = d.list[k]
      /\ \A i, j \in DOMAIN r.list : i < j =>
            \E k, l \in DOMAIN d.list : k < l /\ r.list[i] = d.list[k] /\ r.list[j] = d.list[l]
  <2>1. CASE r.list = d.list
    BY <2>1
  <2>2. CASE r.list = RemoveFirst(d.list, n)
    <3>1. /\ ToSet(r.list) = ToSet(d.list) \ {n}
          /\ \A i, j \in DOMAIN r.list : i < j =>
                \E k, l \in DOMAIN d.list : k < l /\ r.list[i] = d.list[k] /\ r.list[j] = d.list[l]
      <4> DEFINE q == d.list
                 p == r.list
      <4>1. q \in Seq(Ids) /\ IsInjective(q) /\ p = RemoveFirst(q, n)
        BY <1>1, <2>2
      <4> HIDE DEF n, p, q
      <4>2. /\ ToSet(p) = ToSet(q) \ {n}
            /\ \A i, j \in DOMAIN p : i < j =>
                  \E k, l \in DOMAIN q : k < l /\ p[i] = q[k] /\ p[j] = q[l]
        BY <4>1, RemoveFirstOrder
      <4> QED BY <4>2 DEF p, q
    <3>2. \A i \in DOMAIN r.list : r.list[i] \in ToSet(d.list)
      BY <3>1 DEF ToSet
    <3>3. \A k \in DOMAIN d.list : d.list[k] # n => d.list[k] \in ToSet(r.list)
      BY <3>1 DEF ToSet
    <3> QED BY <3>1, <3>2, <3>3 DEF ToSet
  <2> QED BY <2>1, <2>2 DEF Destroyed, Unlisted
<1>5. Refs(r)
  BY <1>2, <1>3, <1>4 DEF Kept, Tabled, Refs
<1>6. OneSender(r)
  BY <1>2 DEF Kept, Tabled, OneSender
<1>7. Lives(r)
  <2>1. \A m \in DOMAIN d.ndata : d.ndata[m].id \in Ids
    BY <1>1, NDataFields
  <2> QED BY <1>2, <1>3, <2>1 DEF Kept, Tabled, Lives
<1>8. SortedList(r)
  <2> SUFFICES ASSUME NEW i \in DOMAIN r.list, NEW j \in DOMAIN r.list, i < j
               PROVE  r.list[i] # r.list[j]
                      /\ r.ndata[r.list[i]].expires <= r.ndata[r.list[j]].expires
    BY DEF SortedList
  <2>1. PICK k \in DOMAIN d.list, l \in DOMAIN d.list :
           k < l /\ r.list[i] = d.list[k] /\ r.list[j] = d.list[l]
    BY <1>4
  <2> QED BY <1>2, <2>1 DEF Kept, Tabled, SortedList
<1>9. AllListed(r)
  <2> SUFFICES ASSUME NEW x \in Ids, r.current[x] # 0, r.ndata[r.current[x]].expires # 0
               PROVE  \E i \in DOMAIN r.list : r.list[i] = r.current[x]
    BY DEF AllListed
  <2>1. x # id /\ r.current[x] = d.current[x] /\ d.current[x] # 0
    BY <1>3
  <2>2. PICK i \in DOMAIN d.list : d.list[i] = d.current[x]
    BY <1>2, <2>1 DEF Kept, Tabled, AllListed
  <2>3. d.ndata[d.current[x]].id = x
    BY <2>1 DEF Kept, Tabled, Refs, Lives
  <2>4. d.list[i] # n
    BY <1>1, <2>1, <2>2, <2>3
  <2> QED BY <1>4, <2>1, <2>2, <2>4
<1>10. \A i \in DOMAIN d.list : d.list[i] # 0 /\ d.ndata[d.list[i]].id \in Ids
  <2> TAKE i \in DOMAIN d.list
  <2>1. d.list[i] \in Ids
    BY <1>1
  <2>2. d.ndata[d.list[i]].id \in Ids
    BY <1>1, NDataFields DEF Tabled, Refs
  <2> QED BY <2>1, <2>2, DaemonAssumption DEF Ids
<1>11. \A i \in DOMAIN d.list : /\ Living(r, d.list[i]) => Living(d, d.list[i])
                                /\ Expected(r, d.list[i]) => Expected(d, d.list[i])
  BY <1>2, <1>3, <1>10 DEF Living, Expected
<1>12. r.list # d.list \/ r.timer # d.timer => Renewed(r)
  BY DEF Destroyed, Unlisted
<1>13. Tabled(r)
  BY <1>5, <1>6, <1>7, <1>8, <1>9 DEF Tabled
<1> QED BY ONLY <1>11, <1>12, <1>13

LEMMA DestroyedKeeps ==
  ASSUME NEW d, Kept(d), NEW id \in Ids, d.life[id] = "live",
         NEW r \in DaemonState, Destroyed(r, d, id)
  PROVE  Kept(r)
<1>1. Tabled(d) /\ Watched(d)
  BY DEF Kept
<1>2. /\ Tabled(r)
      /\ r.list # d.list \/ r.timer # d.timer => Renewed(r)
      /\ \A i \in DOMAIN d.list : /\ Living(r, d.list[i]) => Living(d, d.list[i])
                                  /\ Expected(r, d.list[i]) => Expected(d, d.list[i])
  BY <1>1, DestroyedTabled
<1>3. CASE r.list = d.list /\ r.timer = d.timer
  <2>1. \A i \in DOMAIN d.list : Living(r, d.list[i]) \/ Expected(r, d.list[i]) =>
                                 Living(d, d.list[i]) \/ Expected(d, d.list[i])
    BY <1>2 DEF Living, Expected
  <2>2. \A i \in DOMAIN d.list : Expected(r, d.list[i]) => Expected(d, d.list[i])
    BY <1>2 DEF Living, Expected
  <2>3. /\ r.ndata = d.ndata /\ r.list = d.list /\ r.now = d.now
        /\ Running(d) \subseteq Running(r)
    BY <1>3 DEF Destroyed, Running
  <2>4. Watched(r)
    BY ONLY <1>1, <2>1, <2>2, <2>3, WatchedKept
  <2> QED BY <1>2, <2>4 DEF Kept
<1>4. CASE Renewed(r)
  BY <1>2, <1>4, RenewedWatched DEF Kept
<1> QED BY <1>2, <1>3, <1>4

LEMMA DestroyedHolding ==
  ASSUME NEW d, Tabled(d), NEW id \in Ids, d.life[id] = "live", NEW gone \in SUBSET {id},
         Holding(d, gone), NEW r \in DaemonState, Destroyed(r, d, id)
  PROVE  Holding(r, {})
<1> DEFINE n == d.owner[id]
           own == d.ndata[n].sender
<1>1. /\ d \in DaemonState /\ n \in DOMAIN d.ndata /\ own \in Senders
      /\ d.held \in [Senders -> Seq(Ids)] /\ r.ndata = d.ndata /\ r.owner = d.owner
  BY DaemonFields, NDataFields DEF Kept, Tabled, Refs, Lives, Destroyed
<1>2. r.life[id] = "destroyed" /\ \A x \in Ids : x # id => r.life[x] = d.life[x]
  BY <1>1, DaemonFields DEF Destroyed
<1>3. r.held = [d.held EXCEPT ![own] = RemoveFirst(@, id)]
  BY DEF Destroyed, Left
<1>4. ASSUME NEW s \in Senders
      PROVE  /\ IsInjective(r.held[s]) /\ Len(r.held[s]) <= MAX_NOTIFICATIONS
             /\ ToSet(r.held[s]) = Shown(r, s)
  <2>1. Shown(r, s) = Shown(d, s) \ {id}
    BY <1>1, <1>2 DEF Shown
  <2>2. /\ d.held[s] \in Seq(Ids) /\ IsInjective(d.held[s])
        /\ Len(d.held[s]) <= MAX_NOTIFICATIONS /\ ToSet(d.held[s]) = Shown(d, s) \ gone
    BY <1>1 DEF Holding
  <2>3. CASE s = own
    <3>1. r.held[s] = RemoveFirst(d.held[s], id)
      BY <1>1, <1>3, <2>3
    <3> HIDE DEF own
    <3> DEFINE q == d.held[s]
               p == r.held[s]
    <3>2. q \in Seq(Ids) /\ IsInjective(q) /\ p = RemoveFirst(q, id)
      BY <2>2, <3>1
    <3>3. IsInjective(p) /\ Len(p) <= Len(q) /\ ToSet(p) = ToSet(q) \ {id} /\ p \in Seq(Ids)
      <4> HIDE DEF p, q
      <4> QED BY <3>2, RemoveFirstOrder
    <3>4. Len(p) \in Nat /\ Len(q) \in Nat /\ MAX_NOTIFICATIONS \in Nat
      BY <3>2, <3>3, DaemonAssumption
    <3>5. Len(p) <= MAX_NOTIFICATIONS
      BY <2>2, <3>3, <3>4
    <3>6. ToSet(p) = Shown(r, s)
      BY <2>1, <2>2, <3>3
    <3> QED BY <3>3, <3>5, <3>6
  <2>4. CASE s # own
    <3>1. r.held[s] = d.held[s]
      BY <1>1, <1>3, <2>4
    <3>2. id \notin Shown(d, s)
      BY <2>4 DEF Shown
    <3> QED BY <2>1, <2>2, <3>1, <3>2
  <2> QED BY <2>3, <2>4
<1> QED BY <1>4 DEF Holding

LEMMA DestroyedPid ==
  ASSUME NEW d, NEW r, NEW id, NEW those, PidBut(d, those), Destroyed(r, d, id)
  PROVE  PidBut(r, those)
BY DEF Destroyed, Left, PidBut

LEMMA DestroyGood ==
  ASSUME NEW d, Good(d), NEW id \in Ids, NEW why \in Reasons
  PROVE  Good(DestroyNotification(d, id, why))
<1> DEFINE r == DestroyNotification(d, id, why)
<1>1. CASE d.life[id] # "live"
  BY <1>1 DEF DestroyNotification
<1>2. CASE d.life[id] = "live"
  <2> HIDE DEF r
  <2>1. /\ Kept(d) /\ Tabled(d) /\ Holding(d, {}) /\ PidBut(d, {})
        /\ \A s \in Senders : IsInjective(d.held[s])
    BY DEF Good, Holding, Kept
  <2>2. r \in DaemonState /\ Destroyed(r, d, id)
    BY <1>2, <2>1, DestroyIs DEF r
  <2>3. Kept(r) /\ Holding(r, {}) /\ PidBut(r, {})
    BY <1>2, <2>1, <2>2, DestroyedKeeps, DestroyedHolding, DestroyedPid
  <2> QED BY <2>3 DEF Good, r
<1> QED BY <1>1, <1>2

LEMMA ReverseIs ==
  ASSUME NEW S, NEW q \in Seq(S)
  PROVE  Reverse(q) \in Seq(S)
<1> DEFINE n == Len(q)
<1>1. n \in Nat /\ DOMAIN q = 1 .. n /\ \A i \in 1 .. n : q[i] \in S /\ (n - i) + 1 \in 1 .. n
  OBVIOUS
<1>2. Reverse(q) = [i \in 1 .. n |-> q[(n - i) + 1]]
  BY DEF Reverse
<1>3. Reverse(q) \in [1 .. n -> S]
  <2> HIDE DEF n
  <2> QED BY <1>1, <1>2
<1> QED BY <1>1, <1>3

GoodStates == {d \in DaemonState : Good(d)}

Chosen(x, id, chosen) == IF id \in chosen THEN DestroyNotification(x, id, "dismissed") ELSE x

\* One after the other, whatever is chosen.
LEMMA DestroyAllGood ==
  ASSUME NEW d, Good(d), NEW ids \in Seq(Ids), NEW chosen
  PROVE  Good(DestroyAll(d, ids, chosen))
<1> DEFINE X == GoodStates
           hs == Reverse(ids)
           n == Len(hs)
           e(x, id) == Chosen(x, id, chosen)
           step == [p \in X \X Ids |-> Chosen(p[1], p[2], chosen)]
           Eq(jt) == jt = [t \in SUBSET (1 .. n) |->
                             IF t = {} THEN d ELSE e(jt[t \ {Max(t)}], hs[Max(t)])]
<1>0. d \in X
  BY DEF GoodStates, Good, Kept, Tabled
<1>1. hs \in Seq(Ids) /\ n \in Nat /\ hs \in [1 .. n -> Ids] /\ DOMAIN hs = 1 .. n
  <2> HIDE DEF hs
  <2>1. hs \in Seq(Ids)
    BY ReverseIs DEF hs
  <2> QED BY <2>1
<1>2. \A x \in X, id \in Ids : Chosen(x, id, chosen) \in X
  <2> SUFFICES ASSUME NEW x \in X, NEW id \in Ids PROVE Chosen(x, id, chosen) \in X
    OBVIOUS
  <2>1. CASE id \notin chosen
    BY <2>1 DEF Chosen
  <2>2. CASE id \in chosen
    <3>1. Good(x)
      BY DEF GoodStates
    <3>2. Good(DestroyNotification(x, id, "dismissed"))
      BY <3>1, DestroyGood DEF Reasons
    <3> QED BY <2>2, <3>2 DEF Chosen, GoodStates, Good, Kept, Tabled
  <2> QED BY <2>1, <2>2
<1>3. step \in [X \X Ids -> X]
  BY <1>2
<1>4. PICK it \in [SUBSET (1 .. n) -> X] : FoldEq(it, step, d, hs, n)
  <2> HIDE DEF step, n, X, hs
  <2> QED BY <1>0, <1>1, <1>3, FoldExists
<1>5. Eq(it)
  <2>1. ASSUME NEW t \in SUBSET (1 .. n), t # {}
        PROVE  step[<<it[t \ {Max(t)}], hs[Max(t)]>>] = Chosen(it[t \ {Max(t)}], hs[Max(t)], chosen)
    <3>1. Max(t) \in 1 .. n
      <4> HIDE DEF n
      <4> QED BY <1>1, <2>1, MaxIsLast
    <3>2. t \ {Max(t)} \in SUBSET (1 .. n)
      OBVIOUS
    <3>3. <<it[t \ {Max(t)}], hs[Max(t)]>> \in X \X Ids
      <4> HIDE DEF X, n, hs
      <4> QED BY <1>1, <1>4, <3>1, <3>2
    <3> QED BY <3>3
  <2> HIDE DEF step, hs
  <2> QED BY <1>4, <2>1 DEF FoldEq
<1> HIDE DEF step
<1>6. DestroyAll(d, ids, chosen) = (CHOOSE jt : Eq(jt))[1 .. n]
  <2> DEFINE f == (CHOOSE jt : Eq(jt))[1 .. n]
  <2>1. FoldLeft(LAMBDA x, id : Chosen(x, id, chosen), d, hs) = f
    BY <1>1 DEF FoldLeft, MapThenFoldSet
  <2>2. DestroyAll(d, ids, chosen) = FoldLeft(LAMBDA x, id : Chosen(x, id, chosen), d, hs)
    BY DEF DestroyAll, Chosen
  <2> QED BY <2>1, <2>2
<1>7. PICK jt : Eq(jt) /\ DestroyAll(d, ids, chosen) = jt[1 .. n]
  BY <1>5, <1>6
<1>8. jt[{}] = d /\ \A k \in 1 .. n : jt[1 .. k] = e(jt[1 .. (k - 1)], hs[k])
  <2>1. {} \in SUBSET (1 .. n)
    OBVIOUS
  <2> HIDE DEF n
  <2>2. \A k \in 1 .. n : /\ 1 .. k \in SUBSET (1 .. n) /\ 1 .. k # {}
                          /\ Max(1 .. k) = k /\ (1 .. k) \ {k} = 1 .. (k - 1)
    BY <1>1, FoldSteps
  <2>3. Eq(jt)
    BY <1>7
  <2> HIDE DEF hs, e
  <2>4. jt[{}] = d
    BY ONLY <2>1, <2>3
  <2>5. ASSUME NEW k \in 1 .. n PROVE jt[1 .. k] = e(jt[1 .. (k - 1)], hs[k])
    <3>1. /\ 1 .. k \in SUBSET (1 .. n) /\ 1 .. k # {}
          /\ Max(1 .. k) = k /\ (1 .. k) \ {k} = 1 .. (k - 1)
      BY <2>2
    <3>2. jt[1 .. k] = e(jt[(1 .. k) \ {Max(1 .. k)}], hs[Max(1 .. k)])
      BY ONLY <2>3, <3>1
    <3> QED BY ONLY <3>1, <3>2
  <2> QED BY <2>4, <2>5
<1> DEFINE S == {k \in 0 .. n : jt[1 .. k] \in X}
<1>9. 1 .. 0 = {} /\ 0 \in 0 .. n /\ n \in 0 .. n /\ \A k \in 1 .. n : k \in 0 .. n
  BY <1>1
<1>10. 0 \in S
  BY <1>0, <1>8, <1>9
<1>11. \A k \in 1 .. n : k - 1 \in S => k \in S
  BY <1>1, <1>2, <1>8, <1>9
<1>12. \A k \in 0 .. n : k \in S
  <2> HIDE DEF S, n
  <2> QED BY <1>1, <1>10, <1>11, StepsInduct
<1>13. jt[1 .. n] \in X
  BY <1>9, <1>12
<1> QED BY <1>7, <1>13 DEF GoodStates

-----------------------------------------------------------------------------
(* Calls and events that destroy                                           *)

\* An entry without a Notification is forgotten.
LEMMA ForgetGood ==
  ASSUME NEW d, Good(d), NEW id \in Ids, d.life[id] # "live",
         NEW r, r = [d EXCEPT !.current[id] = 0]
  PROVE  Good(r)
<1> DEFINE c == [d.current EXCEPT ![id] = 0]
<1>1. d \in DaemonState /\ Kept(d) /\ d.list \in Seq(Ids) /\ d.current \in [Ids -> 0..MaxCalls]
  BY DaemonFields DEF Good, Kept, Tabled
<1>2. c \in [Ids -> 0..MaxCalls]
  BY <1>1, DaemonAssumption
<1>3. c[id] = 0 /\ \A x \in Ids : x # id => c[x] = d.current[x]
  BY <1>1
<1>4. r = [d EXCEPT !.current = c]
  BY <1>1 DEF DaemonState
<1> HIDE DEF c
<1>5. /\ r \in DaemonState /\ r.current = c /\ r.ndata = d.ndata /\ r.owner = d.owner
      /\ r.nextId = d.nextId /\ r.orphans = d.orphans /\ r.calls = d.calls /\ r.now = d.now
      /\ r.list = d.list /\ r.timer = d.timer /\ r.held = d.held /\ r.pid = d.pid
      /\ r.life = d.life
  BY ONLY <1>1, <1>2, <1>4 DEF DaemonState
<1>6. Refs(r) /\ OneSender(r) /\ SortedList(r)
  BY <1>1, <1>3, <1>5 DEF Kept, Tabled, Refs, OneSender, SortedList
<1>7. Lives(r)
  BY <1>1, <1>3, <1>5 DEF Kept, Tabled, Lives
<1>8. AllListed(r)
  BY <1>1, <1>3, <1>5 DEF Kept, Tabled, AllListed
<1>9. Watched(r)
  <2>1. \A i \in DOMAIN d.list : d.ndata[d.list[i]].id \in Ids
    <3>1. Refs(d)
      BY <1>1 DEF Kept, Tabled
    <3>2. \A i \in DOMAIN d.list : d.list[i] \in DOMAIN d.ndata
      BY ONLY <3>1 DEF Refs
    <3> QED BY <1>1, <3>2, NDataFields
  <2>2. \A i \in DOMAIN d.list : d.list[i] # 0
    <3> TAKE i \in DOMAIN d.list
    <3>1. d.list[i] \in Ids
      BY <1>1
    <3> QED BY <3>1, DaemonAssumption DEF Ids
  <2>3. \A i \in DOMAIN d.list : /\ Living(r, d.list[i]) => Living(d, d.list[i])
                                 /\ Expected(r, d.list[i]) => Expected(d, d.list[i])
    BY <1>3, <1>5, <2>1, <2>2 DEF Living, Expected
  <2>4. Running(r) = Running(d)
    BY <1>5 DEF Running
  <2>5. /\ Watched(d) /\ r.ndata = d.ndata /\ r.list = d.list /\ r.now = d.now
        /\ Running(d) \subseteq Running(r)
    BY <1>1, <1>5, <2>4 DEF Kept, Tabled
  <2> QED BY <2>3, <2>5, WatchedKept
<1>10. Holding(r, {}) /\ PidBut(r, {})
  BY <1>5 DEF Good, Holding, PidBut, Shown
<1> QED BY <1>5, <1>6, <1>7, <1>8, <1>9, <1>10 DEF Good, Kept, Tabled

LEMMA CloseGood ==
  ASSUME Good(daemon), NEW id \in Ids, Close(id)
  PROVE  Good(daemon')
<1> DEFINE n == daemon.current[id]
           x == IF daemon.ndata[n].bound THEN DestroyNotification(daemon, id, "closed") ELSE daemon
<1>1. n # 0 /\ daemon' = [x EXCEPT !.current[id] = 0]
  BY DEF Close
<1>2. Good(x)
  BY DestroyGood DEF Reasons
<1>3. x.life[id] # "live"
  <2>1. CASE daemon.life[id] = "live"
    <3>1. daemon.ndata[n].bound
      BY <2>1 DEF Good, Kept, Tabled, Lives
    <3>2. x = DestroyNotification(daemon, id, "closed")
      BY <3>1
    <3>3. Tabled(daemon) /\ \A s \in Senders : IsInjective(daemon.held[s])
      BY DEF Good, Holding, Kept
    <3> HIDE DEF x
    <3>4. Destroyed(x, daemon, id)
      BY <2>1, <3>2, <3>3, DestroyIs DEF Reasons
    <3>5. daemon.life \in [Ids -> {"none", "live", "destroyed"}]
      BY <3>3, DaemonFields DEF Tabled
    <3> QED BY <3>4, <3>5 DEF Destroyed
  <2>2. CASE daemon.life[id] # "live"
    <3>1. ~daemon.ndata[n].bound
      BY <1>1, <2>2 DEF Good, Kept, Tabled, Lives
    <3> QED BY <2>2, <3>1
  <2> QED BY <2>1, <2>2
<1> HIDE DEF x, n
<1> QED BY <1>1, <1>2, <1>3, ForgetGood

LEMMA DismissGood ==
  ASSUME Good(daemon), NEW id \in Ids, Dismiss(id)
  PROVE  Good(daemon')
BY DestroyGood DEF Dismiss, Reasons

LEMMA FocusAppGood ==
  ASSUME Good(daemon), NEW s \in Senders, FocusApp(s)
  PROVE  Good(daemon')
<1>1. daemon.held[s] \in Seq(Ids)
  BY DaemonFields DEF Good, Kept, Tabled
<1>2. PICK chosen : daemon' = DestroyAll(daemon, daemon.held[s], chosen)
  BY DEF FocusApp
<1> QED BY <1>1, <1>2, DestroyAllGood

LEMMA NameVanishesGood ==
  ASSUME Good(daemon), NEW s \in Senders, NameVanishes(s)
  PROVE  Good(daemon')
<1>1. daemon.held[s] \in Seq(Ids)
  BY DaemonFields DEF Good, Kept, Tabled
<1>2. PICK chosen : daemon' = DestroyAll(daemon, daemon.held[s], chosen)
  BY DEF NameVanishes
<1> QED BY <1>1, <1>2, DestroyAllGood

-----------------------------------------------------------------------------
(* A notification is shown                                                 *)

\* Watched, if also n may be shown.
Awaited(d, n) ==
    d.list # <<>> /\ (\A i \in DOMAIN d.list : \/ d.list[i] = n
                                               \/ Living(d, d.list[i])
                                               \/ Expected(d, d.list[i])) =>
        \E t \in Running(d) :
            /\ InTime(d, t)
            /\ (\E i \in DOMAIN d.list : Expected(d, d.list[i])) => t > d.now

\* The Notification of n is made.
Bound(d, n, id) == [d EXCEPT !.ndata[n].bound = TRUE, !.life[id] = "live", !.owner[id] = n]

LEMMA BoundKeeps ==
  ASSUME NEW d, Kept(d), NEW n \in DOMAIN d.ndata, NEW id, id = d.ndata[n].id,
         d.current[id] = n, ~d.ndata[n].bound, Awaited(d, n),
         NEW r, r = Bound(d, n, id)
  PROVE  /\ Kept(r) /\ r.held = d.held /\ r.pid = d.pid
         /\ r.life[id] = "live" /\ r.owner[id] = n /\ d.life[id] # "live"
         /\ \A x \in Ids : x # id => r.life[x] = d.life[x] /\ r.owner[x] = d.owner[x]
         /\ DOMAIN r.ndata = DOMAIN d.ndata
         /\ \A m \in DOMAIN d.ndata : /\ r.ndata[m].sender = d.ndata[m].sender
                                      /\ r.ndata[m].kind = d.ndata[m].kind
                                      /\ r.ndata[m].id = d.ndata[m].id
<1> DEFINE nn == [d.ndata EXCEPT ![n].bound = TRUE]
           ll == [d.life EXCEPT ![id] = "live"]
           oo == [d.owner EXCEPT ![id] = n]
<1>1. /\ d \in DaemonState /\ id \in Ids /\ d.ndata \in Seq(NData) /\ d.list \in Seq(Ids)
      /\ n \in 1 .. Len(d.ndata) /\ Len(d.ndata) \in Nat /\ Len(d.ndata) <= MaxCalls
      /\ DOMAIN d.ndata = 1 .. Len(d.ndata)
  BY DaemonFields, NDataFields DEF Kept, Tabled, Refs
<1>2. /\ nn \in Seq(NData) /\ Len(nn) = Len(d.ndata) /\ DOMAIN nn = DOMAIN d.ndata
      /\ nn[n].bound /\ nn[n].id = id /\ nn[n].sender = d.ndata[n].sender
      /\ nn[n].kind = d.ndata[n].kind /\ nn[n].expires = d.ndata[n].expires
      /\ \A m \in DOMAIN d.ndata : m # n => nn[m] = d.ndata[m]
  <2> DEFINE e == [d.ndata[n] EXCEPT !.bound = TRUE]
  <2>1. /\ e \in NData /\ e.bound /\ e.id = id /\ e.sender = d.ndata[n].sender
        /\ e.kind = d.ndata[n].kind /\ e.expires = d.ndata[n].expires
    BY NDataFields, <1>1 DEF NData
  <2>2. nn = [d.ndata EXCEPT ![n] = e]
    BY <1>1
  <2> DEFINE q == d.ndata
  <2>3. q \in Seq(NData) /\ n \in DOMAIN q /\ nn = [q EXCEPT ![n] = e]
    BY <1>1, <2>2
  <2> HIDE DEF e, nn, q
  <2>4. /\ nn \in Seq(NData) /\ Len(nn) = Len(q) /\ DOMAIN nn = DOMAIN q
        /\ nn[n] = e /\ \A m \in DOMAIN q : m # n => nn[m] = q[m]
    BY <2>1, <2>3
  <2> QED BY <2>1, <2>4 DEF q
<1>3. /\ ll \in [Ids -> {"none", "live", "destroyed"}] /\ ll[id] = "live"
      /\ \A x \in Ids : x # id => ll[x] = d.life[x]
  BY <1>1, DaemonFields
<1>4. /\ oo \in [Ids -> 0..MaxCalls] /\ oo[id] = n
      /\ \A x \in Ids : x # id => oo[x] = d.owner[x]
  <2>1. d.owner \in [Ids -> 0..MaxCalls] /\ n \in 0..MaxCalls
    BY <1>1, DaemonFields, DaemonAssumption
  <2> QED BY <1>1, <2>1
<1>5. r = [d EXCEPT !.ndata = nn, !.life = ll, !.owner = oo]
  BY <1>1 DEF DaemonState, Bound
<1> HIDE DEF nn, ll, oo
<1>6. /\ r \in DaemonState /\ r.ndata = nn /\ r.life = ll /\ r.owner = oo
      /\ r.current = d.current /\ r.nextId = d.nextId /\ r.orphans = d.orphans
      /\ r.calls = d.calls /\ r.now = d.now
      /\ r.list = d.list /\ r.timer = d.timer /\ r.held = d.held /\ r.pid = d.pid
  <2>1. d \in DaemonState
    BY <1>1
  <2>2. /\ nn \in Seq(NData) /\ ll \in [Ids -> {"none", "live", "destroyed"}]
        /\ oo \in [Ids -> 0..MaxCalls]
    BY <1>2, <1>3, <1>4
  <2> QED BY ONLY <1>5, <2>1, <2>2 DEF DaemonState
<1>7. n # 0 /\ d.life[id] = "none"
  <2>1. n # 0
    BY <1>1
  <2>2. d.life[id] \in {"none", "live", "destroyed"}
    BY <1>1, DaemonFields
  <2> QED BY <1>1, <2>1, <2>2 DEF Kept, Tabled, Lives
<1>8. \A m \in DOMAIN d.ndata : /\ nn[m].sender = d.ndata[m].sender
                                /\ nn[m].kind = d.ndata[m].kind
                                /\ nn[m].id = d.ndata[m].id
                                /\ nn[m].expires = d.ndata[m].expires
  <2> TAKE m \in DOMAIN d.ndata
  <2>1. CASE m = n
    BY <1>2, <2>1
  <2>2. CASE m # n
    BY <1>2, <2>2
  <2> QED BY <2>1, <2>2
<1>9. \A x \in Ids : d.current[x] # 0 /\ x # id => d.current[x] # n
  BY DEF Kept, Tabled, Refs
<1>10. Refs(r)
  <2>1. Refs(d)
    BY DEF Kept, Tabled
  <2>2. \A x \in Ids : r.owner[x] # 0 => r.owner[x] \in DOMAIN nn /\ nn[r.owner[x]].id = x
    <3> TAKE x \in Ids
    <3>1. CASE x = id
      BY <1>2, <1>4, <1>6, <3>1
    <3>2. CASE x # id
      <4>1. r.owner[x] = d.owner[x]
        BY <1>4, <1>6, <3>2
      <4>2. d.owner[x] # 0 => d.owner[x] \in DOMAIN d.ndata /\ d.ndata[d.owner[x]].id = x
        BY <2>1 DEF Refs
      <4> QED BY <1>2, <1>8, <4>1, <4>2
    <3> QED BY <3>1, <3>2
  <2>3. DOMAIN nn = DOMAIN d.ndata /\ \A m \in DOMAIN d.ndata : nn[m].id = d.ndata[m].id
    BY <1>2, <1>8
  <2> QED BY ONLY <1>6, <2>1, <2>2, <2>3 DEF Refs
<1>11. OneSender(r)
  BY <1>2, <1>6, <1>8 DEF Kept, Tabled, OneSender
<1>12. Lives(r)
  <2>1. Lives(d) /\ Refs(d)
    BY DEF Kept, Tabled
  <2>2. \A x \in Ids : r.life[x] = "live" <=> r.current[x] # 0 /\ r.ndata[r.current[x]].bound
    <3> TAKE x \in Ids
    <3>1. CASE x = id
      BY <1>2, <1>3, <1>6, <1>7, <3>1
    <3>2. CASE x # id
      <4>1. r.life[x] = d.life[x] /\ r.current[x] = d.current[x]
        BY <1>3, <1>6, <3>2
      <4>2. d.current[x] # 0 => nn[d.current[x]] = d.ndata[d.current[x]]
        BY <1>2, <1>9, <2>1, <3>2 DEF Refs
      <4> QED BY <1>6, <2>1, <4>1, <4>2 DEF Lives
    <3> QED BY <3>1, <3>2
  <2>3. \A x \in Ids : r.life[x] = "live" => r.owner[x] # 0
    <3> TAKE x \in Ids
    <3>1. CASE x = id
      BY <1>3, <1>4, <1>6, <1>7, <3>1
    <3>2. CASE x # id
      <4>1. r.life[x] = d.life[x] /\ r.owner[x] = d.owner[x]
        BY <1>3, <1>4, <1>6, <3>2
      <4> QED BY <2>1, <4>1 DEF Lives
    <3> QED BY <3>1, <3>2
  <2>4. \A x \in Ids : /\ r.life[x] = "destroyed" => r.current[x] = 0
                       /\ r.life[x] # "none" => x < r.nextId
    <3> TAKE x \in Ids
    <3>1. CASE x = id
      BY <1>3, <1>6, <2>1, <3>1 DEF Refs
    <3>2. CASE x # id
      <4>1. /\ r.life[x] = d.life[x] /\ r.current[x] = d.current[x]
            /\ r.nextId = d.nextId
        BY <1>3, <1>6, <3>2
      <4>2. /\ d.life[x] = "destroyed" => d.current[x] = 0
            /\ d.life[x] # "none" => x < d.nextId
        BY ONLY <2>1 DEF Lives
      <4> QED BY ONLY <4>1, <4>2
    <3> QED BY <3>1, <3>2
  <2>5. \A m \in DOMAIN r.ndata : r.ndata[m].bound => r.life[r.ndata[m].id] # "none"
    <3> TAKE m \in DOMAIN r.ndata
    <3>1. m \in DOMAIN d.ndata /\ d.ndata[m].id \in Ids
      BY <1>1, <1>2, <1>6, NDataFields
    <3> QED BY <1>2, <1>3, <1>6, <2>1, <3>1 DEF Lives
  <2> QED BY <2>2, <2>3, <2>4, <2>5 DEF Lives
<1>13. SortedList(r)
  BY <1>6, <1>8 DEF Kept, Tabled, SortedList, Refs
<1>14. AllListed(r)
  BY <1>6, <1>8 DEF Kept, Tabled, AllListed, Refs
<1>15. Watched(r)
  <2>1. \A i \in DOMAIN d.list : d.list[i] \in DOMAIN d.ndata /\ d.ndata[d.list[i]].id \in Ids
    BY <1>1, NDataFields DEF Kept, Tabled, Refs
  <2>2. ASSUME NEW i \in DOMAIN d.list
        PROVE  /\ Living(r, d.list[i]) => d.list[i] = n \/ Living(d, d.list[i])
               /\ Expected(r, d.list[i]) => Expected(d, d.list[i])
    <3>1. CASE d.list[i] = n
      BY <1>2, <1>6, <3>1 DEF Expected
    <3>2. CASE d.list[i] # n
      <4>1. nn[d.list[i]] = d.ndata[d.list[i]]
        BY <1>2, <2>1, <3>2
      <4>2. ASSUME Living(r, d.list[i]) PROVE Living(d, d.list[i])
        <5>1. d.ndata[d.list[i]].bound /\ d.life[d.ndata[d.list[i]].id] # "none"
          BY <1>6, <2>1, <4>1, <4>2 DEF Kept, Tabled, Lives, Living
        <5>2. d.ndata[d.list[i]].id # id
          BY <1>7, <5>1
        <5> QED BY <1>3, <1>6, <2>1, <4>1, <4>2, <5>1, <5>2 DEF Living
      <4>3. ASSUME Expected(r, d.list[i]) PROVE Expected(d, d.list[i])
        BY <1>6, <4>1, <4>3 DEF Expected
      <4> QED BY <4>2, <4>3
    <3> QED BY <3>1, <3>2
  <2>3. Running(r) = Running(d)
    BY <1>6 DEF Running
  <2>4. \A t : d.list # <<>> => (InTime(r, t) <=> InTime(d, t))
    <3>1. d.list # <<>> => Head(d.list) = d.list[1] /\ 1 \in DOMAIN d.list
      BY <1>1
    <3> QED BY <1>6, <1>8, <2>1, <3>1 DEF InTime
  <2>5. r.list = d.list /\ r.now = d.now
    BY <1>6
  <2> QED BY <2>2, <2>3, <2>4, <2>5 DEF Watched, Awaited
<1>16. Kept(r)
  BY <1>6, <1>10, <1>11, <1>12, <1>13, <1>14, <1>15 DEF Kept, Tabled
<1>17. d.life[id] # "live"
  BY <1>7
<1>18. r.held = d.held /\ r.pid = d.pid /\ r.life[id] = "live" /\ r.owner[id] = n
  BY <1>3, <1>4, <1>6
<1>19. \A x \in Ids : x # id => r.life[x] = d.life[x] /\ r.owner[x] = d.owner[x]
  BY <1>3, <1>4, <1>6
<1>20. /\ DOMAIN r.ndata = DOMAIN d.ndata
       /\ \A m \in DOMAIN d.ndata : /\ r.ndata[m].sender = d.ndata[m].sender
                                    /\ r.ndata[m].kind = d.ndata[m].kind
                                    /\ r.ndata[m].id = d.ndata[m].id
  BY <1>2, <1>6, <1>8
<1> QED BY ONLY <1>16, <1>17, <1>18, <1>19, <1>20

\* What the invariant says does not depend on the sources' lists and the pids.
WithHeld(d, h, p) == [d EXCEPT !.held = h, !.pid = p]

LEMMA HeldPidKeep ==
  ASSUME NEW d, Kept(d), NEW h \in [Senders -> Seq(Ids)], NEW p \in [Senders -> BOOLEAN],
         NEW r, r = WithHeld(d, h, p)
  PROVE  /\ Kept(r) /\ r.held = h /\ r.pid = p
         /\ r.ndata = d.ndata /\ r.owner = d.owner /\ r.life = d.life /\ r.current = d.current
         /\ r.list = d.list /\ r.timer = d.timer /\ r.orphans = d.orphans /\ r.calls = d.calls
         /\ r.now = d.now
<1>1. /\ r \in DaemonState /\ r.held = h /\ r.pid = p
      /\ r.ndata = d.ndata /\ r.owner = d.owner /\ r.life = d.life /\ r.current = d.current
      /\ r.list = d.list /\ r.timer = d.timer /\ r.orphans = d.orphans /\ r.calls = d.calls
      /\ r.now = d.now /\ r.nextId = d.nextId
  BY DEF DaemonState, Kept, Tabled, WithHeld
<1>2. Refs(r) /\ OneSender(r) /\ Lives(r) /\ SortedList(r) /\ AllListed(r)
  BY <1>1 DEF Kept, Tabled, Refs, OneSender, Lives, SortedList, AllListed
<1>3. Watched(r)
  <2>1. Watched(d) /\ Running(r) = Running(d)
    BY <1>1 DEF Kept, Tabled, Running
  <2>2. \A i : /\ Living(r, d.list[i]) <=> Living(d, d.list[i])
               /\ Expected(r, d.list[i]) <=> Expected(d, d.list[i])
    BY <1>1 DEF Living, Expected
  <2>3. \A t : InTime(r, t) <=> InTime(d, t)
    BY <1>1 DEF InTime
  <2> QED BY <1>1, <2>1, <2>2, <2>3 DEF Watched
<1> QED BY <1>1, <1>2, <1>3 DEF Kept, Tabled

\* The source takes it, and has to destroy its oldest one if it has too many.
LEMMA JoinSourceGood ==
  ASSUME NEW d, Kept(d), NEW s \in Senders, NEW id \in Shown(d, s),
         Holding(d, {id}), PidBut(d, {s})
  PROVE  Good(JoinSource(d, id, s))
<1> DEFINE q == d.held[s]
           all == Append(q, id)
           full == [d.held EXCEPT ![s] = all]
           short == [d.held EXCEPT ![s] = Tail(all)]
<1>1. /\ id \in Ids /\ d \in DaemonState /\ d.held \in [Senders -> Seq(Ids)]
      /\ d.pid \in [Senders -> BOOLEAN]
  BY DaemonFields DEF Shown, Kept, Tabled
<1>2. /\ q \in Seq(Ids) /\ IsInjective(q) /\ Len(q) <= MAX_NOTIFICATIONS
      /\ ToSet(q) = Shown(d, s) \ {id} /\ Len(q) \in Nat
  BY <1>1 DEF Holding
<1>3. \A t \in Senders : t # s =>
        /\ IsInjective(d.held[t]) /\ Len(d.held[t]) <= MAX_NOTIFICATIONS
        /\ ToSet(d.held[t]) = Shown(d, t)
  <2> TAKE t \in Senders
  <2>1. t # s => id \notin Shown(d, t)
    BY DEF Shown
  <2> QED BY <2>1 DEF Holding
<1>4. /\ all \in Seq(Ids) /\ Len(all) = Len(q) + 1 /\ IsInjective(all)
      /\ ToSet(all) = Shown(d, s) /\ all # <<>>
  <2> HIDE DEF q
  <2>1. /\ all \in Seq(Ids) /\ Len(all) = Len(q) + 1 /\ ToSet(all) = ToSet(q) \cup {id}
        /\ IsInjective(all)
    BY <1>1, <1>2, AppendKeeps
  <2>2. all # <<>>
    BY <1>2
  <2> QED BY <1>2, <2>1, <2>2
<1>5. MAX_NOTIFICATIONS \in Nat \ {0}
  BY DaemonAssumption
<1>6. CASE Len(all) <= MAX_NOTIFICATIONS
  <2> DEFINE r == JoinSource(d, id, s)
  <2>1. r = WithHeld(d, full, d.pid)
    BY <1>1, <1>6 DEF WithHeld, JoinSource, DaemonState
  <2>2. /\ full \in [Senders -> Seq(Ids)] /\ full[s] = all
        /\ \A t \in Senders : t # s => full[t] = d.held[t]
    BY <1>1, <1>4
  <2> HIDE DEF r, full, all, q
  <2>3. /\ Kept(r) /\ r.held = full /\ r.pid = d.pid
        /\ r.ndata = d.ndata /\ r.owner = d.owner /\ r.life = d.life
    <3>1. Kept(d) /\ full \in [Senders -> Seq(Ids)] /\ d.pid \in [Senders -> BOOLEAN]
      BY <1>1, <2>2
    <3> QED BY ONLY <2>1, <3>1, HeldPidKeep
  <2>4. \A t \in Senders : Shown(r, t) = Shown(d, t)
    BY <2>3 DEF Shown
  <2>5. Holding(r, {})
    <3> SUFFICES ASSUME NEW t \in Senders
                 PROVE  /\ IsInjective(r.held[t]) /\ Len(r.held[t]) <= MAX_NOTIFICATIONS
                        /\ ToSet(r.held[t]) = Shown(r, t)
      BY DEF Holding
    <3>1. CASE t = s
      BY <1>4, <1>6, <2>2, <2>3, <2>4, <3>1
    <3>2. CASE t # s
      BY <1>3, <2>2, <2>3, <2>4, <3>2
    <3> QED BY <3>1, <3>2
  <2>6. PidBut(r, {})
    BY <1>4, <2>2, <2>3 DEF PidBut
  <2> QED BY <2>3, <2>5, <2>6 DEF Good, r
<1>7. CASE ~(Len(all) <= MAX_NOTIFICATIONS)
  <2> DEFINE old == Head(all)
             y == [d EXCEPT !.held[s] = Tail(all)]
             r == JoinSource(d, id, s)
  <2>1. r = DestroyNotification(y, old, "dismissed")
    BY <1>7 DEF JoinSource
  <2>2. y = WithHeld(d, short, d.pid)
    BY <1>1 DEF WithHeld, DaemonState
  <2> DEFINE p == Tail(all)
  <2>3. q # <<>> /\ old = q[1] /\ 1 \in DOMAIN q
    <3>1. Len(q) >= 1
      <4> HIDE DEF q, all
      <4> QED BY <1>2, <1>4, <1>5, <1>7
    <3> QED BY <1>1, <1>2, <3>1
  <2>4. old = all[1] /\ 1 \in DOMAIN all
    <3> HIDE DEF all
    <3> QED BY <1>4
  <2>5. old \in Shown(d, s) /\ old # id
    BY <1>2, <2>3 DEF ToSet
  <2>6. p \in Seq(Ids) /\ Len(p) = Len(q) /\ \A i \in 1 .. Len(q) : p[i] = all[i + 1]
    <3> HIDE DEF all, q
    <3> QED BY <1>2, <1>4
  <2>7. DOMAIN all = 1 .. (Len(q) + 1) /\ DOMAIN p = 1 .. Len(q)
    <3> HIDE DEF all, q, p
    <3> QED BY <1>4, <2>6
  <2> HIDE DEF p, all, q, old, y, r
  <2>8. IsInjective(p)
    <3> SUFFICES ASSUME NEW i \in 1 .. Len(q), NEW j \in 1 .. Len(q), p[i] = p[j] PROVE i = j
      BY <2>7 DEF IsInjective
    <3>1. i + 1 \in DOMAIN all /\ j + 1 \in DOMAIN all /\ all[i + 1] = all[j + 1]
      BY <1>2, <2>6, <2>7
    <3>2. i + 1 = j + 1
      BY <1>4, <3>1 DEF IsInjective
    <3> QED BY <1>2, <3>2
  <2>9. ToSet(p) = ToSet(all) \ {old}
    <3>1. \A i \in 1 .. Len(q) : i + 1 \in DOMAIN all /\ i + 1 # 1
      BY <1>2, <2>7
    <3>2. \A i \in DOMAIN all : i # 1 => i - 1 \in 1 .. Len(q) /\ (i - 1) + 1 = i
      BY <1>2, <2>7
    <3>3. \A i \in DOMAIN all : i # 1 => all[i] # old
      BY <1>4, <2>4 DEF IsInjective
    <3>4. ASSUME NEW v \in ToSet(p) PROVE v \in ToSet(all) \ {old}
      BY <2>6, <2>7, <3>1, <3>3 DEF ToSet
    <3>5. ASSUME NEW v \in ToSet(all) \ {old} PROVE v \in ToSet(p)
      <4>1. PICK i \in DOMAIN all : v = all[i]
        BY DEF ToSet
      <4>2. i # 1 /\ i - 1 \in DOMAIN p /\ p[i - 1] = v
        BY <2>4, <2>6, <2>7, <3>2, <4>1
      <4> QED BY <4>2 DEF ToSet
    <3> QED BY <3>4, <3>5
  <2>10. /\ short \in [Senders -> Seq(Ids)] /\ short[s] = p
         /\ \A t \in Senders : t # s => short[t] = d.held[t]
    BY <1>1, <2>6 DEF p
  <2> HIDE DEF short
  <2>11. /\ Kept(y) /\ y.held = short /\ y.pid = d.pid
         /\ y.ndata = d.ndata /\ y.owner = d.owner /\ y.life = d.life
    <3>1. Kept(d) /\ short \in [Senders -> Seq(Ids)] /\ d.pid \in [Senders -> BOOLEAN]
      BY <1>1, <2>10
    <3> QED BY ONLY <2>2, <3>1, HeldPidKeep
  <2>12. \A t \in Senders : Shown(y, t) = Shown(d, t)
    BY <2>11 DEF Shown
  <2>13. Holding(y, {old})
    <3> SUFFICES ASSUME NEW t \in Senders
                 PROVE  /\ IsInjective(y.held[t]) /\ Len(y.held[t]) <= MAX_NOTIFICATIONS
                        /\ ToSet(y.held[t]) = Shown(y, t) \ {old}
      BY DEF Holding
    <3>1. CASE t = s
      BY <1>2, <1>4, <2>6, <2>8, <2>9, <2>10, <2>11, <2>12, <3>1
    <3>2. CASE t # s
      <4>1. old \notin Shown(d, t)
        BY <2>5, <3>2 DEF Shown
      <4> QED BY <1>3, <2>10, <2>11, <2>12, <3>2, <4>1
    <3> QED BY <3>1, <3>2
  <2>14. PidBut(y, {})
    <3>1. p # <<>>
      BY <1>2, <2>3, <2>6
    <3> QED BY <2>10, <2>11, <3>1 DEF PidBut
  <2>15. old \in Ids /\ y.life[old] = "live" /\ \A t \in Senders : IsInjective(y.held[t])
    BY <2>5, <2>11, <2>13 DEF Shown, Holding
  <2>16. Tabled(y) /\ r \in DaemonState /\ Destroyed(r, y, old)
    BY <2>1, <2>11, <2>15, DestroyIs DEF Reasons, Kept
  <2>17. Kept(r) /\ Holding(r, {}) /\ PidBut(r, {})
    BY <2>11, <2>13, <2>14, <2>15, <2>16, DestroyedKeeps, DestroyedHolding, DestroyedPid
  <2> QED BY <2>17 DEF Good, r
<1> QED BY <1>6, <1>7

LEMMA ShowGood ==
  ASSUME NEW d, Kept(d), Holding(d, {}), NEW n \in DOMAIN d.ndata,
         d.current[d.ndata[n].id] = n, ~d.ndata[n].bound, Awaited(d, n),
         PidBut(d, {d.ndata[n].sender}), d.ndata[n].kind = "transient" => PidBut(d, {})
  PROVE  Good(Show(d, n))
<1> DEFINE id == d.ndata[n].id
           s == d.ndata[n].sender
           x == Bound(d, n, id)
<1>1. id \in Ids /\ s \in Senders
  BY NDataFields DEF Kept, Tabled
<1>2. Show(d, n) = IF d.ndata[n].kind = "transient" THEN x ELSE JoinSource(x, id, s)
  BY DEF Show, Bound
<1> HIDE DEF id, s, x
<1>3. /\ Kept(x) /\ x.held = d.held /\ x.pid = d.pid
      /\ x.life[id] = "live" /\ x.owner[id] = n /\ d.life[id] # "live"
      /\ \A z \in Ids : z # id => x.life[z] = d.life[z] /\ x.owner[z] = d.owner[z]
      /\ DOMAIN x.ndata = DOMAIN d.ndata
      /\ \A m \in DOMAIN d.ndata : /\ x.ndata[m].sender = d.ndata[m].sender
                                   /\ x.ndata[m].kind = d.ndata[m].kind
                                   /\ x.ndata[m].id = d.ndata[m].id
  BY BoundKeeps DEF id, x
<1>4. \A z \in Ids : d.life[z] = "live" => d.owner[z] \in DOMAIN d.ndata
  BY DEF Kept, Tabled, Lives, Refs
<1>5. \A t \in Senders : Shown(x, t) \ {id} = Shown(d, t)
  BY <1>3, <1>4 DEF Shown
<1>6. \A t \in Senders : id \in Shown(x, t) <=> t = s /\ d.ndata[n].kind # "transient"
  BY <1>1, <1>3 DEF Shown, s
<1>7. Holding(x, {id})
  BY <1>3, <1>5 DEF Holding
<1>8. CASE d.ndata[n].kind = "transient"
  <2>1. Holding(x, {})
    BY <1>6, <1>7, <1>8 DEF Holding
  <2>2. PidBut(x, {})
    BY <1>3, <1>8 DEF PidBut
  <2> QED BY <1>2, <1>3, <1>8, <2>1, <2>2 DEF Good
<1>9. CASE d.ndata[n].kind # "transient"
  <2>1. PidBut(x, {s})
    BY <1>3 DEF PidBut, s
  <2>2. id \in Shown(x, s)
    BY <1>1, <1>6, <1>9
  <2> QED BY <1>1, <1>2, <1>3, <1>7, <1>9, <2>1, <2>2, JoinSourceGood
<1> QED BY <1>8, <1>9

-----------------------------------------------------------------------------
(* A call of NotifyAsync                                                   *)

LEMMA InsertExpireIs ==
  ASSUME NEW d \in DaemonState, \A i \in DOMAIN d.list : d.list[i] \in DOMAIN d.ndata,
         SortedList(d), NEW n \in DOMAIN d.ndata, n \in Ids, \A i \in DOMAIN d.list : d.list[i] # n,
         NEW r, r = RestartExpire(InsertExpire(d, n))
  PROVE  /\ r \in DaemonState /\ SameOthers(r, d) /\ SortedList(r) /\ Renewed(r)
         /\ \A i \in DOMAIN r.list : r.list[i] = n \/ \E k \in DOMAIN d.list : r.list[i] = d.list[k]
         /\ \A k \in DOMAIN d.list : \E i \in DOMAIN r.list : r.list[i] = d.list[k]
         /\ \E i \in DOMAIN r.list : r.list[i] = n
<1> DEFINE q == d.list
           x(i) == d.ndata[q[i]].expires
           e == d.ndata[n].expires
           before == {i \in DOMAIN q : x(i) < e}
           last == CHOOSE i \in before : \A j \in before : j <= i
           place == IF before = {} THEN 1 ELSE 1 + last
           p == InsertAt(q, place, n)
<1>1. q \in Seq(Ids) /\ DOMAIN q = 1 .. Len(q) /\ Len(q) \in Nat
  BY DaemonFields
<1>2. (\A i \in DOMAIN q : x(i) \in Nat) /\ e \in Nat
  BY NDataFields
<1>3. \A i, j \in DOMAIN q : i < j => x(i) <= x(j) /\ q[i] # q[j]
  BY DEF SortedList
<1> DEFINE c == InsertExpire(d, n)
<1>4. c = [d EXCEPT !.list = p]
  BY DEF InsertExpire, DaemonState
<1> HIDE DEF x, e, c, p
<1>5. /\ place \in 1 .. (Len(q) + 1)
      /\ \A i \in DOMAIN q : i < place => x(i) <= e
      /\ \A i \in DOMAIN q : i >= place => x(i) >= e
  <2>1. CASE before = {}
    <3>1. place = 1
      BY <2>1
    <3>2. \A i \in DOMAIN q : ~(x(i) < e)
      BY <2>1
    <3> HIDE DEF place, before, q
    <3> QED BY <1>1, <1>2, <3>1, <3>2
  <2>2. CASE before # {}
    <3>1. last \in before /\ \A j \in before : j <= last
      <4>1. Max(before) \in before /\ \A j \in before : j <= Max(before)
        <5>1. before \in SUBSET (1 .. Len(q))
          BY <1>1
        <5> HIDE DEF before, q
        <5> QED BY <1>1, <2>2, <5>1, MaxIsLast
      <4> HIDE DEF before
      <4> QED BY <4>1
    <3>2. place = last + 1
      <4> HIDE DEF last, before
      <4>1. place = 1 + last
        BY <2>2 DEF last
      <4>2. last \in 1 .. Len(q)
        BY <1>1, <3>1 DEF before
      <4> QED BY <4>1, <4>2
    <3> HIDE DEF last, place
    <3>3. last \in DOMAIN q /\ x(last) < e /\ \A i \in DOMAIN q : i > last => ~(x(i) < e)
      BY <1>1, <3>1
    <3> HIDE DEF before, q
    <3>4. \A i \in DOMAIN q : i <= last => x(i) <= e
      BY <1>1, <1>2, <1>3, <3>3
    <3> QED BY <1>1, <1>2, <3>2, <3>3, <3>4
  <2> QED BY <2>1, <2>2
<1> HIDE DEF place
<1>6. /\ p \in Seq(Ids) /\ Len(p) = Len(q) + 1 /\ place \in DOMAIN p /\ p[place] = n
      /\ \A i \in DOMAIN p : i < place => i \in DOMAIN q /\ p[i] = q[i]
      /\ \A i \in DOMAIN p : i > place => i - 1 \in DOMAIN q /\ p[i] = q[i - 1]
      /\ \A i \in DOMAIN q : q[i] \in {p[j] : j \in DOMAIN p}
  <2> HIDE DEF q
  <2>1. /\ q \in Seq(Ids) /\ n \in Ids /\ place \in 1 .. (Len(q) + 1)
        /\ p = InsertAt(q, place, n)
    BY <1>1, <1>5 DEF p
  <2> QED BY ONLY <2>1, InsertAtIs
<1>7. \A i \in DOMAIN p : p[i] = n \/ \E k \in DOMAIN q : p[i] = q[k]
  <2> TAKE i \in DOMAIN p
  <2>1. i = place \/ i < place \/ i > place
    BY <1>1, <1>5, <1>6
  <2> QED BY <1>6, <2>1
<1>8. c \in DaemonState /\ SameOthers(c, d) /\ c.list = p
  BY <1>4, <1>6 DEF DaemonState, SameOthers
<1>9. \A i \in DOMAIN c.list : c.list[i] \in DOMAIN c.ndata
  BY <1>7, <1>8 DEF SameOthers
<1>10. r \in DaemonState /\ SameOthers(r, c) /\ r.list = p /\ Renewed(r)
  <2> HIDE DEF q
  <2> QED BY <1>8, <1>9, RestartExpireIs DEF c
<1>11. SameOthers(r, d)
  BY <1>8, <1>10 DEF SameOthers
<1>12. SortedList(r)
  <2> DEFINE y(i) == d.ndata[p[i]].expires
  <2> SUFFICES ASSUME NEW i \in DOMAIN p, NEW j \in DOMAIN p, i < j
               PROVE  p[i] # p[j] /\ y(i) <= y(j)
    BY <1>10, <1>11 DEF SortedList, SameOthers
  <2>1. i \in Nat /\ j \in Nat /\ place \in Nat
    BY <1>1, <1>5, <1>6
  <2>2. /\ \A k \in DOMAIN p : k < place => y(k) = x(k)
        /\ \A k \in DOMAIN p : k > place => y(k) = x(k - 1)
        /\ y(place) = e
    BY <1>6 DEF x, e
  <2>3. \A k \in DOMAIN q : q[k] # n
    OBVIOUS
  <2> HIDE DEF y, q
  <2>4. CASE j < place
    <3>1. i \in DOMAIN q /\ j \in DOMAIN q /\ p[i] = q[i] /\ p[j] = q[j] /\ y(i) = x(i) /\ y(j) = x(j)
      BY <1>6, <2>1, <2>2, <2>4
    <3> QED BY <1>3, <3>1
  <2>5. CASE j = place
    <3>1. i \in DOMAIN q /\ p[i] = q[i] /\ p[j] = n /\ y(i) = x(i) /\ y(j) = e
      BY <1>6, <2>1, <2>2, <2>5
    <3> QED BY <1>5, <2>3, <2>5, <3>1
  <2>6. CASE i < place /\ j > place
    <3>1. i \in DOMAIN q /\ j - 1 \in DOMAIN q /\ p[i] = q[i] /\ p[j] = q[j - 1]
          /\ y(i) = x(i) /\ y(j) = x(j - 1)
      BY <1>6, <2>2, <2>6
    <3>2. i < j - 1
      BY <2>1, <2>6
    <3> QED BY <1>3, <3>1, <3>2
  <2>7. CASE i = place
    <3>1. j - 1 \in DOMAIN q /\ p[i] = n /\ p[j] = q[j - 1] /\ y(i) = e /\ y(j) = x(j - 1)
      BY <1>6, <2>2, <2>7
    <3>2. j - 1 >= place
      BY <2>1, <2>7
    <3> QED BY <1>2, <1>5, <2>3, <3>1, <3>2
  <2>8. CASE i > place
    <3>1. i - 1 \in DOMAIN q /\ j - 1 \in DOMAIN q /\ p[i] = q[i - 1] /\ p[j] = q[j - 1]
          /\ y(i) = x(i - 1) /\ y(j) = x(j - 1)
      BY <1>6, <2>1, <2>2, <2>8
    <3>2. i - 1 < j - 1
      BY <2>1
    <3> QED BY <1>3, <3>1, <3>2
  <2> QED BY <2>1, <2>4, <2>5, <2>6, <2>7, <2>8
<1> QED BY <1>6, <1>7, <1>10, <1>11, <1>12

\* The ndata joins the others.
Made(d, nd, id, next) ==
    [d EXCEPT !.ndata = Append(@, nd), !.current[id] = Len(d.ndata) + 1, !.nextId = next]

WithNData(d, nd, id, next) ==
    LET m == Made(d, nd, id, next)
    IN  IF nd.expires = 0 THEN m ELSE RestartExpire(InsertExpire(m, Len(d.ndata) + 1))

\* It replaces the current one, or has the next id.
Replaces(d, nd, id, next) ==
    /\ d.current[id] # 0 /\ next = d.nextId
    /\ nd.sender = d.ndata[d.current[id]].sender
    /\ nd.bound = d.ndata[d.current[id]].bound

IsNew(d, nd, id, next) == id = d.nextId /\ next = d.nextId + 1 /\ ~nd.bound

LEMMA MadeIs ==
  ASSUME NEW d \in DaemonState, NEW nd \in NData, NEW id \in Ids, NEW next \in 1..(MaxCalls + 1),
         Len(d.ndata) < MaxCalls, NEW r, r = Made(d, nd, id, next), NEW n, n = Len(d.ndata) + 1
  PROVE  /\ r \in DaemonState /\ r.ndata = Append(d.ndata, nd)
         /\ r.current = [d.current EXCEPT ![id] = n] /\ r.nextId = next
         /\ r.life = d.life /\ r.owner = d.owner /\ r.list = d.list /\ r.timer = d.timer
         /\ r.orphans = d.orphans /\ r.held = d.held /\ r.pid = d.pid /\ r.calls = d.calls
         /\ r.now = d.now
<1> DEFINE a == Append(d.ndata, nd)
           c == [d.current EXCEPT ![id] = n]
<1>1. a \in Seq(NData) /\ n \in 0..MaxCalls
  <2>1. d.ndata \in Seq(NData) /\ MaxCalls \in Nat
    BY DaemonFields, DaemonAssumption
  <2> QED BY <2>1
<1>2. c \in [Ids -> 0..MaxCalls]
  BY <1>1, DaemonFields
<1>3. r = [d EXCEPT !.ndata = a, !.current = c, !.nextId = next]
  BY DEF Made, DaemonState
<1> HIDE DEF a, c
<1>4. /\ r \in DaemonState /\ r.ndata = a /\ r.current = c /\ r.nextId = next
      /\ r.life = d.life /\ r.owner = d.owner /\ r.list = d.list /\ r.timer = d.timer
      /\ r.orphans = d.orphans /\ r.held = d.held /\ r.pid = d.pid /\ r.calls = d.calls
      /\ r.now = d.now
  BY <1>1, <1>2, <1>3 DEF DaemonState
<1> QED BY <1>4 DEF a, c

Added(r, d, nd, id, next, n) ==
    /\ r.held = d.held /\ r.pid = d.pid /\ r.calls = d.calls /\ r.now = d.now
    /\ r.life = d.life /\ r.owner = d.owner /\ r.nextId = next
    /\ n \in DOMAIN r.ndata /\ r.ndata[n] = nd /\ r.current[id] = n
    /\ \A m \in DOMAIN r.ndata : m \in DOMAIN d.ndata \/ m = n
    /\ \A m \in DOMAIN d.ndata : r.ndata[m] = d.ndata[m]
    /\ n \notin DOMAIN d.ndata /\ id < next
    /\ Renewed(r) \/ \A i \in DOMAIN r.list : r.list[i] # n

LEMMA AddedKeeps ==
  ASSUME NEW d, Kept(d), Len(d.ndata) < MaxCalls, NEW nd \in NData, NEW id \in Ids, nd.id = id,
         NEW next, Replaces(d, nd, id, next) \/ IsNew(d, nd, id, next),
         NEW r, r = WithNData(d, nd, id, next), NEW n, n = Len(d.ndata) + 1
  PROVE  Kept(r) /\ Added(r, d, nd, id, next, n)
<1> DEFINE q == d.ndata
           m0 == Made(d, nd, id, next)
<1>1. /\ d \in DaemonState /\ q \in Seq(NData) /\ Len(q) \in Nat /\ DOMAIN q = 1 .. Len(q)
      /\ MaxCalls \in Nat /\ d.nextId \in 1..(MaxCalls + 1)
      /\ d.current \in [Ids -> 0..MaxCalls] /\ d.list \in Seq(Ids)
  BY DaemonFields, DaemonAssumption DEF Kept, Tabled
<1>2. next \in 1..(MaxCalls + 1) /\ d.nextId <= next /\ next <= Len(q) + 2 /\ id < next
  <2>1. Refs(d)
    BY DEF Kept, Tabled
  <2>2. CASE Replaces(d, nd, id, next)
    <3>1. d.current[id] \in DOMAIN q /\ q[d.current[id]].id = id
      BY <2>1, <2>2 DEF Refs, Replaces
    <3>2. id < d.nextId
      BY <2>1, <3>1 DEF Refs
    <3> QED BY <1>1, <2>1, <2>2, <3>2 DEF Refs, Replaces
  <2>3. CASE IsNew(d, nd, id, next)
    <3>1. id = d.nextId /\ next = d.nextId + 1 /\ id \in 1..MaxCalls
      BY <2>3 DEF IsNew, Ids
    <3>2. d.nextId <= Len(q) + 1 /\ Len(q) <= MaxCalls
      BY <2>1 DEF Refs
    <3> QED BY ONLY <1>1, <3>1, <3>2
  <2> QED BY <2>2, <2>3
<1>3. /\ m0 \in DaemonState /\ m0.ndata = Append(q, nd)
      /\ m0.current = [d.current EXCEPT ![id] = n] /\ m0.nextId = next
      /\ m0.life = d.life /\ m0.owner = d.owner /\ m0.list = d.list /\ m0.timer = d.timer
      /\ m0.orphans = d.orphans /\ m0.held = d.held /\ m0.pid = d.pid /\ m0.calls = d.calls
      /\ m0.now = d.now
  <2>1. d \in DaemonState /\ next \in 1..(MaxCalls + 1) /\ m0 = Made(d, nd, id, next)
    BY <1>1, <1>2
  <2> HIDE DEF m0
  <2> QED BY <2>1, MadeIs
<1> DEFINE a == Append(q, nd)
<1>4. /\ Len(a) = n /\ DOMAIN a = 1 .. n /\ a[n] = nd /\ n \in 1 .. n /\ n \in Ids
      /\ DOMAIN q = 1 .. (n - 1) /\ n \notin DOMAIN q
      /\ \A m \in DOMAIN q : m \in DOMAIN a /\ a[m] = q[m]
      /\ \A m \in DOMAIN a : m \in DOMAIN q \/ m = n
  <2>1. Len(a) = n /\ a[n] = nd /\ n \in Nat /\ n >= 1 /\ n <= MaxCalls
    BY <1>1
  <2>2. DOMAIN a = 1 .. n /\ \A m \in DOMAIN q : a[m] = q[m]
    BY <1>1
  <2>3. DOMAIN q = 1 .. (n - 1)
    BY <1>1
  <2> HIDE DEF a, q
  <2>4. n \in 1 .. n /\ n \in Ids /\ n \notin DOMAIN q
    BY <2>1, <2>3, <1>1 DEF Ids
  <2>5. \A m \in 1 .. n : m \in 1 .. (n - 1) \/ m = n
    BY <2>1
  <2>6. \A m \in 1 .. (n - 1) : m \in 1 .. n
    BY <2>1
  <2> QED BY <2>1, <2>2, <2>3, <2>4, <2>5, <2>6
<1> DEFINE c == [d.current EXCEPT ![id] = n]
<1>5. c[id] = n /\ \A x \in Ids : x # id => c[x] = d.current[x]
  BY <1>1
<1> HIDE DEF q, a, c, m0
<1>6. \A i \in DOMAIN d.list : d.list[i] \in DOMAIN q
  BY DEF Kept, Tabled, Refs, q
<1>7. \A i \in DOMAIN d.list : d.list[i] # n /\ d.list[i] \in DOMAIN a /\ a[d.list[i]] = q[d.list[i]]
  BY <1>4, <1>6
<1>8. SortedList(m0)
  BY <1>3, <1>7 DEF Kept, Tabled, SortedList, q, a
<1>9. /\ r \in DaemonState /\ SameOthers(r, m0) /\ SortedList(r)
      /\ \A i \in DOMAIN r.list : r.list[i] = n \/ \E k \in DOMAIN d.list : r.list[i] = d.list[k]
      /\ \A k \in DOMAIN d.list : \E i \in DOMAIN r.list : r.list[i] = d.list[k]
      /\ nd.expires # 0 => \E i \in DOMAIN r.list : r.list[i] = n
      /\ \/ Renewed(r)
         \/ r.list = d.list /\ r.timer = d.timer
  <2>1. CASE nd.expires = 0
    <3>1. r = m0
      BY <2>1 DEF WithNData, m0
    <3> QED BY <1>3, <1>8, <2>1, <3>1 DEF SameOthers
  <2>2. CASE nd.expires # 0
    <3>1. r = RestartExpire(InsertExpire(m0, n))
      BY <2>2 DEF WithNData, m0
    <3>2. /\ \A i \in DOMAIN m0.list : m0.list[i] \in DOMAIN m0.ndata
          /\ \A i \in DOMAIN m0.list : m0.list[i] # n
          /\ n \in DOMAIN m0.ndata
      BY <1>3, <1>4, <1>7 DEF a
    <3>3. /\ r \in DaemonState /\ SameOthers(r, m0) /\ SortedList(r) /\ Renewed(r)
          /\ \A i \in DOMAIN r.list : r.list[i] = n \/ \E k \in DOMAIN m0.list : r.list[i] = m0.list[k]
          /\ \A k \in DOMAIN m0.list : \E i \in DOMAIN r.list : r.list[i] = m0.list[k]
          /\ \E i \in DOMAIN r.list : r.list[i] = n
      BY <1>3, <1>4, <1>8, <3>1, <3>2, InsertExpireIs
    <3> QED BY <1>3, <3>3
  <2> QED BY <2>1, <2>2
<1>10. /\ r.ndata = a /\ r.current = c /\ r.nextId = next /\ r.life = d.life /\ r.owner = d.owner
       /\ r.orphans = d.orphans /\ r.held = d.held /\ r.pid = d.pid /\ r.calls = d.calls
       /\ r.now = d.now
  BY <1>3, <1>9 DEF SameOthers, a, c
<1>11. d.current[id] # 0 => d.current[id] \in DOMAIN q /\ q[d.current[id]].id = id
  BY DEF Kept, Tabled, Refs, q
<1>12. Refs(r)
  <2>1. Refs(d)
    BY DEF Kept, Tabled
  <2>2. Len(r.ndata) <= MaxCalls /\ r.nextId <= Len(r.ndata) + 1
    BY <1>1, <1>2, <1>4, <1>10 DEF q
  <2>3. \A m \in DOMAIN q : q[m].id < next
    <3> TAKE m \in DOMAIN q
    <3>1. q[m].id < d.nextId /\ q[m].id \in Ids
      BY <1>1, <2>1, NDataFields DEF Refs, q
    <3> QED BY <1>1, <1>2, <3>1 DEF Ids
  <2>4. \A m \in DOMAIN a : a[m].id < next
    BY <1>2, <1>4, <2>3
  <2>5. \A x \in Ids : c[x] # 0 => c[x] \in DOMAIN a /\ a[c[x]].id = x
    BY <1>4, <1>5, <2>1 DEF Refs, q
  <2>6. \A x \in Ids : d.owner[x] # 0 => d.owner[x] \in DOMAIN a /\ a[d.owner[x]].id = x
    BY <1>4, <2>1 DEF Refs, q
  <2>7. \A i \in DOMAIN r.list : r.list[i] \in DOMAIN a
    BY <1>4, <1>7, <1>9
  <2> QED BY <1>10, <2>2, <2>4, <2>5, <2>6, <2>7 DEF Refs
<1>13. \A m \in DOMAIN q : q[m].id = id => q[m].sender = nd.sender /\ Replaces(d, nd, id, next)
  <2> TAKE m \in DOMAIN q
  <2>1. ASSUME q[m].id = id PROVE q[m].sender = nd.sender /\ Replaces(d, nd, id, next)
    <3>1. id < d.nextId
      BY <2>1 DEF Kept, Tabled, Refs, q
    <3>2. ~IsNew(d, nd, id, next)
      BY <1>1, <3>1 DEF IsNew
    <3>3. Replaces(d, nd, id, next)
      BY <3>2
    <3> QED BY <1>11, <2>1, <3>3 DEF Replaces, Kept, Tabled, OneSender, q
  <2> QED BY <2>1
<1>14. OneSender(r)
  <2>1. OneSender(d)
    BY DEF Kept, Tabled
  <2>2. \A k \in DOMAIN d.calls : d.calls[k].id < next /\ d.calls[k].id < d.nextId
    <3> TAKE k \in DOMAIN d.calls
    <3>1. d.calls[k].id < d.nextId
      BY <2>1 DEF OneSender
    <3>2. d.calls[k].id \in Ids
      BY <1>1, CallFields
    <3> QED BY <1>1, <1>2, <3>1, <3>2 DEF Ids
  <2>3. \A m, l \in DOMAIN a : a[m].id = a[l].id => a[m].sender = a[l].sender
    BY <1>4, <1>13, <2>1 DEF OneSender, q
  <2>4. \A k \in DOMAIN d.calls : d.calls[k].id = id => nd.sender = d.calls[k].sender
    <3> TAKE k \in DOMAIN d.calls
    <3>1. ASSUME d.calls[k].id = id PROVE nd.sender = d.calls[k].sender
      <4>1. Replaces(d, nd, id, next)
        BY <1>1, <2>2, <3>1 DEF IsNew
      <4> QED BY <1>11, <2>1, <3>1, <4>1 DEF Replaces, OneSender, q
    <3> QED BY <3>1
  <2>5. \A k \in DOMAIN d.calls, m \in DOMAIN a :
           a[m].id = d.calls[k].id => a[m].sender = d.calls[k].sender
    BY <1>4, <2>1, <2>4 DEF OneSender, q
  <2> QED BY <1>10, <2>2, <2>3, <2>5 DEF OneSender
<1>15. d.life[id] # "destroyed"
       /\ (d.life[id] = "live" <=> nd.bound)
  <2>1. CASE Replaces(d, nd, id, next)
    BY <2>1 DEF Replaces, Kept, Tabled, Lives
  <2>2. CASE IsNew(d, nd, id, next)
    <3>1. d.life[id] = "none"
      BY <1>1, <2>2 DEF IsNew, Kept, Tabled, Lives
    <3> QED BY <2>2, <3>1 DEF IsNew
  <2> QED BY <2>1, <2>2
<1>16. Lives(r)
  <2>1. Lives(d) /\ Refs(d)
    BY DEF Kept, Tabled
  <2>2. n # 0
    BY <1>4, DaemonAssumption DEF Ids
  <2>3. \A x \in Ids : d.life[x] = "live" <=> c[x] # 0 /\ a[c[x]].bound
    <3> TAKE x \in Ids
    <3>1. CASE x = id
      BY <1>4, <1>5, <1>15, <2>2, <3>1
    <3>2. CASE x # id
      <4>1. c[x] = d.current[x] /\ (d.current[x] # 0 => a[d.current[x]] = q[d.current[x]])
        BY <1>4, <1>5, <2>1, <3>2 DEF Refs, q
      <4> QED BY <2>1, <4>1 DEF Lives, q
    <3> QED BY <3>1, <3>2
  <2>4. \A x \in Ids : /\ d.life[x] = "destroyed" => c[x] = 0
                       /\ d.life[x] # "none" => x < next
    <3> TAKE x \in Ids
    <3>1. d.life[x] # "none" => x < d.nextId
      BY <2>1 DEF Lives
    <3>2. x \in Nat
      BY DEF Ids
    <3>3. d.life[x] # "none" => x < next
      BY ONLY <1>1, <1>2, <3>1, <3>2
    <3>4. d.life[x] = "destroyed" => c[x] = 0
      <4>1. d.life[x] = "destroyed" => x # id /\ d.current[x] = 0
        BY <1>15, <2>1 DEF Lives
      <4> QED BY <1>5, <4>1
    <3> QED BY <3>3, <3>4
  <2>5. \A m \in DOMAIN a : a[m].bound => d.life[a[m].id] # "none"
    <3> TAKE m \in DOMAIN a
    <3>1. CASE m \in DOMAIN q
      BY <1>4, <2>1, <3>1 DEF Lives, q
    <3>2. CASE m = n
      BY <1>4, <1>15, <3>2
    <3> QED BY <1>4, <3>1, <3>2
  <2> QED BY <1>10, <2>1, <2>3, <2>4, <2>5 DEF Lives
<1>17. AllListed(r)
  <2> SUFFICES ASSUME NEW x \in Ids, c[x] # 0, a[c[x]].expires # 0
               PROVE  \E i \in DOMAIN r.list : r.list[i] = c[x]
    BY <1>10 DEF AllListed
  <2>1. CASE x = id
    BY <1>4, <1>5, <1>9, <2>1
  <2>2. CASE x # id
    <3>1. c[x] = d.current[x] /\ d.current[x] \in DOMAIN q
      BY <1>5, <2>2 DEF Kept, Tabled, Refs, q
    <3>2. q[d.current[x]].expires # 0 /\ d.current[x] # 0
      BY <1>4, <3>1
    <3>3. \E k \in DOMAIN d.list : d.list[k] = d.current[x]
      BY <3>2 DEF Kept, Tabled, AllListed, q
    <3> QED BY <1>9, <3>1, <3>3
  <2> QED BY <2>1, <2>2
<1>18. Watched(r)
  <2>1. CASE Renewed(r)
    BY <2>1, RenewedWatched
  <2>2. CASE r.list = d.list /\ r.timer = d.timer
    <3>1. \A i \in DOMAIN d.list : q[d.list[i]].id \in Ids
      BY <1>1, <1>6, NDataFields DEF q
    <3>2. \A i \in DOMAIN d.list : /\ Living(r, d.list[i]) => Living(d, d.list[i])
                                   /\ Expected(r, d.list[i]) => Expected(d, d.list[i])
      <4> TAKE i \in DOMAIN d.list
      <4>1. c[q[d.list[i]].id] = d.list[i] => d.current[q[d.list[i]].id] = d.list[i]
        BY <1>5, <1>7, <3>1
      <4> QED BY <1>7, <1>10, <4>1 DEF Living, Expected, q
    <3>3. Running(r) = Running(d)
      BY <1>10, <2>2 DEF Running
    <3>4. d.list # <<>> => \A t : InTime(r, t) <=> InTime(d, t)
      <4>1. d.list # <<>> => Head(d.list) = d.list[1] /\ 1 \in DOMAIN d.list
        BY <1>1
      <4> QED BY <1>7, <1>10, <2>2, <4>1 DEF InTime, q
    <3>5. Watched(d) /\ r.list = d.list /\ r.now = d.now
      BY <1>10, <2>2 DEF Kept, Tabled
    <3> QED BY <3>2, <3>3, <3>4, <3>5 DEF Watched
  <2> QED BY <1>9, <2>1, <2>2
<1>19. Kept(r)
  BY <1>9, <1>12, <1>14, <1>16, <1>17, <1>18 DEF Kept, Tabled
<1>20. Renewed(r) \/ \A i \in DOMAIN r.list : r.list[i] # n
  BY <1>7, <1>9
<1> QED BY <1>2, <1>4, <1>5, <1>10, <1>19, <1>20 DEF q, Added

\* And its sender's pid is asked for.
LEMMA AskedKeeps ==
  ASSUME NEW d, Kept(d), NEW n \in DOMAIN d.ndata, NEW id \in Ids, NEW s \in Senders,
         d.current[id] = n, id < d.nextId, d.ndata[n].sender = s,
         \A m \in DOMAIN d.ndata : d.ndata[m].id = id => m = n,
         Renewed(d) \/ \A i \in DOMAIN d.list : d.list[i] # n,
         NEW call, call = [sender |-> s, id |-> id],
         NEW r, r = [d EXCEPT !.calls = Append(@, call)]
  PROVE  /\ Kept(r) /\ r.held = d.held /\ r.pid = d.pid /\ r.life = d.life
         /\ r.owner = d.owner /\ r.ndata = d.ndata
<1> DEFINE q == d.calls
           c == Append(q, call)
           S == [sender : Senders, id : Ids]
<1>1. d \in DaemonState /\ q \in Seq(S) /\ call \in S
  BY DaemonFields DEF Kept, Tabled
<1>2. r = [d EXCEPT !.calls = c]
  BY <1>1 DEF DaemonState
<1> HIDE DEF q, c
<1>3. /\ c \in Seq(S) /\ c[Len(q) + 1] = call
      /\ \A k \in DOMAIN q : k \in DOMAIN c /\ c[k] = q[k]
      /\ \A k \in DOMAIN c : k \in DOMAIN q \/ k = Len(q) + 1
  <2> HIDE DEF S
  <2> QED BY <1>1, AppendKeeps DEF c
<1>4. /\ r \in DaemonState /\ r.calls = c /\ r.current = d.current /\ r.ndata = d.ndata
      /\ r.owner = d.owner /\ r.nextId = d.nextId /\ r.orphans = d.orphans /\ r.now = d.now
      /\ r.list = d.list /\ r.timer = d.timer /\ r.held = d.held /\ r.pid = d.pid
      /\ r.life = d.life
  <2> HIDE DEF S
  <2>1. c \in Seq([sender : Senders, id : Ids])
    BY <1>3 DEF S
  <2> QED BY ONLY <1>1, <1>2, <2>1 DEF DaemonState
<1>5. \A k \in DOMAIN c : (k \in DOMAIN q /\ c[k] = q[k]) \/ c[k] = call
  BY <1>3
<1>6. Refs(r) /\ Lives(r) /\ SortedList(r) /\ AllListed(r)
  <2>1. Refs(d) /\ Lives(d) /\ SortedList(d) /\ AllListed(d)
    BY DEF Kept, Tabled
  <2>2. Refs(r) /\ Lives(r)
    BY ONLY <1>4, <2>1 DEF Refs, Lives
  <2>3. SortedList(r) /\ AllListed(r)
    BY ONLY <1>4, <2>1 DEF SortedList, AllListed
  <2> QED BY <2>2, <2>3
<1>7. OneSender(r)
  <2>1. OneSender(d)
    BY DEF Kept, Tabled
  <2>2. \A k \in DOMAIN q : /\ q[k].id < d.nextId
                            /\ \A m \in DOMAIN d.ndata :
                                  d.ndata[m].id = q[k].id => d.ndata[m].sender = q[k].sender
    BY <2>1 DEF OneSender, q
  <2>3. call.id = id /\ call.sender = s
    OBVIOUS
  <2>4. \A k \in DOMAIN c : /\ c[k].id < d.nextId
                            /\ \A m \in DOMAIN d.ndata :
                                  d.ndata[m].id = c[k].id => d.ndata[m].sender = c[k].sender
    BY <1>5, <2>2, <2>3
  <2> QED BY <1>4, <2>1, <2>4 DEF OneSender
<1>8. Watched(r)
  <2>1. CASE Renewed(d)
    <3>1. Renewed(r)
      BY <1>4, <2>1 DEF Renewed, InTime
    <3> QED BY <3>1, RenewedWatched
  <2>2. CASE \A i \in DOMAIN d.list : d.list[i] # n
    <3>1. \A i \in DOMAIN d.list : /\ Living(r, d.list[i]) => Living(d, d.list[i])
                                   /\ Expected(r, d.list[i]) => Expected(d, d.list[i])
      <4> TAKE i \in DOMAIN d.list
      <4>1. d.list[i] # n /\ d.list[i] \in DOMAIN d.ndata
        BY <2>2 DEF Kept, Tabled, Refs
      <4>2. ASSUME Expected(r, d.list[i]) PROVE Expected(d, d.list[i])
        <5>1. PICK k \in DOMAIN c : c[k].id = d.ndata[d.list[i]].id
          BY <1>4, <4>2 DEF Expected
        <5>2. d.ndata[d.list[i]].id # id
          BY <4>1
        <5>3. k \in DOMAIN q /\ q[k].id = d.ndata[d.list[i]].id
          BY <1>5, <5>1, <5>2
        <5> QED BY <1>4, <4>2, <5>3 DEF Expected, q
      <4>3. Living(r, d.list[i]) => Living(d, d.list[i])
        BY <1>4 DEF Living
      <4> QED BY <4>2, <4>3
    <3>2. /\ Watched(d) /\ r.ndata = d.ndata /\ r.list = d.list /\ r.now = d.now
          /\ Running(d) \subseteq Running(r)
      BY <1>4 DEF Kept, Tabled, Running
    <3>3. \A i \in DOMAIN d.list : Living(r, d.list[i]) \/ Expected(r, d.list[i]) =>
                                   Living(d, d.list[i]) \/ Expected(d, d.list[i])
      BY <3>1
    <3> QED BY ONLY <3>1, <3>2, <3>3, WatchedKept
  <2> QED BY <2>1, <2>2
<1> QED BY <1>4, <1>6, <1>7, <1>8 DEF Kept, Tabled

LEMMA NotifyGood ==
  ASSUME Good(daemon), NEW s \in Senders, NEW kind \in Kinds, NEW timeout \in Timeouts,
         NEW replacesId \in {0} \cup 1..(daemon.nextId - 1),
         replacesId # 0 => \E n \in DOMAIN daemon.ndata :
            daemon.ndata[n].id = replacesId /\ daemon.ndata[n].sender = s,
         NotifyAsync(s, replacesId, kind, timeout)
  PROVE  Good(daemon')
<1> DEFINE d        == daemon
           replaces == replacesId # 0 /\ d.current[replacesId] # 0
           id       == IF replaces THEN replacesId ELSE d.nextId
           bound    == replaces /\ d.ndata[d.current[id]].bound
           expires  == IF timeout = 0 \/ kind = "resident" THEN 0 ELSE d.now + timeout
           n        == Len(d.ndata) + 1
           nd       == [id |-> id, sender |-> s, kind |-> kind,
                        expires |-> expires, bound |-> bound]
           next     == IF replaces THEN d.nextId ELSE d.nextId + 1
           listed   == WithNData(d, nd, id, next)
           call     == [sender |-> s, id |-> id]
<1>1. /\ Kept(d) /\ d \in DaemonState /\ Refs(d) /\ Lives(d) /\ OneSender(d)
      /\ Holding(d, {}) /\ PidBut(d, {})
  BY DEF Good, Kept, Tabled
<1>2. /\ d.ndata \in Seq(NData) /\ Len(d.ndata) \in Nat /\ MaxCalls \in Nat
      /\ d.nextId \in 1..(MaxCalls + 1) /\ d.now \in Nat /\ Timeouts \subseteq Nat
      /\ d.current \in [Ids -> 0..MaxCalls]
  BY <1>1, DaemonFields, DaemonAssumption
<1>3. Len(d.ndata) < MaxCalls
  BY DEF NotifyAsync
<1>4. daemon' = IF bound THEN listed
                ELSE IF d.pid[s] THEN Show(listed, n)
                ELSE IF replaces THEN listed
                ELSE [listed EXCEPT !.calls = Append(@, call)]
  <2> DEFINE made == [d EXCEPT !.ndata = Append(@, nd), !.current[id] = n,
                               !.nextId = IF replaces THEN @ ELSE @ + 1]
             l == IF expires = 0 THEN made ELSE RestartExpire(InsertExpire(made, n))
  <2>1. Made(d, nd, id, next) = made
    BY <1>1 DEF Made, DaemonState
  <2>2. nd.expires = expires
    OBVIOUS
  <2>3. listed = l
    <3> HIDE DEF nd, made, expires
    <3> QED BY <2>1, <2>2 DEF WithNData
  <2>4. daemon' = IF bound THEN l
                  ELSE IF d.pid[s] THEN Show(l, n)
                  ELSE IF replaces THEN l
                  ELSE [l EXCEPT !.calls = Append(@, call)]
    BY DEF NotifyAsync
  <2> HIDE DEF listed, l
  <2> QED BY <2>3, <2>4
<1>5. id \in Ids
  <2>1. CASE replaces
    BY <1>2, <2>1 DEF Ids
  <2>2. CASE ~replaces
    BY <1>1, <1>2, <1>3, <2>2 DEF Ids, Refs
  <2> QED BY <2>1, <2>2
<1>6. bound \in BOOLEAN /\ expires \in Nat
  <2>1. CASE replaces
    <3>1. d.current[id] \in DOMAIN d.ndata
      BY <1>1, <1>5, <2>1 DEF Refs
    <3>2. d.ndata[d.current[id]].bound \in BOOLEAN
      BY <1>1, <3>1, NDataFields
    <3> QED BY <1>2, <3>2
  <2>2. CASE ~replaces
    BY <1>2, <2>2
  <2> QED BY <2>1, <2>2
<1> HIDE DEF bound, expires
<1>7. nd \in NData /\ nd.id = id /\ nd.bound = bound /\ nd.sender = s /\ nd.kind = kind
  BY <1>5, <1>6 DEF NData
<1>8. Replaces(d, nd, id, next) \/ IsNew(d, nd, id, next)
  <2>1. CASE replaces
    <3>1. d.current[id] # 0 /\ id = replacesId
      BY <2>1
    <3>2. d.current[id] \in DOMAIN d.ndata /\ d.ndata[d.current[id]].id = id
      BY <1>1, <1>5, <3>1 DEF Refs
    <3>3. d.ndata[d.current[id]].sender = s
      BY <1>1, <2>1, <3>1, <3>2 DEF OneSender
    <3>4. bound = d.ndata[d.current[id]].bound
      <4>1. d.ndata[d.current[id]].bound \in BOOLEAN
        BY <1>1, <3>2, NDataFields
      <4> QED BY <2>1, <4>1 DEF bound
    <3> QED BY <1>7, <2>1, <3>1, <3>3, <3>4 DEF Replaces
  <2>2. CASE ~replaces
    BY <1>7, <2>2 DEF IsNew, bound
  <2> QED BY <2>1, <2>2
<1>9. ~replaces => IsNew(d, nd, id, next)
  BY <1>7 DEF IsNew, bound
<1>10. (bound => replaces) /\ (replaces \/ ~replaces)
  BY DEF bound
<1> HIDE DEF nd, listed, n, next, id, replaces
<1>11. Kept(listed) /\ Added(listed, d, nd, id, next, n)
  <2>1. n = Len(d.ndata) + 1 /\ listed = WithNData(d, nd, id, next)
    BY DEF n, listed
  <2>2. Kept(d) /\ Len(d.ndata) < MaxCalls /\ nd \in NData /\ id \in Ids /\ nd.id = id
    BY <1>1, <1>3, <1>5, <1>7
  <2> QED BY ONLY <1>8, <2>1, <2>2, AddedKeeps
<1>12. Holding(listed, {}) /\ PidBut(listed, {})
  <2>1. \A x \in Ids : d.life[x] = "live" => d.owner[x] \in DOMAIN d.ndata
    BY <1>1 DEF Lives, Refs
  <2>2. \A t \in Senders : Shown(listed, t) = Shown(d, t)
    BY <1>11, <2>1 DEF Shown, Added
  <2> QED BY <1>1, <1>11, <2>2 DEF Holding, PidBut, Added
<1>13. CASE daemon' = listed
  BY <1>11, <1>12, <1>13 DEF Good
<1>14. CASE ~bound /\ daemon' = Show(listed, n)
  <2>1. listed.ndata[n].id = id /\ ~listed.ndata[n].bound /\ listed.current[listed.ndata[n].id] = n
    BY <1>7, <1>11, <1>14 DEF Added
  <2>2. Awaited(listed, n)
    <3>1. CASE Renewed(listed)
      BY <3>1 DEF Renewed, Awaited, Running
    <3>2. CASE \A i \in DOMAIN listed.list : listed.list[i] # n
      BY <1>11, <3>2 DEF Kept, Tabled, Watched, Awaited
    <3> QED BY <1>11, <3>1, <3>2 DEF Added
  <2>3. PidBut(listed, {listed.ndata[n].sender})
    BY <1>12 DEF PidBut
  <2>4. n \in DOMAIN listed.ndata
    BY <1>11 DEF Added
  <2> QED BY <1>11, <1>12, <1>14, <2>1, <2>2, <2>3, <2>4, ShowGood
<1>15. CASE ~bound /\ ~replaces /\ daemon' = [listed EXCEPT !.calls = Append(@, call)]
  <2>1. \A m \in DOMAIN listed.ndata : listed.ndata[m].id = id => m = n
    <3>1. id = d.nextId
      BY <1>9, <1>15 DEF IsNew
    <3>2. \A m \in DOMAIN d.ndata : d.ndata[m].id < d.nextId
      BY <1>1 DEF Refs
    <3>3. \A m \in DOMAIN d.ndata : d.ndata[m].id # id
      BY <1>2, <3>1, <3>2
    <3> QED BY <1>11, <3>3 DEF Added
  <2>2. listed.ndata[n].sender = s /\ id < listed.nextId
    BY <1>7, <1>11 DEF Added
  <2> HIDE DEF call
  <2>3. call = [sender |-> s, id |-> id]
    BY DEF call
  <2>4. /\ Kept(daemon') /\ daemon'.held = listed.held /\ daemon'.pid = listed.pid
        /\ daemon'.life = listed.life /\ daemon'.owner = listed.owner
        /\ daemon'.ndata = listed.ndata
    <3>1. /\ n \in DOMAIN listed.ndata /\ listed.current[id] = n
          /\ Renewed(listed) \/ \A i \in DOMAIN listed.list : listed.list[i] # n
      BY <1>11 DEF Added
    <3> QED BY <1>5, <1>11, <1>15, <2>1, <2>2, <2>3, <3>1, AskedKeeps
  <2>5. Holding(daemon', {}) /\ PidBut(daemon', {})
    BY <1>12, <2>4 DEF Holding, PidBut, Shown
  <2> QED BY <2>4, <2>5 DEF Good
<1> QED BY <1>4, <1>6, <1>10, <1>13, <1>14, <1>15

-----------------------------------------------------------------------------
(* The bus answers                                                         *)

\* The oldest call is answered, and the pids may be others.
Answered(d, p) == [d EXCEPT !.calls = Tail(@), !.pid = p]

LEMMA AnsweredKeeps ==
  ASSUME NEW d, Kept(d), d.calls # <<>>, NEW p \in [Senders -> BOOLEAN],
         NEW r, r = Answered(d, p),
         NEW call, call = Head(d.calls), NEW n, n = d.current[call.id]
  PROVE  /\ Kept(r) /\ r.pid = p /\ r.held = d.held /\ r.life = d.life
         /\ r.owner = d.owner /\ r.ndata = d.ndata /\ r.current = d.current
         /\ call.sender \in Senders /\ call.id \in Ids
         /\ n # 0 => /\ n \in DOMAIN d.ndata /\ d.ndata[n].id = call.id
                     /\ d.ndata[n].sender = call.sender
                     /\ ~d.ndata[n].bound => Awaited(r, n)
<1> DEFINE q == d.calls
           c == Tail(q)
           S == [sender : Senders, id : Ids]
<1>1. d \in DaemonState /\ q \in Seq(S) /\ q # <<>> /\ Refs(d) /\ OneSender(d) /\ Watched(d)
  BY DaemonFields DEF Kept, Tabled
<1>2. r = [d EXCEPT !.calls = c, !.pid = p]
  BY <1>1 DEF DaemonState, Answered
<1>3. /\ c \in Seq(S) /\ 1 \in DOMAIN q /\ call = q[1]
      /\ \A k \in DOMAIN c : k + 1 \in DOMAIN q /\ c[k] = q[k + 1]
  <2> HIDE DEF S, q
  <2> QED BY <1>1 DEF q
<1> HIDE DEF c
<1>4. /\ r \in DaemonState /\ r.calls = c /\ r.pid = p /\ r.current = d.current
      /\ r.ndata = d.ndata /\ r.owner = d.owner /\ r.nextId = d.nextId
      /\ r.orphans = d.orphans /\ r.now = d.now /\ r.list = d.list /\ r.timer = d.timer
      /\ r.held = d.held /\ r.life = d.life
  BY <1>1, <1>2, <1>3 DEF DaemonState
<1>5. call.sender \in Senders /\ call.id \in Ids
  BY <1>1, <1>3, CallFields
<1>6. n # 0 => /\ n \in DOMAIN d.ndata /\ d.ndata[n].id = call.id
               /\ d.ndata[n].sender = call.sender
  <2>1. n # 0 => n \in DOMAIN d.ndata /\ d.ndata[n].id = call.id
    BY <1>1, <1>5 DEF Refs
  <2> QED BY <1>1, <1>3, <2>1 DEF OneSender
<1>7. \A i : /\ Living(r, d.list[i]) => Living(d, d.list[i])
             /\ Expected(r, d.list[i]) => Expected(d, d.list[i])
  <2> TAKE i
  <2>1. Living(r, d.list[i]) => Living(d, d.list[i])
    BY <1>4 DEF Living
  <2>2. ASSUME Expected(r, d.list[i]) PROVE Expected(d, d.list[i])
    <3>1. PICK k \in DOMAIN c : c[k].id = d.ndata[d.list[i]].id
      BY <1>4, <2>2 DEF Expected
    <3>2. k + 1 \in DOMAIN d.calls /\ d.calls[k + 1].id = d.ndata[d.list[i]].id
      BY <1>3, <3>1
    <3>3. ~d.ndata[d.list[i]].bound /\ d.current[d.ndata[d.list[i]].id] = d.list[i]
      BY <1>4, <2>2 DEF Expected
    <3> QED BY ONLY <3>2, <3>3 DEF Expected
  <2> QED BY <2>1, <2>2
<1>8. Running(r) = Running(d) /\ \A t : InTime(r, t) <=> InTime(d, t)
  BY <1>4 DEF Running, InTime
<1>9. Refs(r) /\ Lives(r) /\ SortedList(r) /\ AllListed(r)
  BY <1>4 DEF Kept, Tabled, Refs, Lives, SortedList, AllListed
<1>10. OneSender(r)
  BY <1>1, <1>3, <1>4 DEF OneSender
<1>11. Watched(r)
  <2>1. \A i \in DOMAIN d.list : Living(r, d.list[i]) \/ Expected(r, d.list[i]) =>
                                 Living(d, d.list[i]) \/ Expected(d, d.list[i])
    BY <1>7
  <2>2. \A i \in DOMAIN d.list : Expected(r, d.list[i]) => Expected(d, d.list[i])
    BY <1>7
  <2>3. /\ r.ndata = d.ndata /\ r.list = d.list /\ r.now = d.now
        /\ Running(d) \subseteq Running(r)
    BY <1>4, <1>8
  <2> QED BY ONLY <1>1, <2>1, <2>2, <2>3, WatchedKept
<1>12. ASSUME n # 0, ~d.ndata[n].bound PROVE Awaited(r, n)
  <2>1. Expected(d, n)
    BY <1>3, <1>6, <1>12 DEF Expected
  <2>2. \A i \in DOMAIN d.list : d.list[i] = n => Expected(d, d.list[i])
    BY <2>1
  <2> SUFFICES ASSUME r.list # <<>>,
                      \A i \in DOMAIN r.list : \/ r.list[i] = n
                                               \/ Living(r, r.list[i])
                                               \/ Expected(r, r.list[i])
               PROVE  \E t \in Running(r) :
                         /\ InTime(r, t)
                         /\ (\E i \in DOMAIN r.list : Expected(r, r.list[i])) => t > r.now
    BY DEF Awaited
  <2>3. \A i \in DOMAIN d.list : Living(d, d.list[i]) \/ Expected(d, d.list[i])
    BY <1>4, <1>7, <2>2
  <2>4. d.list # <<>>
    BY <1>4
  <2>5. PICK t \in Running(d) :
           /\ InTime(d, t)
           /\ (\E i \in DOMAIN d.list : Expected(d, d.list[i])) => t > d.now
    BY <1>1, <2>3, <2>4 DEF Watched
  <2>6. (\E i \in DOMAIN r.list : Expected(r, r.list[i])) => t > r.now
    BY <1>4, <1>7, <2>5
  <2> QED BY <1>8, <2>5, <2>6
<1>13. Kept(r)
  BY <1>4, <1>9, <1>10, <1>11 DEF Kept, Tabled
<1> QED BY <1>4, <1>5, <1>6, <1>12, <1>13

LEMMA PidFailsGood ==
  ASSUME Good(daemon), PidFails
  PROVE  Good(daemon')
<1> DEFINE r == daemon'
<1>1. Kept(daemon) /\ daemon.calls # <<>> /\ daemon.pid \in [Senders -> BOOLEAN]
  BY DaemonFields DEF Good, Kept, Tabled, PidFails
<1>2. r = Answered(daemon, daemon.pid)
  BY <1>1 DEF PidFails, Answered, Kept, Tabled, DaemonState
<1> HIDE DEF r
<1>3. /\ Kept(r) /\ r.pid = daemon.pid /\ r.held = daemon.held /\ r.life = daemon.life
      /\ r.owner = daemon.owner /\ r.ndata = daemon.ndata
  BY <1>1, <1>2, AnsweredKeeps
<1>4. Holding(r, {}) /\ PidBut(r, {})
  BY <1>3 DEF Good, Holding, PidBut, Shown
<1> QED BY <1>3, <1>4 DEF Good, r

LEMMA PidAnsweredGood ==
  ASSUME Good(daemon), PidAnswered
  PROVE  Good(daemon')
<1> DEFINE d    == daemon
           d0   == [d EXCEPT !.calls = Tail(@)]
           call == Head(d.calls)
           n    == d.current[call.id]
           persistent == IF d.ndata[n].bound
                         THEN d.ndata[d.owner[call.id]].kind # "transient"
                         ELSE d.ndata[n].kind # "transient"
           v    == d.pid[call.sender] \/ persistent
           p    == [d.pid EXCEPT ![call.sender] = v]
           r    == Answered(d, p)
<1>1. /\ Kept(d) /\ d \in DaemonState /\ d.calls # <<>> /\ d.pid \in [Senders -> BOOLEAN]
      /\ Holding(d, {}) /\ PidBut(d, {})
  BY DaemonFields DEF Good, Kept, Tabled, PidAnswered
<1>2. /\ n = 0 => daemon' = Answered(d, d.pid)
      /\ n # 0 /\ d.ndata[n].bound => daemon' = r
      /\ n # 0 /\ ~d.ndata[n].bound => daemon' = Show(r, n)
  <2>1. d0 = Answered(d, d.pid)
    BY <1>1 DEF Answered, DaemonState
  <2>2. /\ d0.current = d.current /\ d0.ndata = d.ndata /\ d0.owner = d.owner
        /\ d0.pid = d.pid
    BY <1>1 DEF DaemonState
  <2>3. [d0 EXCEPT !.pid[call.sender] = @ \/ persistent] = r
    <3> HIDE DEF persistent
    <3>1. [d0 EXCEPT !.pid[call.sender] = @ \/ persistent]
            = [d0 EXCEPT !.pid = [d0.pid EXCEPT ![call.sender] = d0.pid[call.sender] \/ persistent]]
      BY <1>1 DEF DaemonState
    <3>2. d0.pid = d.pid
      BY <2>2
    <3>3. r = [d0 EXCEPT !.pid = p]
      BY <1>1 DEF Answered, DaemonState
    <3> QED BY <3>1, <3>2, <3>3
  <2> DEFINE n0   == d0.current[call.id]
             per0 == IF d0.ndata[n0].bound
                     THEN d0.ndata[d0.owner[call.id]].kind # "transient"
                     ELSE d0.ndata[n0].kind # "transient"
             r0   == [d0 EXCEPT !.pid[call.sender] = @ \/ per0]
  <2>4. daemon' = IF n0 = 0 THEN d0 ELSE IF d0.ndata[n0].bound THEN r0 ELSE Show(r0, n0)
    BY DEF PidAnswered
  <2>5. n0 = n
    BY <2>2
  <2>6. per0 = persistent
    <3> HIDE DEF d0, n0, n
    <3> QED BY <2>2, <2>5
  <2>7. r0 = r
    <3> HIDE DEF per0, persistent
    <3> QED BY <2>3, <2>6
  <2> HIDE DEF r, r0, d0, n0, n
  <2> QED BY <2>1, <2>2, <2>4, <2>5, <2>7
<1>3. p \in [Senders -> BOOLEAN]
  BY <1>1
<1>4. \A t \in Senders : t # call.sender => p[t] = d.pid[t]
  BY <1>1
<1>5. p[call.sender] /\ ~persistent => d.pid[call.sender]
  <2>1. call.sender \in Senders
    BY <1>1, AnsweredKeeps
  <2> HIDE DEF call
  <2>2. p[call.sender] = v
    <3> HIDE DEF v
    <3> QED BY <1>1, <2>1
  <2> QED BY <2>2
<1> HIDE DEF call, n, p, r, v, persistent
<1>6. CASE n = 0
  <2> DEFINE x == daemon'
  <2>1. x = Answered(d, d.pid)
    BY <1>2, <1>6
  <2> HIDE DEF x
  <2>2. /\ Kept(x) /\ x.pid = d.pid /\ x.held = d.held /\ x.life = d.life
        /\ x.owner = d.owner /\ x.ndata = d.ndata
    BY <1>1, <2>1, AnsweredKeeps
  <2>3. Holding(x, {}) /\ PidBut(x, {})
    BY <1>1, <2>2 DEF Holding, PidBut, Shown
  <2> QED BY <2>2, <2>3 DEF Good, x
<1>7. CASE n # 0
  <2>1. /\ Kept(r) /\ r.pid = p /\ r.held = d.held /\ r.life = d.life
        /\ r.owner = d.owner /\ r.ndata = d.ndata /\ r.current = d.current
        /\ call.sender \in Senders /\ call.id \in Ids
        /\ n \in DOMAIN d.ndata /\ d.ndata[n].id = call.id /\ d.ndata[n].sender = call.sender
        /\ ~d.ndata[n].bound => Awaited(r, n)
    <3>1. /\ Kept(d) /\ d.calls # <<>> /\ p \in [Senders -> BOOLEAN]
          /\ r = Answered(d, p) /\ call = Head(d.calls) /\ n = d.current[call.id]
      BY <1>1, <1>3 DEF r, call, n
    <3> QED BY ONLY <1>7, <3>1, AnsweredKeeps
  <2>2. Holding(r, {})
    BY <1>1, <2>1 DEF Holding, Shown
  <2>3. PidBut(r, {call.sender})
    BY <1>1, <1>4, <2>1 DEF PidBut
  <2>4. ~persistent => PidBut(r, {})
    <3>1. ~persistent => \A t \in Senders : p[t] => d.pid[t]
      BY <1>4, <1>5
    <3> QED BY <1>1, <2>1, <3>1 DEF PidBut
  <2>5. CASE d.ndata[n].bound
    <3>1. ASSUME persistent PROVE PidBut(r, {})
      <4>1. d.life[call.id] = "live" /\ d.owner[call.id] # 0
        BY <1>1, <1>7, <2>1, <2>5 DEF Kept, Tabled, Lives, n
      <4>2. /\ d.owner[call.id] \in DOMAIN d.ndata
            /\ d.ndata[d.owner[call.id]].id = call.id
        BY <1>1, <2>1, <4>1 DEF Kept, Tabled, Refs
      <4>3. d.ndata[d.owner[call.id]].sender = call.sender
        BY <1>1, <2>1, <4>2 DEF Kept, Tabled, OneSender
      <4>4. d.ndata[d.owner[call.id]].kind # "transient"
        BY <2>5, <3>1 DEF persistent
      <4>5. call.id \in ToSet(d.held[call.sender])
        BY <1>1, <2>1, <4>1, <4>3, <4>4 DEF Holding, Shown
      <4>6. d.held[call.sender] # <<>>
        BY <4>5 DEF ToSet
      <4> QED BY <2>1, <2>3, <4>6 DEF PidBut
    <3> QED BY <1>2, <1>7, <2>1, <2>2, <2>4, <2>5, <3>1 DEF Good
  <2>6. CASE ~d.ndata[n].bound
    <3>1. d.ndata[n].kind = "transient" => ~persistent
      BY <2>6 DEF persistent
    <3>2. /\ n \in DOMAIN r.ndata /\ r.current[r.ndata[n].id] = n /\ ~r.ndata[n].bound
          /\ Awaited(r, n) /\ r.ndata[n].sender = call.sender
          /\ r.ndata[n].kind = "transient" => PidBut(r, {})
      BY <2>1, <2>4, <2>6, <3>1 DEF n
    <3>3. Good(Show(r, n))
      BY <2>1, <2>2, <2>3, <3>2, ShowGood
    <3> QED BY <1>2, <1>7, <2>6, <3>3
  <2> QED BY <2>5, <2>6
<1> QED BY <1>6, <1>7

-----------------------------------------------------------------------------
(* Expiration                                                              *)

\* What the expiry forgets of the timer is still running.
Forgotten(d) == [d EXCEPT !.timer = None, !.orphans = @ \cup ({d.timer} \ {None, Dead})]

LEMMA ForgottenGood ==
  ASSUME NEW d, Good(d), NEW r, r = Forgotten(d)
  PROVE  Good(r)
<1> DEFINE o == d.orphans \cup ({d.timer} \ {None, Dead})
<1>1. d \in DaemonState /\ Kept(d) /\ Tabled(d) /\ Watched(d)
  BY DEF Good, Kept, Tabled
<1>2. o \in SUBSET Nat /\ None \in Nat
  BY <1>1, DaemonFields DEF None
<1>3. r = [d EXCEPT !.timer = None, !.orphans = o]
  BY <1>1 DEF DaemonState, Forgotten
<1> HIDE DEF o
<1>4. /\ r \in DaemonState /\ r.timer = None /\ r.orphans = o /\ r.current = d.current
      /\ r.ndata = d.ndata /\ r.owner = d.owner /\ r.nextId = d.nextId
      /\ r.now = d.now /\ r.list = d.list /\ r.calls = d.calls
      /\ r.held = d.held /\ r.pid = d.pid /\ r.life = d.life
  BY <1>1, <1>2, <1>3 DEF DaemonState
<1>5. Tabled(r)
  BY <1>1, <1>4 DEF Tabled, Refs, OneSender, Lives, SortedList, AllListed
<1>6. \A i \in DOMAIN d.list : /\ Living(r, d.list[i]) => Living(d, d.list[i])
                               /\ Expected(r, d.list[i]) => Expected(d, d.list[i])
  BY <1>4 DEF Living, Expected
<1>7. Watched(r)
  <2>1. \A i \in DOMAIN d.list : Living(r, d.list[i]) \/ Expected(r, d.list[i]) =>
                                 Living(d, d.list[i]) \/ Expected(d, d.list[i])
    BY <1>6
  <2>2. \A i \in DOMAIN d.list : Expected(r, d.list[i]) => Expected(d, d.list[i])
    BY <1>6
  <2>3. /\ r.ndata = d.ndata /\ r.list = d.list /\ r.now = d.now
        /\ Running(d) \subseteq Running(r)
    BY <1>4 DEF Running, o
  <2> QED BY ONLY <1>1, <2>1, <2>2, <2>3, WatchedKept
<1>8. Holding(r, {}) /\ PidBut(r, {})
  BY <1>4 DEF Good, Holding, PidBut, Shown
<1> QED BY <1>5, <1>7, <1>8 DEF Good, Kept

\* The head is destroyed, or was not to be seen; that a timer just fired only matters
\* for a head that waits for a pid, and it is not its timer that did.
LEMMA ExpireHeadGood ==
  ASSUME NEW d, Tabled(d), Holding(d, {}), PidBut(d, {}),
         d.list # <<>> /\ Expected(d, Head(d.list)) => Watched(d)
  PROVE  Good(ExpireHead(d))
<1> DEFINE head == Head(d.list)
           id == d.ndata[head].id
           gone == DestroyNotification(d, id, "expired")
<1>1. ExpireHead(d) = IF d.list = <<>> THEN Forgotten(d)
                      ELSE IF ~d.ndata[head].bound THEN d ELSE Forgotten(gone)
  BY DEF ExpireHead, Forgotten
<1>2. d.list # <<>> => 1 \in DOMAIN d.list /\ head = d.list[1]
  <2>1. d.list \in Seq(Ids)
    BY DaemonFields DEF Tabled
  <2> QED BY <2>1
<1>3. d.list # <<>> => head \in DOMAIN d.ndata /\ id \in Ids
  BY <1>2, NDataFields DEF Tabled, Refs
<1> HIDE DEF head, id, gone
<1>4. ASSUME d.list # <<>> => ~Living(d, head)
      PROVE  Good(d)
  <2>1. CASE d.list # <<>> /\ \A i \in DOMAIN d.list : Living(d, d.list[i]) \/ Expected(d, d.list[i])
    <3>1. Expected(d, head)
      BY <1>2, <1>4, <2>1
    <3> QED BY <2>1, <3>1 DEF Good, Kept, head
  <2>2. CASE ~(d.list # <<>> /\ \A i \in DOMAIN d.list : Living(d, d.list[i]) \/ Expected(d, d.list[i]))
    <3>1. Watched(d)
      BY <2>2 DEF Watched
    <3> QED BY <3>1 DEF Good, Kept
  <2> QED BY <2>1, <2>2
<1>5. CASE d.list = <<>>
  BY <1>1, <1>4, <1>5, ForgottenGood
<1>6. CASE d.list # <<>> /\ ~d.ndata[head].bound
  <2>1. ~Living(d, head)
    BY <1>6 DEF Living
  <2> QED BY <1>1, <1>4, <1>6, <2>1
<1>7. CASE d.list # <<>> /\ d.ndata[head].bound /\ d.life[id] # "live"
  <2>1. ~Living(d, head)
    BY <1>7 DEF Living, id
  <2>2. gone = d
    BY <1>7 DEF gone, DestroyNotification
  <2>3. Good(gone)
    BY <1>4, <2>1, <2>2
  <2> QED BY <1>1, <1>7, <2>3, ForgottenGood
<1>8. CASE d.list # <<>> /\ d.ndata[head].bound /\ d.life[id] = "live"
  <2>1. id \in Ids /\ \A s \in Senders : IsInjective(d.held[s])
    BY <1>3, <1>8 DEF Holding
  <2>2. gone \in DaemonState /\ Destroyed(gone, d, id)
    BY <1>8, <2>1, DestroyIs DEF Reasons, gone
  <2>3. Tabled(gone) /\ (gone.list # d.list \/ gone.timer # d.timer => Renewed(gone))
    BY <1>8, <2>1, <2>2, DestroyedTabled
  <2>4. Holding(gone, {}) /\ PidBut(gone, {})
    BY <1>8, <2>1, <2>2, DestroyedHolding, DestroyedPid
  <2>5. Watched(gone)
    <3>1. CASE Renewed(gone)
      BY <3>1, RenewedWatched
    <3>2. CASE gone.list = d.list
      <4>1. gone.life[id] = "destroyed" /\ gone.ndata = d.ndata
        <5>1. d.life \in [Ids -> {"none", "live", "destroyed"}]
          BY DaemonFields DEF Tabled
        <5> QED BY <2>1, <2>2, <5>1 DEF Destroyed
      <4>2. ~Living(gone, head) /\ ~Expected(gone, head)
        BY <1>8, <4>1 DEF Living, Expected, id
      <4>3. 1 \in DOMAIN gone.list /\ gone.list[1] = head
        BY <1>2, <1>8, <3>2
      <4> QED BY <4>2, <4>3 DEF Watched
    <3> QED BY <2>3, <3>1, <3>2
  <2>6. Good(gone)
    BY <2>3, <2>4, <2>5 DEF Good, Kept
  <2> QED BY <1>1, <1>8, <2>6, ForgottenGood
<1> QED BY <1>5, <1>6, <1>7, <1>8

\* The timer, or an orphan, that fires is due.
Fired(d, timer, orphans) == [d EXCEPT !.timer = timer, !.orphans = orphans]

LEMMA FiredGood ==
  ASSUME NEW d, Good(d), NEW timer \in Nat \cup {Dead}, NEW orphans \in SUBSET Nat,
         NEW e, e = Fired(d, timer, orphans),
         \A t \in Running(d) : t > d.now => t \in orphans \cup ({timer} \ {None, Dead})
  PROVE  Good(ExpireHead(e))
<1>1. d \in DaemonState /\ Kept(d) /\ Tabled(d) /\ Watched(d)
  BY DEF Good, Kept, Tabled
<1>2. /\ e \in DaemonState /\ e.timer = timer /\ e.orphans = orphans /\ e.current = d.current
      /\ e.ndata = d.ndata /\ e.owner = d.owner /\ e.nextId = d.nextId
      /\ e.now = d.now /\ e.list = d.list /\ e.calls = d.calls
      /\ e.held = d.held /\ e.pid = d.pid /\ e.life = d.life
  BY <1>1 DEF DaemonState, Fired
<1>3. Tabled(e)
  <2>1. Refs(d) /\ OneSender(d) /\ Lives(d) /\ SortedList(d) /\ AllListed(d)
    BY ONLY <1>1 DEF Tabled
  <2>2. Refs(e) /\ OneSender(e)
    BY ONLY <1>2, <2>1 DEF Refs, OneSender
  <2>3. Lives(e)
    BY ONLY <1>2, <2>1 DEF Lives
  <2>4. SortedList(e) /\ AllListed(e)
    BY ONLY <1>2, <2>1 DEF SortedList, AllListed
  <2> QED BY ONLY <1>2, <2>2, <2>3, <2>4 DEF Tabled
<1>4. Holding(e, {}) /\ PidBut(e, {})
  BY <1>2 DEF Good, Holding, PidBut, Shown
<1>5. \A i : /\ Living(e, d.list[i]) => Living(d, d.list[i])
             /\ Expected(e, d.list[i]) <=> Expected(d, d.list[i])
  BY <1>2 DEF Living, Expected
<1>6. ASSUME e.list # <<>>, Expected(e, Head(e.list)) PROVE Watched(e)
  <2>1. 1 \in DOMAIN d.list /\ Head(e.list) = d.list[1]
    <3>1. d.list \in Seq(Ids)
      BY <1>1, DaemonFields
    <3> QED BY <1>2, <1>6, <3>1
  <2>2. \E i \in DOMAIN d.list : Expected(d, d.list[i])
    BY <1>5, <1>6, <2>1
  <2> SUFFICES ASSUME \A i \in DOMAIN e.list : Living(e, e.list[i]) \/ Expected(e, e.list[i])
               PROVE  \E t \in Running(e) :
                         /\ InTime(e, t)
                         /\ (\E i \in DOMAIN e.list : Expected(e, e.list[i])) => t > e.now
    BY DEF Watched
  <2>3. \A i \in DOMAIN d.list : Living(d, d.list[i]) \/ Expected(d, d.list[i])
    BY <1>2, <1>5
  <2>4. PICK t \in Running(d) : InTime(d, t) /\ t > d.now
    BY <1>1, <1>2, <1>6, <2>2, <2>3 DEF Watched
  <2>5. t \in Running(e)
    BY <1>2, <2>4 DEF Running
  <2>6. InTime(e, t) /\ t > e.now
    BY <1>2, <2>4 DEF InTime
  <2> QED BY <2>5, <2>6
<1> QED BY <1>3, <1>4, <1>6, ExpireHeadGood

LEMMA ExpireTimerFiresGood ==
  ASSUME Good(daemon), ExpireTimerFires
  PROVE  Good(daemon')
<1> DEFINE e == [daemon EXCEPT !.timer = Dead]
<1>1. /\ daemon.timer <= daemon.now /\ daemon' = ExpireHead(e)
      /\ daemon \in DaemonState /\ daemon.now \in Nat
      /\ daemon.orphans \in SUBSET Nat /\ daemon.timer \in Nat \cup {Dead}
  BY DaemonFields, DaemonAssumption DEF ExpireTimerFires, Good, Kept, Tabled
<1>2. e = Fired(daemon, Dead, daemon.orphans)
  BY <1>1 DEF Fired, DaemonState
<1> HIDE DEF e
<1>3. \A t \in Running(daemon) : t > daemon.now => t \in daemon.orphans
  BY <1>1 DEF Running, Dead
<1> QED BY <1>1, <1>2, <1>3, FiredGood

LEMMA OrphanFiresGood ==
  ASSUME Good(daemon), NEW t \in daemon.orphans, OrphanFires(t)
  PROVE  Good(daemon')
<1> DEFINE o == daemon.orphans \ {t}
           e == [daemon EXCEPT !.orphans = @ \ {t}]
<1>1. /\ t <= daemon.now /\ daemon' = ExpireHead(e)
      /\ daemon \in DaemonState /\ daemon.now \in Nat
      /\ daemon.orphans \in SUBSET Nat /\ daemon.timer \in Nat \cup {Dead}
  BY DaemonFields, DaemonAssumption DEF OrphanFires, Good, Kept, Tabled
<1>2. e = Fired(daemon, daemon.timer, o)
  BY <1>1 DEF Fired, DaemonState
<1> HIDE DEF e
<1>3. \A u \in Running(daemon) : u > daemon.now => u # t
  BY <1>1
<1>4. o \in SUBSET Nat
  BY <1>1
<1>5. \A u \in Running(daemon) :
         u > daemon.now => u \in o \cup ({daemon.timer} \ {None, Dead})
  BY <1>3 DEF Running
<1> HIDE DEF o
<1> QED BY <1>1, <1>2, <1>4, <1>5, FiredGood

LEMMA TickGood ==
  ASSUME Good(daemon), Tick
  PROVE  Good(daemon')
<1> DEFINE d == daemon
           r == daemon'
           now == d.now + 1
<1>1. /\ d \in DaemonState /\ Kept(d) /\ Tabled(d) /\ Watched(d)
      /\ d.calls = <<>> /\ \A t \in Running(d) : t > d.now
  BY DEF Good, Kept, Tabled, Tick, Running
<1>2. d.now \in Nat /\ now \in 0..MaxTime
  BY <1>1, DaemonFields, DaemonAssumption DEF Tick
<1>3. r = [d EXCEPT !.now = now]
  BY <1>1 DEF DaemonState, Tick
<1> HIDE DEF r, now
<1>4. /\ r \in DaemonState /\ r.timer = d.timer /\ r.orphans = d.orphans
      /\ r.current = d.current /\ r.ndata = d.ndata /\ r.owner = d.owner
      /\ r.nextId = d.nextId /\ r.now = now /\ r.list = d.list /\ r.calls = d.calls
      /\ r.held = d.held /\ r.pid = d.pid /\ r.life = d.life
  BY <1>1, <1>2, <1>3 DEF DaemonState
<1>5. Tabled(r)
  BY <1>1, <1>4 DEF Tabled, Refs, OneSender, Lives, SortedList, AllListed
<1>6. \A i : ~Expected(r, d.list[i]) /\ (Living(r, d.list[i]) => Living(d, d.list[i]))
  <2>1. DOMAIN r.calls = {}
    BY <1>1, <1>4
  <2> QED BY <1>4, <2>1 DEF Living, Expected
<1>7. Watched(r)
  <2> SUFFICES ASSUME r.list # <<>>,
                      \A i \in DOMAIN r.list : Living(r, r.list[i]) \/ Expected(r, r.list[i])
               PROVE  \E t \in Running(r) :
                         /\ InTime(r, t)
                         /\ (\E i \in DOMAIN r.list : Expected(r, r.list[i])) => t > r.now
    BY DEF Watched
  <2>1. \A i \in DOMAIN d.list : Living(d, d.list[i]) \/ Expected(d, d.list[i])
    BY <1>4, <1>6
  <2>2. PICK t \in Running(d) : InTime(d, t)
    BY <1>1, <1>4, <2>1 DEF Watched
  <2>3. t \in Running(r)
    BY <1>4, <2>2 DEF Running
  <2>4. t \in Int
    BY <1>1, DaemonFields, <2>2 DEF Running, Dead
  <2>5. InTime(r, t)
    BY <1>2, <1>4, <2>2, <2>4 DEF InTime, now
  <2> QED BY <1>4, <1>6, <2>3, <2>5
<1>8. Holding(r, {}) /\ PidBut(r, {})
  BY <1>4 DEF Good, Holding, PidBut, Shown
<1> QED BY <1>5, <1>7, <1>8 DEF Good, Kept, r

-----------------------------------------------------------------------------
(* The invariant, and what it says                                         *)

LEMMA DaemonInitGood ==
  ASSUME DaemonInit
  PROVE  Good(daemon)
<1> DEFINE d == daemon
<1>1. /\ d.ndata = <<>> /\ d.current = [id \in Ids |-> 0]
      /\ d.life = [id \in Ids |-> "none"] /\ d.owner = [id \in Ids |-> 0]
      /\ d.nextId = 1 /\ d.list = <<>> /\ d.held = [s \in Senders |-> <<>>]
      /\ d.pid = [s \in Senders |-> FALSE] /\ d.calls = <<>>
  BY DEF DaemonInit
<1>2. 1 \in 1..(MaxCalls + 1) /\ 0 \in 0..MaxCalls /\ 0 \in 0..MaxTime /\ MAX_NOTIFICATIONS \in Nat
  BY DaemonAssumption
<1>3. d \in DaemonState
  BY <1>2 DEF DaemonInit, DaemonState, None
<1> HIDE DEF d
<1>4. Len(d.ndata) = 0 /\ DOMAIN d.ndata = {} /\ DOMAIN d.list = {} /\ DOMAIN d.calls = {}
  BY <1>1
<1>5. MaxCalls \in Nat
  BY DaemonAssumption
<1>6. Refs(d) /\ OneSender(d) /\ Lives(d)
  BY <1>1, <1>4, <1>5 DEF Refs, OneSender, Lives
<1>7. SortedList(d) /\ AllListed(d) /\ Watched(d)
  BY <1>1, <1>4 DEF SortedList, AllListed, Watched
<1>8. Holding(d, {})
  <2> SUFFICES ASSUME NEW s \in Senders
               PROVE  /\ IsInjective(d.held[s]) /\ Len(d.held[s]) <= MAX_NOTIFICATIONS
                      /\ ToSet(d.held[s]) = Shown(d, s)
    BY DEF Holding
  <2>1. d.held[s] = <<>> /\ Len(<<>>) = 0 /\ DOMAIN <<>> = {}
    BY <1>1
  <2>2. Shown(d, s) = {}
    BY <1>1 DEF Shown
  <2>3. 0 <= MAX_NOTIFICATIONS
    BY <1>2
  <2> QED BY <2>1, <2>2, <2>3 DEF IsInjective, ToSet
<1>9. PidBut(d, {})
  BY <1>1 DEF PidBut
<1> QED BY <1>3, <1>6, <1>7, <1>8, <1>9 DEF Good, Kept, Tabled, d

LEMMA NotifiesGood ==
  ASSUME Good(daemon), NEW s \in Senders, Notifies(s)
  PROVE  Good(daemon')
<1>1. PICK kind \in Kinds, timeout \in Timeouts, replacesId \in {0} \cup 1..(daemon.nextId - 1) :
         /\ replacesId # 0 => \E n \in DOMAIN daemon.ndata :
               daemon.ndata[n].id = replacesId /\ daemon.ndata[n].sender = s
         /\ NotifyAsync(s, replacesId, kind, timeout)
  BY DEF Notifies
<1> QED BY <1>1, NotifyGood

LEMMA DaemonStep ==
  ASSUME DaemonInv, [DaemonNext]_daemon
  PROVE  DaemonInv'
<1> USE DEF DaemonInv
<1>1. ASSUME NEW s \in Senders, Notifies(s) PROVE Good(daemon')
  BY <1>1, NotifiesGood
<1>2. ASSUME NEW s \in Senders, FocusApp(s) PROVE Good(daemon')
  BY <1>2, FocusAppGood
<1>3. ASSUME NEW s \in Senders, NameVanishes(s) PROVE Good(daemon')
  BY <1>3, NameVanishesGood
<1>4. CASE PidAnswered
  BY <1>4, PidAnsweredGood
<1>5. CASE PidFails
  BY <1>5, PidFailsGood
<1>6. ASSUME NEW id \in Ids, Close(id) PROVE Good(daemon')
  BY <1>6, CloseGood
<1>7. ASSUME NEW id \in Ids, Dismiss(id) PROVE Good(daemon')
  BY <1>7, DismissGood
<1>8. CASE ExpireTimerFires
  BY <1>8, ExpireTimerFiresGood
<1>9. ASSUME NEW t \in daemon.orphans, OrphanFires(t) PROVE Good(daemon')
  BY <1>9, OrphanFiresGood
<1>10. CASE Tick
  BY <1>10, TickGood
<1>11. CASE UNCHANGED daemon
  BY <1>11
<1> QED
  BY <1>1, <1>2, <1>3, <1>4, <1>5, <1>6, <1>7, <1>8, <1>9, <1>10, <1>11 DEF DaemonNext

\* The daemon's fields, lists and pids keep to the inductive invariant, whatever is
\* called, answered, closed, destroyed or expired.
THEOREM DaemonInvariant == DaemonSpec => []DaemonInv
<1>1. DaemonInit => DaemonInv
  BY DaemonInitGood DEF DaemonInv
<1>2. DaemonInv /\ [DaemonNext]_daemon => DaemonInv'
  BY DaemonStep
<1> QED BY <1>1, <1>2, PTL DEF DaemonSpec

\* The list of expirations is sorted, holds each that is to expire, and its head has
\* a timer that comes in time (_startExpire, _expireNotification).
THEOREM ExpirationsSoundAlways == DaemonSpec => []ExpirationsSound
<1>1. ASSUME DaemonInv PROVE ExpirationsSound
  <2> DEFINE d == daemon
  <2>1. /\ d \in DaemonState /\ Refs(d) /\ Lives(d) /\ SortedList(d) /\ AllListed(d)
        /\ Watched(d) /\ d.list \in Seq(Ids)
    BY <1>1, DaemonFields DEF DaemonInv, Good, Kept, Tabled
  <2>2. ExpireListSorted
    BY <2>1 DEF SortedList, ExpireListSorted
  <2>3. ToExpireIsListed
    <3> SUFFICES ASSUME NEW id \in Ids, d.life[id] = "live",
                        d.ndata[d.current[id]].expires # 0
                 PROVE  Contains(d.list, d.current[id])
      BY DEF ToExpireIsListed
    <3>1. \E i \in DOMAIN d.list : d.list[i] = d.current[id]
      BY <2>1 DEF Lives, AllListed
    <3> QED BY <2>1, <3>1 DEF Contains
  <2>4. HeadIsWatched
    <3> SUFFICES ASSUME d.list # <<>>,
                        \A n \in ToSet(d.list) :
                           d.ndata[n].bound /\ d.life[d.ndata[n].id] = "live"
                 PROVE  \E t \in Running(d) : InTime(d, t)
      BY DEF HeadIsWatched, Running, InTime
    <3>1. \A i \in DOMAIN d.list : Living(d, d.list[i])
      BY DEF Living, ToSet
    <3> QED BY <2>1, <3>1 DEF Watched
  <2> QED BY <2>2, <2>3, <2>4 DEF ExpirationsSound
<1> QED BY <1>1, DaemonInvariant, PTL

\* The ids the clients can name, the sources' lists and the pids speak of the same
\* notifications, those that live (NotifyAsync, Source.pushNotification).
THEOREM TablesAgreeAlways == DaemonSpec => []TablesAgree
<1>1. ASSUME DaemonInv PROVE TablesAgree
  <2> DEFINE d == daemon
  <2>1. /\ d \in DaemonState /\ Refs(d) /\ Lives(d) /\ Holding(d, {}) /\ PidBut(d, {})
    BY <1>1 DEF DaemonInv, Good, Kept, Tabled
  <2>2. Len(d.ndata) \in Nat /\ DOMAIN d.ndata = 1..Len(d.ndata)
    <3>1. d.ndata \in Seq(NData)
      BY <2>1, DaemonFields
    <3> QED BY <3>1
  <2>3. \A id \in Ids : {d.current[id], d.owner[id]} \subseteq 0..Len(d.ndata)
    BY <2>1, <2>2 DEF Refs
  <2>4. ToSet(d.list) \subseteq 1..Len(d.ndata)
    BY <2>1, <2>2 DEF Refs, ToSet
  <2>5. DaemonTypeOK
    BY <2>1, <2>3, <2>4 DEF DaemonTypeOK, Refs
  <2>6. IdsOfTheLiving
    BY <2>1 DEF IdsOfTheLiving, Lives
  <2>7. SourcesHoldTheLiving
    BY <2>1 DEF SourcesHoldTheLiving, Holding, Shown
  <2>8. PidHasSource
    BY <2>1 DEF PidHasSource, PidBut
  <2> QED BY <2>5, <2>6, <2>7, <2>8 DEF TablesAgree
<1> QED BY <1>1, DaemonInvariant, PTL

=============================================================================
