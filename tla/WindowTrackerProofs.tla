------------------------- MODULE WindowTrackerProofs -------------------------
(***************************************************************************)
(* The books of applications and windows balance, and a window that keeps  *)
(* its kind is in the list of one application, for any windows, desktop    *)
(* files and bounds.  First what each operation on the books does to them, *)
(* then the steps, each of which changes the entries of one window at most.*)
(***************************************************************************)
EXTENDS WindowTracker, TLAPS

\* The state of an application and its list, and whether it is listed as running.
AppSound(a, listed) ==
    /\ a.running <=> a.windows # {}
    /\ a.state = "RUNNING" <=> listed
    /\ a.state = "STOPPED" => a.windows = {}
    /\ a.state = "RUNNING" => a.windows # {}

Sound(b) ==
    /\ b \in Books
    /\ \A o \in Pool : AppSound(b.app[o], o \in b.runningApps)
    /\ \A w \in Windows : b.windowToApp[w] # None => w \in b.app[b.windowToApp[w]].windows

In(b, w) == {o \in Pool : w \in b.app[o].windows}

\* From b to d no window but w gets an application, and their entries stay.
RestKept(b, d, w) ==
    \A v \in Windows \ {w} : In(d, v) \subseteq In(b, v) /\ d.windowToApp[v] = b.windowToApp[v]

\* The same for all windows.
AllKept(b, d) ==
    \A v \in Windows : In(d, v) \subseteq In(b, v) /\ d.windowToApp[v] = b.windowToApp[v]

----------------------------------------------------------------------------
(* The operations on the books *)

AppT == [state : {"STOPPED", "STARTING", "RUNNING"}, windows : SUBSET Windows, running : BOOLEAN]

LEMMA FreshIsSound == Fresh \in AppT /\ AppSound(Fresh, FALSE) /\ Fresh.windows = {}
BY DEF Fresh, App, AppSound, AppT

LEMMA AppIs ==
    ASSUME NEW s \in {"STOPPED", "STARTING", "RUNNING"}, NEW ws \in SUBSET Windows,
           NEW r \in BOOLEAN
    PROVE  /\ App(s, ws, r) \in AppT
           /\ App(s, ws, r).state = s /\ App(s, ws, r).windows = ws
           /\ App(s, ws, r).running = r
BY DEF App, AppT

\* Objects without a reference are disposed of: nothing in the tables notices.
LEMMA CollectKeeps ==
    ASSUME NEW b, Sound(b)
    PROVE  Sound(Collect(b)) /\ AllKept(b, Collect(b))
<1> DEFINE d == Collect(b)
<1>1. b \in Books
  BY DEF Sound
<1>2. /\ d.windowToApp = b.windowToApp /\ d.runningApps = b.runningApps
      /\ d.idToApp = b.idToApp /\ d.classToApp = b.classToApp
      /\ d.app = [o \in Pool |-> IF o \in Referenced(b) THEN b.app[o] ELSE Fresh]
  BY <1>1 DEF Collect, Books
<1>3. d = [windowToApp |-> b.windowToApp, runningApps |-> b.runningApps,
           idToApp |-> b.idToApp, classToApp |-> b.classToApp,
           app |-> [o \in Pool |-> IF o \in Referenced(b) THEN b.app[o] ELSE Fresh]]
  BY <1>1 DEF Collect, Books
<1>4. d \in Books
  <2>1. [o \in Pool |-> IF o \in Referenced(b) THEN b.app[o] ELSE Fresh] \in [Pool -> AppT]
    BY <1>1, FreshIsSound DEF Books, AppT
  <2> QED BY <1>1, <1>3, <2>1 DEF Books, AppT
<1>5. \A o \in Pool : AppSound(d.app[o], o \in d.runningApps)
  <2> SUFFICES ASSUME NEW o \in Pool PROVE AppSound(d.app[o], o \in d.runningApps)
    OBVIOUS
  <2>1. CASE o \in Referenced(b)
    BY <1>2, <2>1 DEF Sound
  <2>2. CASE o \notin Referenced(b)
    <3>1. o \notin b.runningApps
      BY <2>2 DEF Referenced
    <3>2. d.app[o] = Fresh /\ d.runningApps = b.runningApps
      BY <1>2, <2>2
    <3> QED BY <3>1, <3>2, FreshIsSound DEF AppSound
  <2> QED BY <2>1, <2>2
<1>6. \A w \in Windows : d.windowToApp[w] # None => w \in d.app[d.windowToApp[w]].windows
  <2> SUFFICES ASSUME NEW w \in Windows, b.windowToApp[w] # None
               PROVE  w \in d.app[b.windowToApp[w]].windows
    BY <1>2
  <2>1. b.windowToApp[w] \in Pool /\ b.windowToApp[w] \in Referenced(b)
    BY <1>1 DEF Books, Referenced
  <2>2. d.app[b.windowToApp[w]] = b.app[b.windowToApp[w]]
    BY <1>2, <2>1
  <2> QED BY <2>2 DEF Sound
<1>7. AllKept(b, d)
  <2> SUFFICES ASSUME NEW v \in Windows, NEW o \in In(d, v)
               PROVE  o \in In(b, v)
    BY <1>2 DEF AllKept
  <2>1. o \in Pool /\ v \in d.app[o].windows
    BY DEF In
  <2>2. d.app[o] = b.app[o]
    BY <1>2, <2>1, FreshIsSound
  <2> QED BY <2>1, <2>2 DEF In
<1> QED BY <1>4, <1>5, <1>6, <1>7 DEF Sound

\* What a change of one application and of the list of those that run does.
LEMMA OneChanges ==
    ASSUME NEW b, NEW d, NEW o \in Pool, b \in Books,
           d.windowToApp = b.windowToApp, d.idToApp = b.idToApp, d.classToApp = b.classToApp,
           \A p \in Pool \ {o} :
              d.app[p] = b.app[p] /\ (p \in d.runningApps <=> p \in b.runningApps),
           d \in Books, AppSound(d.app[o], o \in d.runningApps),
           \A p \in Pool \ {o} : AppSound(b.app[p], p \in b.runningApps),
           \A w \in Windows : b.windowToApp[w] # None /\ b.windowToApp[w] # o
              => w \in b.app[b.windowToApp[w]].windows,
           \A w \in Windows : b.windowToApp[w] = o => w \in d.app[o].windows
    PROVE  Sound(d)
<1>1. \A p \in Pool : AppSound(d.app[p], p \in d.runningApps)
  BY DEF AppSound
<1>2. \A w \in Windows : d.windowToApp[w] # None => w \in d.app[d.windowToApp[w]].windows
  <2> SUFFICES ASSUME NEW w \in Windows, b.windowToApp[w] # None
               PROVE  w \in d.app[b.windowToApp[w]].windows
    OBVIOUS
  <2>1. b.windowToApp[w] \in Pool
    BY DEF Books
  <2> QED BY <2>1
<1> QED BY <1>1, <1>2 DEF Sound

\* Laminax_app_state_transition, spelt out.
LEMMA TransitionDoes ==
    ASSUME NEW b \in Books, NEW o \in Pool, NEW s \in {"STOPPED", "STARTING", "RUNNING"},
           b.app[o].state # s, ~(b.app[o].state = "RUNNING" /\ s = "STARTING")
    PROVE  LET d == Transition(b, o, s)
           IN  /\ d \in Books
               /\ d.windowToApp = b.windowToApp /\ d.idToApp = b.idToApp
               /\ d.classToApp = b.classToApp
               /\ \A p \in Pool \ {o} :
                     d.app[p] = b.app[p] /\ (p \in d.runningApps <=> p \in b.runningApps)
               /\ d.app[o].state = s /\ d.app[o].windows = b.app[o].windows
               /\ d.app[o].running <=> b.app[o].running /\ s # "STOPPED"
               /\ s = "RUNNING" => o \in d.runningApps
               /\ s = "STOPPED" => o \notin d.runningApps
               /\ s = "STARTING" => d.runningApps = b.runningApps
<1> DEFINE r == b.app[o].running /\ s # "STOPPED"
           a == App(s, b.app[o].windows, r)
           l == IF s = "RUNNING" THEN b.runningApps \cup {o}
                ELSE IF s = "STOPPED" THEN b.runningApps \ {o} ELSE b.runningApps
           d == Transition(b, o, s)
<1>1. d = [windowToApp |-> b.windowToApp, runningApps |-> l, idToApp |-> b.idToApp,
           classToApp |-> b.classToApp, app |-> [b.app EXCEPT ![o] = a]]
  BY DEF Transition, Books
<1>2. /\ a \in AppT /\ a.state = s /\ a.windows = b.app[o].windows
      /\ a.running <=> b.app[o].running /\ s # "STOPPED"
  <2>1. b.app[o] \in AppT
    BY DEF Books, AppT
  <2>2. b.app[o].windows \in SUBSET Windows
    BY <2>1 DEF AppT
  <2>3. r \in BOOLEAN
    OBVIOUS
  <2> HIDE DEF r
  <2>4. a \in AppT /\ a.state = s /\ a.windows = b.app[o].windows /\ a.running = r
    BY <2>2, <2>3, AppIs
  <2> QED BY <2>4 DEF r
<1> HIDE DEF a
<1>3. [b.app EXCEPT ![o] = a] \in [Pool -> AppT]
  BY <1>2 DEF Books, AppT
<1>4. l \in SUBSET Pool
  BY DEF Books
<1>5. d \in Books
  BY <1>1, <1>3, <1>4 DEF Books, AppT
<1>6. d.app[o] = a /\ \A p \in Pool \ {o} : d.app[p] = b.app[p]
  BY <1>1 DEF Books
<1>7. d.runningApps = l /\ d.windowToApp = b.windowToApp /\ d.idToApp = b.idToApp
      /\ d.classToApp = b.classToApp
  BY <1>1
<1> HIDE DEF d
<1> QED BY <1>2, <1>5, <1>6, <1>7 DEF d

LEMMA SetWindowsIs ==
    ASSUME NEW b \in Books, NEW o \in Pool, NEW ws \in SUBSET Windows, NEW r
    PROVE  SetWindows(b, o, ws, r) =
             [windowToApp |-> b.windowToApp, runningApps |-> b.runningApps,
              idToApp |-> b.idToApp, classToApp |-> b.classToApp,
              app |-> [b.app EXCEPT ![o] = App(b.app[o].state, ws, r)]]
BY DEF SetWindows, Books

\* The list of one application changes.
LEMMA SetWindowsDoes ==
    ASSUME NEW b \in Books, NEW o \in Pool, NEW ws \in SUBSET Windows, NEW r \in BOOLEAN
    PROVE  LET d == SetWindows(b, o, ws, r)
           IN  /\ d \in Books
               /\ d.windowToApp = b.windowToApp /\ d.idToApp = b.idToApp
               /\ d.classToApp = b.classToApp /\ d.runningApps = b.runningApps
               /\ \A p \in Pool \ {o} : d.app[p] = b.app[p]
               /\ d.app[o].state = b.app[o].state /\ d.app[o].windows = ws
               /\ d.app[o].running = r
<1> DEFINE a == App(b.app[o].state, ws, r)
           d == SetWindows(b, o, ws, r)
<1>1. d = [windowToApp |-> b.windowToApp, runningApps |-> b.runningApps, idToApp |-> b.idToApp,
           classToApp |-> b.classToApp, app |-> [b.app EXCEPT ![o] = a]]
  BY SetWindowsIs
<1>2. a \in AppT /\ a.state = b.app[o].state /\ a.windows = ws /\ a.running = r
  <2>1. b.app[o].state \in {"STOPPED", "STARTING", "RUNNING"}
    BY DEF Books
  <2> QED BY <2>1, AppIs
<1> HIDE DEF a
<1>3. [b.app EXCEPT ![o] = a] \in [Pool -> AppT]
  BY <1>2 DEF Books, AppT
<1>4. d \in Books
  BY <1>1, <1>3 DEF Books, AppT
<1>5. d.app[o] = a /\ \A p \in Pool \ {o} : d.app[p] = b.app[p]
  BY <1>1 DEF Books
<1>6. d.windowToApp = b.windowToApp /\ d.idToApp = b.idToApp
      /\ d.classToApp = b.classToApp /\ d.runningApps = b.runningApps
  BY <1>1
<1> HIDE DEF d
<1> QED BY <1>2, <1>4, <1>5, <1>6 DEF d

\* _Laminax_app_add_window: whatever the application's state was, it has the window and
\* a running state now, and is listed if it runs.
LEMMA AddWindowDoes ==
    ASSUME NEW b \in Books, NEW o \in Pool, NEW w \in Windows,
           AppSound(b.app[o], o \in b.runningApps)
    PROVE  LET d == AddWindow(b, o, w)
           IN  /\ d \in Books
               /\ d.windowToApp = b.windowToApp /\ d.idToApp = b.idToApp
               /\ d.classToApp = b.classToApp
               /\ \A p \in Pool \ {o} :
                     d.app[p] = b.app[p] /\ (p \in d.runningApps <=> p \in b.runningApps)
               /\ d.app[o].windows = b.app[o].windows \cup {w}
               /\ AppSound(d.app[o], o \in d.runningApps)
<1> DEFINE ws == b.app[o].windows \cup {w}
           c == SetWindows(b, o, ws, TRUE)
           d == AddWindow(b, o, w)
<1>1. CASE w \in b.app[o].windows
  <2>1. d = b /\ ws = b.app[o].windows
    BY <1>1 DEF AddWindow
  <2> QED BY <2>1
<1>2. CASE w \notin b.app[o].windows
  <2>1. ws \in SUBSET Windows /\ w \in ws
    BY DEF Books
  <2>2. /\ c \in Books
        /\ c.windowToApp = b.windowToApp /\ c.idToApp = b.idToApp
        /\ c.classToApp = b.classToApp /\ c.runningApps = b.runningApps
        /\ \A p \in Pool \ {o} : c.app[p] = b.app[p]
        /\ c.app[o].state = b.app[o].state /\ c.app[o].windows = ws
        /\ c.app[o].running
    <3>1. \A t \in BOOLEAN :
            LET e == SetWindows(b, o, ws, t)
            IN  /\ e \in Books
                /\ e.windowToApp = b.windowToApp /\ e.idToApp = b.idToApp
                /\ e.classToApp = b.classToApp /\ e.runningApps = b.runningApps
                /\ \A p \in Pool \ {o} : e.app[p] = b.app[p]
                /\ e.app[o].state = b.app[o].state /\ e.app[o].windows = ws
                /\ e.app[o].running = t
      BY <2>1, SetWindowsDoes
    <3> HIDE DEF ws
    <3> QED BY <3>1, Zenon
  <2>3. d = IF b.app[o].state = "STARTING" THEN c ELSE Transition(c, o, "RUNNING")
    BY <1>2 DEF AddWindow
  <2> HIDE DEF c, d, ws
  <2>4. CASE b.app[o].state = "STARTING"
    <3>1. d = c
      BY <2>3, <2>4
    <3>2. AppSound(c.app[o], o \in c.runningApps)
      BY <2>1, <2>2, <2>4 DEF AppSound
    <3> QED BY <2>2, <3>1, <3>2 DEF ws, d
  <2>5. CASE b.app[o].state = "RUNNING"
    <3>1. d = c
      BY <2>2, <2>3, <2>5 DEF Transition
    <3>2. AppSound(c.app[o], o \in c.runningApps)
      BY <2>1, <2>2, <2>5 DEF AppSound
    <3> QED BY <2>2, <3>1, <3>2 DEF ws, d
  <2>6. CASE b.app[o].state = "STOPPED"
    <3>1. d = Transition(c, o, "RUNNING") /\ c.app[o].state = "STOPPED"
      BY <2>2, <2>3, <2>6
    <3>2. /\ d \in Books
          /\ d.windowToApp = c.windowToApp /\ d.idToApp = c.idToApp
          /\ d.classToApp = c.classToApp
          /\ \A p \in Pool \ {o} :
                d.app[p] = c.app[p] /\ (p \in d.runningApps <=> p \in c.runningApps)
          /\ d.app[o].state = "RUNNING" /\ d.app[o].windows = c.app[o].windows
          /\ d.app[o].running <=> c.app[o].running
          /\ o \in d.runningApps
      BY <2>2, <3>1, TransitionDoes
    <3>3. d.app[o].windows = ws /\ d.app[o].state = "RUNNING" /\ d.app[o].running
      BY <2>2, <3>2
    <3>4. AppSound(d.app[o], o \in d.runningApps)
      BY <2>1, <3>2, <3>3 DEF AppSound
    <3> QED BY <2>2, <3>2, <3>3, <3>4 DEF ws, d
  <2> QED BY <2>4, <2>5, <2>6 DEF Books
<1> QED BY <1>1, <1>2

\* track_window: the application that was found has the window.
LEMMA TrackKeeps ==
    ASSUME NEW b, Sound(b), NEW w \in Windows, NEW o \in Pool
    PROVE  LET d == Track(b, w, o)
           IN  /\ Sound(d) /\ RestKept(b, d, w)
               /\ d.windowToApp[w] = o /\ In(d, w) \subseteq In(b, w) \cup {o}
<1> DEFINE b1 == [b EXCEPT !.windowToApp[w] = o]
           c == AddWindow(b1, o, w)
           d == Track(b, w, o)
<1>1. b \in Books
  BY DEF Sound
<1>2. b1 = [windowToApp |-> [b.windowToApp EXCEPT ![w] = o], runningApps |-> b.runningApps,
            idToApp |-> b.idToApp, classToApp |-> b.classToApp, app |-> b.app]
  BY <1>1 DEF Books
<1>3. b1 \in Books
  BY <1>1, <1>2 DEF Books
<1>4. b1.app = b.app /\ b1.runningApps = b.runningApps
      /\ b1.windowToApp = [b.windowToApp EXCEPT ![w] = o]
  BY <1>2
<1> HIDE DEF b1
<1>5. /\ c \in Books
      /\ c.windowToApp = b1.windowToApp /\ c.idToApp = b1.idToApp
      /\ c.classToApp = b1.classToApp
      /\ \A p \in Pool \ {o} :
            c.app[p] = b1.app[p] /\ (p \in c.runningApps <=> p \in b1.runningApps)
      /\ c.app[o].windows = b1.app[o].windows \cup {w}
      /\ AppSound(c.app[o], o \in c.runningApps)
  <2>1. AppSound(b1.app[o], o \in b1.runningApps)
    BY <1>4 DEF Sound
  <2> QED BY <1>3, <2>1, AddWindowDoes
<1> HIDE DEF c
<1>6. b1.windowToApp[w] = o /\ \A v \in Windows \ {w} : b1.windowToApp[v] = b.windowToApp[v]
  BY <1>1, <1>4 DEF Books
<1>7. Sound(c)
  <2>1. \A p \in Pool \ {o} : AppSound(b1.app[p], p \in b1.runningApps)
    BY <1>4 DEF Sound
  <2>2. \A v \in Windows : b1.windowToApp[v] # None /\ b1.windowToApp[v] # o
           => v \in b1.app[b1.windowToApp[v]].windows
    BY <1>4, <1>6 DEF Sound
  <2>3. \A v \in Windows : b1.windowToApp[v] = o => v \in c.app[o].windows
    <3> SUFFICES ASSUME NEW v \in Windows, b1.windowToApp[v] = o, v # w
                 PROVE  v \in b.app[o].windows
      BY <1>4, <1>5
    <3>1. b.windowToApp[v] = o /\ o # None
      BY <1>6, TrackerAssumption
    <3> QED BY <3>1 DEF Sound
  <2> QED BY <1>3, <1>5, <2>1, <2>2, <2>3, OneChanges
<1>8. d = Collect(c)
  BY DEF Track, c, b1
<1> HIDE DEF d
<1>9. Sound(d) /\ AllKept(c, d)
  BY <1>7, <1>8, CollectKeeps
<1>10. \A v \in Windows \ {w} : In(c, v) \subseteq In(b, v)
  BY <1>4, <1>5 DEF In
<1>11. In(c, w) \subseteq In(b, w) \cup {o}
  BY <1>4, <1>5 DEF In
<1>12. RestKept(b, d, w)
  <2>1. \A v \in Windows : In(d, v) \subseteq In(c, v) /\ d.windowToApp[v] = c.windowToApp[v]
    BY <1>9 DEF AllKept
  <2>2. \A v \in Windows \ {w} : c.windowToApp[v] = b.windowToApp[v]
    BY <1>5, <1>6
  <2> QED BY ONLY <1>10, <2>1, <2>2 DEF RestKept
<1>13. d.windowToApp[w] = o /\ In(d, w) \subseteq In(b, w) \cup {o}
  BY <1>5, <1>6, <1>9, <1>11 DEF AllKept
<1> QED BY <1>9, <1>12, <1>13 DEF d

\* _Laminax_app_remove_window: the application that loses its last window is stopped.
LEMMA RemoveWindowDoes ==
    ASSUME NEW b \in Books, NEW o \in Pool, NEW w \in Windows,
           AppSound(b.app[o], o \in b.runningApps)
    PROVE  LET d == RemoveWindow(b, o, w)
           IN  /\ d \in Books
               /\ d.windowToApp = b.windowToApp /\ d.idToApp = b.idToApp
               /\ d.classToApp = b.classToApp
               /\ \A p \in Pool \ {o} :
                     d.app[p] = b.app[p] /\ (p \in d.runningApps <=> p \in b.runningApps)
               /\ d.app[o].windows = b.app[o].windows \ {w}
               /\ AppSound(d.app[o], o \in d.runningApps)
<1> DEFINE ws == b.app[o].windows \ {w}
           c == SetWindows(b, o, ws, b.app[o].running)
           d == RemoveWindow(b, o, w)
<1>1. CASE w \notin b.app[o].windows
  <2>1. d = b /\ ws = b.app[o].windows
    BY <1>1 DEF RemoveWindow
  <2> QED BY <2>1
<1>2. CASE w \in b.app[o].windows
  <2>1. ws \in SUBSET Windows /\ b.app[o].running \in BOOLEAN
        /\ (b.app[o].windows = {w} <=> ws = {})
    BY <1>2 DEF Books
  <2>2. /\ c \in Books
        /\ c.windowToApp = b.windowToApp /\ c.idToApp = b.idToApp
        /\ c.classToApp = b.classToApp /\ c.runningApps = b.runningApps
        /\ \A p \in Pool \ {o} : c.app[p] = b.app[p]
        /\ c.app[o].state = b.app[o].state /\ c.app[o].windows = ws
        /\ c.app[o].running = b.app[o].running
    BY <2>1, SetWindowsDoes
  <2>3. d = IF ws = {} THEN Transition(c, o, "STOPPED") ELSE c
    BY <1>2, <2>1 DEF RemoveWindow
  <2>4. b.app[o].running /\ b.app[o].state # "STOPPED"
    BY <1>2 DEF AppSound
  <2> HIDE DEF c, d, ws
  <2>5. CASE ws # {}
    <3>1. d = c
      BY <2>3, <2>5
    <3>2. AppSound(c.app[o], o \in c.runningApps)
      BY <2>2, <2>4, <2>5 DEF AppSound
    <3> QED BY <2>2, <3>1, <3>2 DEF ws, d
  <2>6. CASE ws = {}
    <3>1. d = Transition(c, o, "STOPPED") /\ c.app[o].state # "STOPPED"
      BY <2>2, <2>3, <2>4, <2>6
    <3>2. /\ d \in Books
          /\ d.windowToApp = c.windowToApp /\ d.idToApp = c.idToApp
          /\ d.classToApp = c.classToApp
          /\ \A p \in Pool \ {o} :
                d.app[p] = c.app[p] /\ (p \in d.runningApps <=> p \in c.runningApps)
          /\ d.app[o].state = "STOPPED" /\ d.app[o].windows = c.app[o].windows
          /\ ~d.app[o].running
          /\ o \notin d.runningApps
      BY <2>2, <3>1, TransitionDoes
    <3>3. AppSound(d.app[o], o \in d.runningApps)
      BY <2>2, <2>6, <3>2 DEF AppSound
    <3> QED BY <2>2, <3>2, <3>3 DEF ws, d
  <2> QED BY <2>5, <2>6
<1> QED BY <1>1, <1>2

\* disassociate_window: the table forgets the window, and so does its application unless
\* the window is kept.
LEMMA DisassociateKeeps ==
    ASSUME NEW b, Sound(b), NEW w \in Windows, NEW kept \in BOOLEAN
    PROVE  LET d == Disassociate(b, w, kept)
           IN  /\ Sound(d) /\ RestKept(b, d, w)
               /\ d.windowToApp[w] = None /\ In(d, w) \subseteq In(b, w)
               /\ ~kept => In(d, w) \subseteq In(b, w) \ {b.windowToApp[w]}
<1> DEFINE o == b.windowToApp[w]
           c == [b EXCEPT !.windowToApp[w] = None]
           d == Disassociate(b, w, kept)
<1>1. b \in Books
  BY DEF Sound
<1>2. c = [windowToApp |-> [b.windowToApp EXCEPT ![w] = None], runningApps |-> b.runningApps,
           idToApp |-> b.idToApp, classToApp |-> b.classToApp, app |-> b.app]
  BY <1>1 DEF Books
<1>3. c \in Books
  BY <1>1, <1>2 DEF Books
<1>4. c.app = b.app /\ c.runningApps = b.runningApps
      /\ c.windowToApp = [b.windowToApp EXCEPT ![w] = None]
  BY <1>2
<1>5. d = IF o = None THEN b ELSE Collect(IF kept THEN c ELSE RemoveWindow(c, o, w))
  BY DEF Disassociate
<1> HIDE DEF c, d
<1>6. c.windowToApp[w] = None /\ \A v \in Windows \ {w} : c.windowToApp[v] = b.windowToApp[v]
  BY <1>1, <1>4 DEF Books
<1>7. Sound(c) /\ \A v \in Windows : In(c, v) = In(b, v)
  BY <1>3, <1>4, <1>6 DEF Sound, In
<1>8. CASE o = None
  <2>1. d = b /\ In(b, w) \ {o} = In(b, w)
    BY <1>5, <1>8, TrackerAssumption DEF In
  <2> QED BY <1>8, <2>1 DEF RestKept, d
<1>9. CASE o # None /\ kept
  <2>1. d = Collect(c)
    BY <1>5, <1>9
  <2>2. Sound(d) /\ AllKept(c, d)
    BY <1>7, <2>1, CollectKeeps
  <2> QED BY <1>6, <1>7, <1>9, <2>2 DEF AllKept, RestKept, d
<1>10. CASE o # None /\ ~kept
  <2> DEFINE e == RemoveWindow(c, o, w)
  <2>1. o \in Pool
    BY <1>1, <1>10 DEF Books
  <2>2. /\ e \in Books
        /\ e.windowToApp = c.windowToApp /\ e.idToApp = c.idToApp
        /\ e.classToApp = c.classToApp
        /\ \A p \in Pool \ {o} :
              e.app[p] = c.app[p] /\ (p \in e.runningApps <=> p \in c.runningApps)
        /\ e.app[o].windows = c.app[o].windows \ {w}
        /\ AppSound(e.app[o], o \in e.runningApps)
    <3>1. AppSound(c.app[o], o \in c.runningApps)
      BY <1>7, <2>1 DEF Sound
    <3> QED BY <1>3, <2>1, <3>1, RemoveWindowDoes
  <2>3. d = Collect(e)
    BY <1>5, <1>10
  <2> HIDE DEF e
  <2>4. Sound(e)
    <3>1. \A p \in Pool \ {o} : AppSound(c.app[p], p \in c.runningApps)
      BY <1>7 DEF Sound
    <3>2. \A v \in Windows : c.windowToApp[v] # None /\ c.windowToApp[v] # o
             => v \in c.app[c.windowToApp[v]].windows
      BY <1>7 DEF Sound
    <3>3. \A v \in Windows : c.windowToApp[v] = o => v \in e.app[o].windows
      BY <1>6, <1>7, <1>10, <2>2 DEF Sound
    <3> HIDE DEF o
    <3> QED BY <1>3, <2>1, <2>2, <3>1, <3>2, <3>3, OneChanges
  <2>5. Sound(d) /\ AllKept(e, d)
    BY <2>3, <2>4, CollectKeeps
  <2>6. /\ \A v \in Windows : In(e, v) \subseteq In(c, v)
        /\ In(e, w) \subseteq In(c, w) \ {o}
    BY <2>2 DEF In
  <2>7. In(d, w) \subseteq In(b, w) \ {o} /\ d.windowToApp[w] = None
    BY <1>6, <1>7, <2>2, <2>5, <2>6 DEF AllKept
  <2>8. RestKept(b, d, w)
    BY <1>6, <1>7, <2>2, <2>5, <2>6 DEF AllKept, RestKept
  <2> QED BY <2>5, <2>7, <2>8 DEF d
<1> QED BY <1>8, <1>9, <1>10

\* "unmanaged": whoever still has the window lets it go.
LEMMA RemoveEverywhereKeeps ==
    ASSUME NEW b, Sound(b), NEW w \in Windows, b.windowToApp[w] = None
    PROVE  LET d == RemoveEverywhere(b, w)
           IN  Sound(d) /\ AllKept(b, d) /\ In(d, w) = {}
<1> DEFINE holds == {o \in Pool : w \in b.app[o].windows}
           last  == {o \in holds : b.app[o].windows = {w}}
           f == [o \in Pool |->
                  IF o \in last THEN Fresh
                  ELSE App(b.app[o].state, b.app[o].windows \ {w}, b.app[o].running)]
           c == [windowToApp |-> b.windowToApp, runningApps |-> b.runningApps \ last,
                 idToApp |-> b.idToApp, classToApp |-> b.classToApp, app |-> f]
           d == RemoveEverywhere(b, w)
<1>1. b \in Books
  BY DEF Sound
<1>2. d = Collect(c)
  <2>1. d = Collect([b EXCEPT !.app = f, !.runningApps = b.runningApps \ last])
    BY Zenon DEF RemoveEverywhere
  <2> HIDE DEF f, last
  <2>2. [b EXCEPT !.app = f, !.runningApps = b.runningApps \ last] = c
    <3> DEFINE e == [b EXCEPT !.app = f]
               l == b.runningApps \ last
    <3>1. e = [windowToApp |-> b.windowToApp, runningApps |-> b.runningApps,
               idToApp |-> b.idToApp, classToApp |-> b.classToApp, app |-> f]
      BY <1>1 DEF Books
    <3>2. [b EXCEPT !.app = f, !.runningApps = l] = [e EXCEPT !.runningApps = l]
      BY Zenon
    <3>3. c = [windowToApp |-> b.windowToApp, runningApps |-> l, idToApp |-> b.idToApp,
               classToApp |-> b.classToApp, app |-> f]
      OBVIOUS
    <3> HIDE DEF c, e
    <3>4. [e EXCEPT !.runningApps = l] = c
      BY <3>1, <3>3
    <3> QED BY <3>2, <3>4
  <2> QED BY <2>1, <2>2
<1>3. \A o \in Pool \ last :
         /\ f[o] \in AppT
         /\ f[o].state = b.app[o].state /\ f[o].windows = b.app[o].windows \ {w}
         /\ f[o].running = b.app[o].running
  <2> SUFFICES ASSUME NEW o \in Pool \ last
               PROVE  /\ f[o] \in AppT
                      /\ f[o].state = b.app[o].state
                      /\ f[o].windows = b.app[o].windows \ {w}
                      /\ f[o].running = b.app[o].running
    OBVIOUS
  <2>1. f[o] = App(b.app[o].state, b.app[o].windows \ {w}, b.app[o].running)
    OBVIOUS
  <2>2. /\ b.app[o].state \in {"STOPPED", "STARTING", "RUNNING"}
        /\ b.app[o].windows \ {w} \in SUBSET Windows /\ b.app[o].running \in BOOLEAN
    BY <1>1 DEF Books
  <2> HIDE DEF f
  <2> QED BY <2>1, <2>2, AppIs
<1>4. \A o \in last : f[o] = Fresh
  OBVIOUS
<1>5. f \in [Pool -> AppT]
  <2>1. \A o \in Pool : f[o] \in AppT
    BY <1>3, <1>4, FreshIsSound
  <2>2. f = [o \in Pool |-> f[o]]
    OBVIOUS
  <2> HIDE DEF f
  <2> QED BY <2>1, <2>2
<1> HIDE DEF f
<1>6. c \in Books
  <2>1. b.runningApps \ last \in SUBSET Pool
    BY <1>1 DEF Books
  <2> HIDE DEF last
  <2> QED BY <1>1, <1>5, <2>1 DEF Books, AppT
<1>7. c.windowToApp = b.windowToApp /\ c.runningApps = b.runningApps \ last /\ c.app = f
  OBVIOUS
<1> HIDE DEF c, d
<1>8. \A o \in Pool : AppSound(c.app[o], o \in c.runningApps)
  <2> SUFFICES ASSUME NEW o \in Pool PROVE AppSound(f[o], o \in c.runningApps)
    BY <1>7
  <2>1. CASE o \in last
    BY <1>4, <1>7, <2>1, FreshIsSound DEF AppSound
  <2>2. CASE o \notin last
    <3>1. AppSound(b.app[o], o \in b.runningApps)
      BY DEF Sound
    <3>2. b.app[o].windows \ {w} = {} <=> b.app[o].windows = {}
      BY <2>2
    <3>3. o \in c.runningApps <=> o \in b.runningApps
      BY <1>7, <2>2
    <3> QED BY <1>3, <2>2, <3>1, <3>2, <3>3 DEF AppSound
  <2> QED BY <2>1, <2>2
<1>9. \A v \in Windows : In(c, v) \subseteq In(b, v)
  <2> SUFFICES ASSUME NEW v \in Windows, NEW o \in Pool, v \in f[o].windows
               PROVE  v \in b.app[o].windows
    BY <1>7 DEF In
  <2>1. o \notin last
    BY <1>4, FreshIsSound
  <2> QED BY <1>3, <2>1
<1>10. In(c, w) = {}
  <2> SUFFICES ASSUME NEW o \in Pool, w \in f[o].windows
               PROVE  FALSE
    BY <1>7 DEF In
  <2>1. o \notin last
    BY <1>4, FreshIsSound
  <2> QED BY <1>3, <2>1
<1>11. \A v \in Windows : c.windowToApp[v] # None => v \in c.app[c.windowToApp[v]].windows
  <2> SUFFICES ASSUME NEW v \in Windows, b.windowToApp[v] # None
               PROVE  v \in f[b.windowToApp[v]].windows
    BY <1>7
  <2>1. /\ v # w /\ b.windowToApp[v] \in Pool
        /\ v \in b.app[b.windowToApp[v]].windows
    BY <1>1 DEF Sound, Books
  <2>2. b.windowToApp[v] \notin last
    BY <2>1
  <2> QED BY <1>3, <2>1, <2>2
<1>12. Sound(c)
  BY <1>6, <1>8, <1>11 DEF Sound
<1>13. Sound(d) /\ AllKept(c, d)
  BY <1>2, <1>12, CollectKeeps
<1>14. AllKept(b, d) /\ In(d, w) = {}
  BY <1>7, <1>9, <1>10, <1>13 DEF AllKept
<1> QED BY <1>13, <1>14 DEF d

\* A transition that the windows of the application allow keeps the books sound.
LEMMA TransitionKeeps ==
    ASSUME NEW b, Sound(b), NEW o \in Pool, NEW s \in {"STOPPED", "STARTING", "RUNNING"},
           b.app[o].state # s,
           s = "STOPPED" => b.app[o].windows = {},
           s = "RUNNING" => b.app[o].windows # {},
           s = "STARTING" => b.app[o].state = "STOPPED"
    PROVE  Sound(Transition(b, o, s)) /\ AllKept(b, Transition(b, o, s))
<1> DEFINE d == Transition(b, o, s)
<1>1. b \in Books /\ AppSound(b.app[o], o \in b.runningApps)
  BY DEF Sound
<1>2. /\ d \in Books
      /\ d.windowToApp = b.windowToApp /\ d.idToApp = b.idToApp
      /\ d.classToApp = b.classToApp
      /\ \A p \in Pool \ {o} :
            d.app[p] = b.app[p] /\ (p \in d.runningApps <=> p \in b.runningApps)
      /\ d.app[o].state = s /\ d.app[o].windows = b.app[o].windows
      /\ d.app[o].running <=> b.app[o].running /\ s # "STOPPED"
      /\ s = "RUNNING" => o \in d.runningApps
      /\ s = "STOPPED" => o \notin d.runningApps
      /\ s = "STARTING" => d.runningApps = b.runningApps
  BY <1>1, TransitionDoes
<1> HIDE DEF d
<1>3. AppSound(d.app[o], o \in d.runningApps)
  BY <1>1, <1>2 DEF AppSound
<1>4. \A p \in Pool \ {o} : AppSound(b.app[p], p \in b.runningApps)
  BY DEF Sound
<1>5. /\ \A w \in Windows : b.windowToApp[w] # None /\ b.windowToApp[w] # o
              => w \in b.app[b.windowToApp[w]].windows
      /\ \A w \in Windows : b.windowToApp[w] = o => w \in d.app[o].windows
  BY <1>2, TrackerAssumption DEF Sound
<1>6. Sound(d)
  BY <1>1, <1>2, <1>3, <1>4, <1>5, OneChanges
<1>7. AllKept(b, d)
  BY <1>2 DEF AllKept, In
<1> QED BY <1>6, <1>7 DEF d

LEMMA StartupKeeps ==
    ASSUME NEW b, Sound(b), NEW o \in Pool
    PROVE  /\ Sound(Began(b, o)) /\ AllKept(b, Began(b, o))
           /\ Sound(Completed(b, o)) /\ AllKept(b, Completed(b, o))
<1>1. AllKept(b, b)
  BY DEF AllKept
<1>2. b \in Books /\ AppSound(b.app[o], o \in b.runningApps)
  BY DEF Sound
<1>3. Sound(Began(b, o)) /\ AllKept(b, Began(b, o))
  <2>1. CASE b.app[o].state = "STOPPED"
    BY <2>1, TransitionKeeps DEF Began
  <2>2. CASE b.app[o].state # "STOPPED"
    BY <1>1, <2>2 DEF Began
  <2> QED BY <2>1, <2>2
<1>4. Sound(Completed(b, o)) /\ AllKept(b, Completed(b, o))
  <2> DEFINE s == IF b.app[o].windows # {} THEN "RUNNING" ELSE "STOPPED"
  <2>1. CASE b.app[o].state = s
    BY <1>1, <2>1 DEF Completed, Transition
  <2>2. CASE b.app[o].state # s
    BY <2>2, TransitionKeeps DEF Completed
  <2> QED BY <2>1, <2>2
<1> QED BY <1>3, <1>4

\* The tables of the desktop files say nothing of windows.
LEMMA FilesKeep ==
    ASSUME NEW b, Sound(b), NEW i \in Ids, NEW o \in Pool \cup {None},
           NEW p \in Pool \cup {None}
    PROVE  LET c == [b EXCEPT !.idToApp[i] = o, !.classToApp[i] = p]
           IN  Sound(Collect(c)) /\ AllKept(b, Collect(c))
<1> DEFINE c == [b EXCEPT !.idToApp[i] = o, !.classToApp[i] = p]
<1>1. b \in Books
  BY DEF Sound
<1>2. c = [windowToApp |-> b.windowToApp, runningApps |-> b.runningApps,
           idToApp |-> [b.idToApp EXCEPT ![i] = o],
           classToApp |-> [b.classToApp EXCEPT ![i] = p], app |-> b.app]
  <2> DEFINE e == [b EXCEPT !.idToApp[i] = o]
  <2>1. e = [windowToApp |-> b.windowToApp, runningApps |-> b.runningApps,
             idToApp |-> [b.idToApp EXCEPT ![i] = o],
             classToApp |-> b.classToApp, app |-> b.app]
    BY <1>1 DEF Books
  <2>2. c = [e EXCEPT !.classToApp[i] = p]
    BY Zenon
  <2> HIDE DEF c, e
  <2> QED BY <2>1, <2>2
<1>3. c \in Books
  BY <1>1, <1>2 DEF Books
<1>4. c.windowToApp = b.windowToApp /\ c.runningApps = b.runningApps /\ c.app = b.app
  BY <1>2
<1> HIDE DEF c
<1>5. Sound(c) /\ AllKept(b, c)
  BY <1>3, <1>4 DEF Sound, AllKept, In
<1>6. Sound(Collect(c)) /\ AllKept(c, Collect(c))
  BY <1>5, CollectKeeps
<1> QED BY <1>5, <1>6 DEF AllKept, c

----------------------------------------------------------------------------
(* The inductive invariant *)

\* A window that keeps its kind is with the application that the tracker has for it, if
\* any, and it has one exactly while it is interesting; a window that is gone has none.
Filed(b, w, tracked) ==
    In(b, w) \subseteq {b.windowToApp[w]} /\ (tracked <=> b.windowToApp[w] # None)

AllFiled ==
    \A w \in Windows :
        /\ w \in Steady => Filed(books, w, w \in interesting)
        /\ places[w] = 0 => /\ w \notin interesting
                            /\ In(books, w) = {} /\ books.windowToApp[w] = None

IInv == TypeOK /\ Sound(books) /\ AllFiled

\* A step that concerns one window.
LEMMA OneFiled ==
    ASSUME IInv, NEW w \in Windows, RestKept(books, books', w),
           \A v \in Windows \ {w} :
              places'[v] = places[v] /\ (v \in interesting' <=> v \in interesting),
           w \in Steady => Filed(books', w, w \in interesting'),
           places'[w] = 0 => /\ w \notin interesting'
                             /\ In(books', w) = {} /\ books'.windowToApp[w] = None
    PROVE  AllFiled'
<1> SUFFICES ASSUME NEW v \in Windows
             PROVE  /\ v \in Steady => Filed(books', v, v \in interesting')
                    /\ places'[v] = 0 => /\ v \notin interesting'
                                         /\ In(books', v) = {} /\ books'.windowToApp[v] = None
  BY DEF AllFiled, Filed, In, Steady
<1>1. CASE v = w
  BY <1>1
<1>2. CASE v # w
  <2>1. /\ In(books', v) \subseteq In(books, v)
        /\ books'.windowToApp[v] = books.windowToApp[v]
    BY <1>2 DEF RestKept
  <2>2. /\ v \in Steady => Filed(books, v, v \in interesting)
        /\ places[v] = 0 => /\ v \notin interesting
                            /\ In(books, v) = {} /\ books.windowToApp[v] = None
    BY DEF IInv, AllFiled
  <2> QED BY <1>2, <2>1, <2>2 DEF Filed
<1> QED BY <1>1, <1>2

\* A step that concerns none.
LEMMA NoneFiled ==
    ASSUME IInv, AllKept(books, books'), UNCHANGED <<places, interesting>>
    PROVE  AllFiled'
<1> SUFFICES ASSUME NEW v \in Windows
             PROVE  /\ v \in Steady => Filed(books', v, v \in interesting)
                    /\ places[v] = 0 => /\ v \notin interesting
                                        /\ In(books', v) = {} /\ books'.windowToApp[v] = None
  BY DEF AllFiled, Filed, In, Steady
<1>1. In(books', v) \subseteq In(books, v) /\ books'.windowToApp[v] = books.windowToApp[v]
  BY DEF AllKept
<1>2. /\ v \in Steady => Filed(books, v, v \in interesting)
      /\ places[v] = 0 => /\ v \notin interesting
                          /\ In(books, v) = {} /\ books.windowToApp[v] = None
  BY DEF IInv, AllFiled
<1> QED BY <1>1, <1>2 DEF Filed

\* get_app_for_window finds applications, and a normal window the one it has.
LEMMA FoundIs ==
    ASSUME NEW b, Sound(b), NEW w \in Windows, NEW c \in Ids \cup {None}
    PROVE  /\ Found(b, w, c) \subseteq Pool
           /\ w \notin Dialogs /\ b.windowToApp[w] # None
              => Found(b, w, c) = {b.windowToApp[w]}
<1>1. b \in Books
  BY DEF Sound
<1>2. b.windowToApp[w] \in Pool \cup {None} /\ b.runningApps \subseteq Pool
      /\ (c # None => b.idToApp[c] \in Pool \cup {None} /\ b.classToApp[c] \in Pool \cup {None})
  BY <1>1 DEF Books
<1>3. OfProcess(b, w) \subseteq Pool
  BY <1>2 DEF OfProcess
<1>4. Free(b, w) # {} => NewObject(b, w) \in Pool
  <2>1. Free(b, w) # {} => NewObject(b, w) \in Free(b, w)
    BY DEF NewObject
  <2> QED BY <2>1 DEF Free
<1>5. Found(b, w, c) \subseteq Pool
  <2> HIDE DEF OfProcess, Free, NewObject
  <2> QED BY <1>2, <1>3, <1>4 DEF Found
<1>6. w \notin Dialogs /\ b.windowToApp[w] # None => Found(b, w, c) = {b.windowToApp[w]}
  BY DEF Found
<1> QED BY <1>5, <1>6

\* window-added on one or two workspaces, of a window that no application has.
LEMMA TrackOnDoes ==
    ASSUME NEW b, Sound(b), NEW w \in Windows, NEW c \in Ids \cup {None}, NEW n \in 1..2,
           NEW result, TrackOn(b, w, c, n, result)
    PROVE  /\ Sound(result) /\ RestKept(b, result, w)
           /\ result.windowToApp[w] # None
           /\ In(b, w) = {} /\ (n = 1 \/ w \notin Dialogs)
              => In(result, w) \subseteq {result.windowToApp[w]}
<1>1. PICK o \in Found(b, w, c) :
        IF n = 1 THEN result = Track(b, w, o)
        ELSE \E p \in Found(Track(b, w, o), w, c) : result = Track(Track(b, w, o), w, p)
  BY DEF TrackOn
<1> DEFINE b1 == Track(b, w, o)
<1>2. o \in Pool /\ o # None
  BY FoundIs, TrackerAssumption
<1>3. Sound(b1) /\ RestKept(b, b1, w) /\ b1.windowToApp[w] = o
      /\ In(b1, w) \subseteq In(b, w) \cup {o}
  BY <1>2, TrackKeeps
<1> HIDE DEF b1
<1>4. CASE n = 1
  <2>1. result = b1
    BY <1>1, <1>4 DEF b1
  <2> QED BY <1>2, <1>3, <2>1
<1>5. CASE n # 1
  <2>1. PICK p \in Found(b1, w, c) : result = Track(b1, w, p)
    BY <1>1, <1>5 DEF b1
  <2>2. p \in Pool /\ p # None
    BY <1>3, FoundIs, TrackerAssumption
  <2>3. Sound(result) /\ RestKept(b1, result, w) /\ result.windowToApp[w] = p
        /\ In(result, w) \subseteq In(b1, w) \cup {p}
    BY <1>3, <2>1, <2>2, TrackKeeps
  <2>4. RestKept(b, result, w)
    BY <1>3, <2>3 DEF RestKept
  <2>5. w \notin Dialogs => p = o
    BY <1>2, <1>3, FoundIs
  <2> QED BY <1>3, <1>5, <2>2, <2>3, <2>4, <2>5
<1> QED BY <1>4, <1>5

\* A steady dialog is on one workspace.
LEMMA SteadySpread ==
    ASSUME NEW w \in Steady, NEW n \in Spread(w)
    PROVE  n = 1 \/ w \notin Dialogs
BY DEF Steady, Spread

\* A window that leaves its workspaces and comes to others, or changes its class.
LEMMA ComesDoes ==
    ASSUME IInv, NEW w \in Windows, NEW c \in Ids \cup {None}, NEW n \in Spread(w),
           Comes(w, c, n)
    PROVE  /\ Sound(books') /\ RestKept(books, books', w)
           /\ w \in Steady => Filed(books', w, w \in interesting)
           /\ watched' \subseteq Windows
<1> DEFINE d == Disassociate(books, w, w \notin interesting)
<1>1. Sound(books) /\ n \in 1..2 /\ watched \subseteq Windows
  BY DEF IInv, TypeOK, Spread
<1>2. /\ Sound(d) /\ RestKept(books, d, w)
      /\ d.windowToApp[w] = None /\ In(d, w) \subseteq In(books, w)
      /\ w \in interesting => In(d, w) \subseteq In(books, w) \ {books.windowToApp[w]}
  <2>1. (w \notin interesting) \in BOOLEAN
    OBVIOUS
  <2> QED BY <1>1, <2>1, DisassociateKeeps
<1>3. w \in Steady => In(books, w) \subseteq {books.windowToApp[w]}
                      /\ (w \in interesting <=> books.windowToApp[w] # None)
  BY DEF IInv, AllFiled, Filed
<1> HIDE DEF d
<1>4. CASE w \in interesting
  <2>1. TrackOn(d, w, c, n, books') /\ watched' = watched \cup {w}
    BY <1>4 DEF Comes, d
  <2>2. /\ Sound(books') /\ RestKept(d, books', w) /\ books'.windowToApp[w] # None
        /\ In(d, w) = {} /\ (n = 1 \/ w \notin Dialogs)
           => In(books', w) \subseteq {books'.windowToApp[w]}
    BY <1>1, <1>2, <2>1, TrackOnDoes
  <2>3. RestKept(books, books', w)
    BY <1>2, <2>2 DEF RestKept
  <2>4. w \in Steady => In(d, w) = {} /\ (n = 1 \/ w \notin Dialogs)
    BY <1>2, <1>3, <1>4, SteadySpread
  <2> QED BY <1>1, <1>4, <2>1, <2>2, <2>3, <2>4 DEF Filed
<1>5. CASE w \notin interesting
  <2>1. books' = d /\ watched' = watched
    BY <1>5 DEF Comes, d
  <2>2. w \in Steady => In(books', w) \subseteq {books'.windowToApp[w]}
    BY <1>2, <1>3, <1>5, <2>1
  <2> QED BY <1>1, <1>2, <1>5, <2>1, <2>2 DEF Filed
<1> QED BY <1>4, <1>5

----------------------------------------------------------------------------
(* The steps *)

LEMMA SoundIsTyped == ASSUME NEW b, Sound(b) PROVE b \in Books
BY DEF Sound

LEMMA ManageKeeps ==
    ASSUME IInv, NEW w \in Windows, Manage(w)
    PROVE  IInv'
<1>1. PICK c \in Ids \cup {None}, n \in Spread(w), tracked \in BOOLEAN :
        /\ class' = [class EXCEPT ![w] = c]
        /\ places' = [places EXCEPT ![w] = n]
        /\ interesting' = IF tracked THEN interesting \cup {w} ELSE interesting
        /\ IF tracked
           THEN TrackOn(books, w, c, n, books') /\ watched' = watched \cup {w}
           ELSE UNCHANGED <<books, watched>>
  BY DEF Manage
<1>2. TypeOK /\ Sound(books) /\ n \in 1..2 /\ places[w] = 0 /\ UNCHANGED sequences
  BY DEF IInv, Manage, Spread
<1>3. w \notin interesting /\ In(books, w) = {} /\ books.windowToApp[w] = None
  BY <1>2 DEF IInv, AllFiled
<1>4. /\ Sound(books') /\ RestKept(books, books', w)
      /\ w \in Steady => Filed(books', w, tracked)
      /\ watched' \subseteq Windows
  <2>1. CASE tracked
    <3>1. /\ Sound(books') /\ RestKept(books, books', w) /\ books'.windowToApp[w] # None
          /\ In(books, w) = {} /\ (n = 1 \/ w \notin Dialogs)
             => In(books', w) \subseteq {books'.windowToApp[w]}
      BY <1>1, <1>2, <2>1, TrackOnDoes
    <3> QED BY <1>1, <1>2, <1>3, <2>1, <3>1, SteadySpread DEF Filed, TypeOK
  <2>2. CASE ~tracked
    <3>1. books' = books /\ watched' = watched
      BY <1>1, <2>2
    <3> QED BY <1>2, <1>3, <2>2, <3>1 DEF Filed, TypeOK, RestKept
  <2> QED BY <2>1, <2>2
<1>5. w \in interesting' <=> tracked
  BY <1>1, <1>3
<1>6. places'[w] # 0 /\ \A v \in Windows \ {w} :
         places'[v] = places[v] /\ (v \in interesting' <=> v \in interesting)
  BY <1>1, <1>2 DEF TypeOK
<1>7. AllFiled'
  BY <1>4, <1>5, <1>6, OneFiled
<1>8. TypeOK'
  BY <1>1, <1>2, <1>4, SoundIsTyped DEF TypeOK
<1> QED BY <1>4, <1>7, <1>8 DEF IInv, Sound, AppSound

LEMMA MoveToKeeps ==
    ASSUME IInv, NEW w \in Windows, NEW n \in Spread(w), MoveTo(w, n)
    PROVE  IInv'
<1>1. /\ places' = [places EXCEPT ![w] = n] /\ Comes(w, class[w], n)
      /\ UNCHANGED <<class, interesting, sequences>>
  BY DEF MoveTo
<1>2. TypeOK /\ n \in 1..2 /\ class[w] \in Ids \cup {None}
  BY DEF IInv, Spread, TypeOK
<1>3. /\ Sound(books') /\ RestKept(books, books', w)
      /\ w \in Steady => Filed(books', w, w \in interesting)
      /\ watched' \subseteq Windows
  BY <1>1, <1>2, ComesDoes
<1>4. places'[w] # 0 /\ \A v \in Windows \ {w} : places'[v] = places[v]
  BY <1>1, <1>2 DEF TypeOK
<1>5. AllFiled'
  BY <1>1, <1>3, <1>4, OneFiled
<1>6. TypeOK'
  BY <1>1, <1>2, <1>3, SoundIsTyped DEF TypeOK
<1> QED BY <1>3, <1>5, <1>6 DEF IInv, Sound, AppSound

LEMMA ChangeClassKeeps ==
    ASSUME IInv, NEW w \in Windows, NEW c \in Ids \cup {None}, ChangeClass(w, c)
    PROVE  IInv'
<1>1. /\ class' = [class EXCEPT ![w] = c] /\ places[w] # 0
      /\ UNCHANGED <<places, interesting, sequences>>
  BY DEF ChangeClass, IInv, TypeOK
<1>2. TypeOK /\ Sound(books)
  BY DEF IInv
<1>3. /\ Sound(books') /\ RestKept(books, books', w)
      /\ w \in Steady => Filed(books', w, w \in interesting)
      /\ watched' \subseteq Windows
  <2>1. CASE w \in watched
    <3>1. Comes(w, c, 1) /\ 1 \in Spread(w)
      BY <2>1 DEF ChangeClass, Spread
    <3> QED BY <3>1, ComesDoes
  <2>2. CASE w \notin watched
    <3>1. books' = books /\ watched' = watched
      BY <2>2 DEF ChangeClass
    <3> QED BY <1>2, <3>1 DEF IInv, AllFiled, RestKept, TypeOK
  <2> QED BY <2>1, <2>2
<1>4. AllFiled'
  BY <1>1, <1>3, OneFiled
<1>5. TypeOK'
  BY <1>1, <1>2, <1>3, SoundIsTyped DEF TypeOK
<1> QED BY <1>3, <1>4, <1>5 DEF IInv, Sound, AppSound

LEMMA ChangeKindKeeps ==
    ASSUME IInv, NEW w \in Windows, ChangeKind(w)
    PROVE  IInv'
<1>1. /\ places[w] # 0 /\ w \notin Steady
      /\ UNCHANGED <<places, class, watched, sequences, books>>
      /\ interesting' \subseteq Windows
      /\ \A v \in Windows \ {w} : v \in interesting' <=> v \in interesting
  BY DEF ChangeKind, IInv, TypeOK, Steady
<1>2. AllFiled'
  BY <1>1, OneFiled DEF RestKept
<1>3. TypeOK'
  BY <1>1 DEF IInv, TypeOK
<1> QED BY <1>1, <1>2, <1>3 DEF IInv, Sound

LEMMA UnmanageKeeps ==
    ASSUME IInv, NEW w \in Windows, Unmanage(w)
    PROVE  IInv'
<1> DEFINE d == Disassociate(books, w, w \notin interesting)
<1>1. /\ places' = [places EXCEPT ![w] = 0] /\ class' = [class EXCEPT ![w] = None]
      /\ interesting' = interesting \ {w} /\ watched' = watched \ {w}
      /\ books' = RemoveEverywhere(d, w) /\ UNCHANGED sequences
  BY DEF Unmanage
<1>2. TypeOK /\ Sound(books) /\ (w \notin interesting) \in BOOLEAN
  BY DEF IInv
<1>3. Sound(d) /\ RestKept(books, d, w) /\ d.windowToApp[w] = None
  BY <1>2, DisassociateKeeps
<1> HIDE DEF d
<1>4. Sound(books') /\ AllKept(d, books') /\ In(books', w) = {}
  BY <1>1, <1>3, RemoveEverywhereKeeps
<1>5. RestKept(books, books', w) /\ books'.windowToApp[w] = None
  BY <1>3, <1>4 DEF RestKept, AllKept
<1>6. w \notin interesting' /\ \A v \in Windows \ {w} :
         places'[v] = places[v] /\ (v \in interesting' <=> v \in interesting)
  BY <1>1, <1>2 DEF TypeOK
<1>7. AllFiled'
  BY <1>4, <1>5, <1>6, OneFiled DEF Filed
<1>8. TypeOK'
  BY <1>1, <1>2, <1>4, SoundIsTyped DEF TypeOK
<1> QED BY <1>4, <1>7, <1>8 DEF IInv, Sound, AppSound

LEMMA StartupStepKeeps ==
    ASSUME IInv, NEW i \in Ids, StartupBegins(i) \/ StartupCompletes(i)
    PROVE  IInv'
<1>1. /\ UNCHANGED <<places, class, interesting, watched>>
      /\ \/ books' = books
         \/ /\ books.idToApp[i] # None
            /\ books' = Began(books, books.idToApp[i]) \/ books' = Completed(books, books.idToApp[i])
  BY DEF StartupBegins, StartupCompletes
<1>2. TypeOK /\ Sound(books)
  BY DEF IInv
<1>3. Sound(books') /\ AllKept(books, books')
  <2>1. CASE books' = books
    BY <1>2, <2>1 DEF AllKept
  <2>2. CASE books' # books
    <3>1. books.idToApp[i] \in Pool
      BY <1>1, <1>2, <2>2 DEF TypeOK, Books
    <3> QED BY <1>1, <1>2, <2>2, <3>1, StartupKeeps
  <2> QED BY <2>1, <2>2
<1>4. sequences' \in [Ids -> 0..MaxSequences]
  <2>1. MaxSequences \in Nat
    BY TrackerAssumption
  <2> QED BY <1>2, <2>1 DEF TypeOK, StartupBegins, StartupCompletes
<1>5. AllFiled'
  BY <1>1, <1>3, NoneFiled
<1>6. TypeOK'
  BY <1>1, <1>2, <1>3, <1>4, SoundIsTyped DEF TypeOK
<1> QED BY <1>3, <1>5, <1>6 DEF IInv, Sound, AppSound

LEMMA FileStepKeeps ==
    ASSUME IInv, NEW i \in Ids, Install(i) \/ Uninstall(i)
    PROVE  IInv'
<1>1. UNCHANGED <<places, class, interesting, watched, sequences>>
  BY DEF Install, Uninstall
<1>2. TypeOK /\ Sound(books) /\ books.classToApp[i] \in Pool \cup {None}
  BY DEF IInv, TypeOK, Books
<1>3. \E o, p \in Pool \cup {None} :
        books' = Collect([books EXCEPT !.idToApp[i] = o, !.classToApp[i] = p])
  <2>1. CASE Install(i)
    <3> DEFINE o == NewObject(books, i)
               p == IF i \in Declaring THEN o ELSE books.classToApp[i]
    <3>1. o \in Pool
      BY <2>1 DEF Install, NewObject, Free
    <3>2. p \in Pool \cup {None}
      BY <1>2, <3>1
    <3>3. books' = Collect([books EXCEPT !.idToApp[i] = o, !.classToApp[i] = p])
      BY <2>1, Zenon DEF Install
    <3> HIDE DEF o, p
    <3> QED BY <3>1, <3>2, <3>3
  <2>2. CASE Uninstall(i)
    <3> DEFINE e == [books EXCEPT !.idToApp[i] = None]
               p == books.classToApp[i]
    <3>1. books' = Collect(e)
      BY <2>2 DEF Uninstall
    <3>2. e \in Books /\ e.classToApp = books.classToApp
      BY <1>2 DEF TypeOK, Books
    <3>3. [books EXCEPT !.idToApp[i] = None, !.classToApp[i] = p] = [e EXCEPT !.classToApp[i] = p]
      BY Zenon
    <3> HIDE DEF e
    <3>4. [e EXCEPT !.classToApp[i] = p] = e
      BY <3>2 DEF Books
    <3>5. None \in Pool \cup {None} /\ p \in Pool \cup {None}
      BY <1>2
    <3>6. books' = Collect([books EXCEPT !.idToApp[i] = None, !.classToApp[i] = p])
      BY <3>1, <3>3, <3>4, Zenon
    <3> QED BY <3>5, <3>6
  <2> QED BY <2>1, <2>2
<1>4. Sound(books') /\ AllKept(books, books')
  <2>1. PICK o \in Pool \cup {None}, p \in Pool \cup {None} :
          books' = Collect([books EXCEPT !.idToApp[i] = o, !.classToApp[i] = p])
    BY <1>3
  <2> DEFINE c == [books EXCEPT !.idToApp[i] = o, !.classToApp[i] = p]
  <2>2. Sound(Collect(c)) /\ AllKept(books, Collect(c))
    BY <1>2, FilesKeep
  <2>3. books' = Collect(c)
    BY <2>1
  <2> HIDE DEF c
  <2> QED BY <2>2, <2>3
<1>5. AllFiled'
  BY <1>1, <1>4, NoneFiled
<1>6. TypeOK'
  BY <1>1, <1>2, <1>4, SoundIsTyped DEF TypeOK
<1> QED BY <1>4, <1>5, <1>6 DEF IInv, Sound, AppSound

LEMMA InitHolds == Init => IInv
<1> SUFFICES ASSUME Init PROVE IInv
  OBVIOUS
<1>1. TypeOK
  <2>1. MaxSequences \in Nat
    BY TrackerAssumption
  <2>2. [o \in Pool |-> Fresh] \in [Pool -> AppT]
    BY FreshIsSound
  <2>3. books \in Books
    BY <2>2 DEF Init, Books, AppT
  <2> QED BY <2>1, <2>3 DEF Init, TypeOK
<1>2. \A o \in Pool : books.app[o] = Fresh /\ o \notin books.runningApps
  BY DEF Init
<1>3. \A w \in Windows : books.windowToApp[w] = None /\ w \notin interesting
  BY DEF Init
<1>4. Sound(books)
  <2>1. \A o \in Pool : AppSound(books.app[o], o \in books.runningApps)
    BY <1>2, FreshIsSound DEF AppSound
  <2> QED BY <1>1, <1>3, <2>1 DEF Sound, TypeOK
<1>5. AllFiled
  BY <1>2, <1>3, FreshIsSound DEF AllFiled, Filed, In
<1> QED BY <1>1, <1>4, <1>5 DEF IInv

LEMMA StepHolds == IInv /\ [Next]_vars => IInv'
<1> SUFFICES ASSUME IInv, [Next]_vars PROVE IInv'
  OBVIOUS
<1>1. ASSUME NEW w \in Windows, Manage(w) PROVE IInv'
  BY <1>1, ManageKeeps
<1>2. ASSUME NEW w \in Windows, NEW n \in Spread(w), MoveTo(w, n) PROVE IInv'
  BY <1>2, MoveToKeeps
<1>3. ASSUME NEW w \in Windows, ChangeKind(w) PROVE IInv'
  BY <1>3, ChangeKindKeeps
<1>4. ASSUME NEW w \in Windows, NEW c \in Ids \cup {None}, ChangeClass(w, c) PROVE IInv'
  BY <1>4, ChangeClassKeeps
<1>5. ASSUME NEW w \in Windows, Unmanage(w) PROVE IInv'
  BY <1>5, UnmanageKeeps
<1>6. ASSUME NEW i \in Ids, StartupBegins(i) \/ StartupCompletes(i) PROVE IInv'
  BY <1>6, StartupStepKeeps
<1>7. ASSUME NEW i \in Ids, Install(i) \/ Uninstall(i) PROVE IInv'
  BY <1>7, FileStepKeeps
<1>8. CASE UNCHANGED vars
  BY <1>8 DEF vars, IInv, TypeOK, Sound, AppSound, AllFiled, Filed, In, Steady
<1> QED BY <1>1, <1>2, <1>3, <1>4, <1>5, <1>6, <1>7, <1>8 DEF Next

----------------------------------------------------------------------------
\* The tables, the states and the lists of windows agree, for any windows, desktop files
\* and sequences (add_window, remove_window, state_transition, track_window).
THEOREM BooksBalanceAlways == Spec => []BooksBalance
<1>1. IInv => BooksBalance
  BY DEF IInv, Sound, AppSound, BooksBalance
<1> QED BY <1>1, InitHolds, StepHolds, PTL DEF Spec

\* A window that keeps its kind is in the list of one application, that of the tracker,
\* and none has a window that is gone (track_window, disassociate_window, on_unmanaged).
THEOREM OneAppAlways == Spec => []OneApp
<1>1. IInv => OneApp
  <2> SUFFICES ASSUME IInv, NEW w \in Windows
               PROVE  /\ w \in Steady \cap interesting
                         => Holders(w) = {books.windowToApp[w]}
                      /\ places[w] = 0 \/ w \in Steady \ interesting
                         => Holders(w) = {} /\ books.windowToApp[w] = None
    BY DEF OneApp
  <2>1. Holders(w) = In(books, w)
    BY DEF Holders, In
  <2>2. books.windowToApp[w] # None => books.windowToApp[w] \in In(books, w)
    BY DEF IInv, Sound, Books, In
  <2>3. /\ w \in Steady => Filed(books, w, w \in interesting)
        /\ places[w] = 0 => In(books, w) = {} /\ books.windowToApp[w] = None
    BY DEF IInv, AllFiled
  <2>4. In(books, w) \subseteq {None} => In(books, w) = {}
    BY TrackerAssumption DEF In
  <2> QED BY <2>1, <2>2, <2>3, <2>4 DEF Filed
<1> QED BY <1>1, InitHolds, StepHolds, PTL DEF Spec
=============================================================================
