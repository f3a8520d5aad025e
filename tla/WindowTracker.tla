---------------------------- MODULE WindowTracker ----------------------------
(***************************************************************************)
(* Applications and their windows: laminax-window-tracker.c gives each     *)
(* window an application, laminax-app.c keeps its windows and its state,   *)
(* laminax-app-system.c those that are installed or run.  The compositor   *)
(* adds windows to workspaces and removes them, changes their class and    *)
(* kind, and reports what starts; the menu may lose and regain an entry.   *)
(*                                                                         *)
(* An application is an object that lives while one of the tables has it;  *)
(* objects of the same id, and those made for a window, are told apart.    *)
(* Left out: the focused application; windows of sandboxed, remote or Gtk  *)
(* applications, groups and startup ids, which are more ways to find one.  *)
(***************************************************************************)
EXTENDS Naturals

CONSTANTS
    Windows,
    Dialogs,       \* the windows that are not of the type NORMAL
    Sticky,        \* those that may be put on all workspaces
    Fickle,        \* those that may change whether they are interesting
    Pid,           \* the process of a window; 0: not known
    Ids,           \* the desktop files
    Declaring,     \* those with a StartupWMClass
    Pool,          \* bound on the objects alive at once, and for which file or
    MadeFor,       \* window each of them is made
    MaxSequences,  \* bound on the startup sequences of an id
    None

ASSUME TrackerAssumption ==
    /\ Dialogs \cup Sticky \cup Fickle \subseteq Windows
    /\ Declaring \subseteq Ids
    /\ Pid \in [Windows -> Nat] /\ MaxSequences \in Nat
    /\ MadeFor \in [Pool -> Windows \cup Ids]
    /\ None \notin Pool \cup Ids

VARIABLES
    places,      \* on how many workspaces a window is; 0: it is not managed
    class,       \* the id that its WM_CLASS leads to, or None
    interesting, \* the windows of a kind that the tracker tracks
    watched,     \* those with on_wm_class_changed
    sequences,   \* the number of startup sequences that are not completed
    books        \* the tables and the objects

vars == <<places, class, interesting, watched, sequences, books>>

----------------------------------------------------------------------------
(* Objects and tables.  running stands for running_state # NULL.            *)

App(state, windows, running) ==
    [state |-> state, windows |-> windows, running |-> running]

Fresh == App("STOPPED", {}, FALSE)

Referenced(b) ==
    {b.windowToApp[w] : w \in Windows} \cup b.runningApps
    \cup {b.idToApp[i] : i \in Ids} \cup {b.classToApp[i] : i \in Ids}

\* An object that no table has is disposed of, and its windows let go.
Collect(b) ==
    [b EXCEPT !.app = [o \in Pool |-> IF o \in Referenced(b) THEN @[o] ELSE Fresh]]

Free(b, x) == {o \in Pool \ Referenced(b) : MadeFor[o] = x}

\* A new object for a file or a window, which the caller puts in a table.
NewObject(b, x) == CHOOSE o \in Free(b, x) : TRUE

----------------------------------------------------------------------------
(* laminax-app.c *)

\* Laminax_app_state_transition with _notify_app_state_changed.
Transition(b, o, state) ==
    IF b.app[o].state = state \/ (b.app[o].state = "RUNNING" /\ state = "STARTING")
    THEN b
    ELSE [b EXCEPT
           !.app[o] = App(state, @.windows, @.running /\ state # "STOPPED"),
           !.runningApps = IF state = "RUNNING" THEN @ \cup {o}
                           ELSE IF state = "STOPPED" THEN @ \ {o} ELSE @]

\* The list of windows changes; an application that gets one has a running state.
SetWindows(b, o, ws, running) == [b EXCEPT !.app[o] = App(@.state, ws, running)]

\* A slip: an application that starts goes on as if its window were not there.
AddWindowLate(b, o, w) ==
    IF w \in b.app[o].windows \/ b.app[o].state = "STARTING" THEN b
    ELSE Transition(SetWindows(b, o, b.app[o].windows \cup {w}, TRUE), o, "RUNNING")

AddWindow(b, o, w) ==
    IF w \in b.app[o].windows THEN b
    ELSE LET c == SetWindows(b, o, b.app[o].windows \cup {w}, TRUE)
         IN  IF b.app[o].state = "STARTING" THEN c ELSE Transition(c, o, "RUNNING")

\* Its first statement asserts b.app[o].running.
RemoveWindow(b, o, w) ==
    IF w \notin b.app[o].windows THEN b
    ELSE LET c == SetWindows(b, o, b.app[o].windows \ {w}, b.app[o].running)
         IN  IF b.app[o].windows = {w} THEN Transition(c, o, "STOPPED") ELSE c

\* A slip: a sequence that completes without a window leaves the application as it is.
CompletedWithWindow(b, o) ==
    IF b.app[o].windows # {} THEN Transition(b, o, "RUNNING") ELSE b

\* _handle_startup_sequence of one that has completed.
Completed(b, o) ==
    Transition(b, o, IF b.app[o].windows # {} THEN "RUNNING" ELSE "STOPPED")

\* The same of one that begins.
Began(b, o) == IF b.app[o].state = "STOPPED" THEN Transition(b, o, "STARTING") ELSE b

----------------------------------------------------------------------------
(* laminax-window-tracker.c *)

\* get_app_from_window_pid: an application that runs and has a window of the process.
OfProcess(b, w) ==
    {o \in b.runningApps : Pid[w] > 0 /\ \E v \in b.app[o].windows : Pid[v] = Pid[w]}

\* get_app_for_window of a window with the class c: any of these.
Found(b, w, c) ==
    IF w \notin Dialogs /\ b.windowToApp[w] # None THEN {b.windowToApp[w]}
    ELSE IF c # None /\ b.classToApp[c] # None THEN {b.classToApp[c]}
    ELSE IF c # None /\ b.idToApp[c] # None THEN {b.idToApp[c]}
    ELSE IF OfProcess(b, w) # {} THEN OfProcess(b, w)
    ELSE IF Free(b, w) # {} THEN {NewObject(b, w)} ELSE {}

\* track_window of an interesting window, for which o is found.
Track(b, w, o) == Collect(AddWindow([b EXCEPT !.windowToApp[w] = o], o, w))

\* A slip: the application keeps a window that leaves the table.
DisassociateOnly(b, w, kept) == Collect([b EXCEPT !.windowToApp[w] = None])

\* disassociate_window; kept: it is not interesting now.
Disassociate(b, w, kept) ==
    LET o == b.windowToApp[w]
        c == [b EXCEPT !.windowToApp[w] = None]
    IN  IF o = None THEN b
        ELSE Collect(IF kept THEN c ELSE RemoveWindow(c, o, w))

\* What window-added leads to on n workspaces, from the books b.
TrackOn(b, w, c, n, result) ==
    \E o \in Found(b, w, c) :
        LET b1 == Track(b, w, o)
        IN  IF n = 1 THEN result = b1
            ELSE \E p \in Found(b1, w, c) : result = Track(b1, w, p)

\* The window comes to n workspaces after it has left the others, if any.
Comes(w, c, n) ==
    LET b == Disassociate(books, w, w \notin interesting)
    IN  IF w \in interesting
        THEN TrackOn(b, w, c, n, books') /\ watched' = watched \cup {w}
        ELSE books' = b /\ UNCHANGED watched

----------------------------------------------------------------------------
(* The compositor *)

\* On one workspace, or on all of them, of which there are two.
Spread(w) == IF w \in Sticky THEN 1..2 ELSE {1}

\* A new window, of either kind, is managed on one workspace or on all.
Manage(w) ==
    /\ places[w] = 0
    /\ \E c \in Ids \cup {None}, n \in Spread(w), tracked \in BOOLEAN :
          /\ class' = [class EXCEPT ![w] = c]
          /\ places' = [places EXCEPT ![w] = n]
          /\ interesting' = IF tracked THEN interesting \cup {w} ELSE interesting
          /\ IF tracked
             THEN TrackOn(books, w, c, n, books') /\ watched' = watched \cup {w}
             ELSE UNCHANGED <<books, watched>>
    /\ UNCHANGED sequences

\* It moves to another workspace, or is put on all of them, or on one again.
MoveTo(w, n) ==
    /\ places[w] > 0
    /\ places' = [places EXCEPT ![w] = n]
    /\ Comes(w, class[w], n)
    /\ UNCHANGED <<class, interesting, sequences>>

\* Its type, or whether it skips the task bar, changes: the tracker is not told.
ChangeKind(w) ==
    /\ places[w] > 0 /\ w \in Fickle
    /\ interesting' = IF w \in interesting THEN interesting \ {w} ELSE interesting \cup {w}
    /\ UNCHANGED <<places, class, watched, sequences, books>>

\* notify::wm-class with tracked_window_changed.
ChangeClass(w, c) ==
    /\ places[w] > 0 /\ c # class[w]
    /\ class' = [class EXCEPT ![w] = c]
    /\ IF w \in watched THEN Comes(w, c, 1) ELSE UNCHANGED <<books, watched>>
    /\ UNCHANGED <<places, interesting, sequences>>

\* It is removed from its workspaces, then "unmanaged" reaches who still has it.
RemoveEverywhere(b, w) ==
    LET holds == {o \in Pool : w \in b.app[o].windows}
        last  == {o \in holds : b.app[o].windows = {w}}
    IN  Collect([b EXCEPT
           !.app = [o \in Pool |->
                     IF o \in last THEN Fresh
                     ELSE App(@[o].state, @[o].windows \ {w}, @[o].running)],
           !.runningApps = @ \ last])

Unmanage(w) ==
    /\ places[w] > 0
    /\ places' = [places EXCEPT ![w] = 0]
    /\ class' = [class EXCEPT ![w] = None]
    /\ interesting' = interesting \ {w}
    /\ watched' = watched \ {w}
    /\ books' = RemoveEverywhere(Disassociate(books, w, w \notin interesting), w)
    /\ UNCHANGED sequences

----------------------------------------------------------------------------
(* What starts, and the menu *)

\* A launcher announces the application, which may run already.
StartupBegins(i) ==
    /\ sequences[i] < MaxSequences
    /\ sequences' = [sequences EXCEPT ![i] = @ + 1]
    /\ books' = IF books.idToApp[i] # None THEN Began(books, books.idToApp[i]) ELSE books
    /\ UNCHANGED <<places, class, interesting, watched>>

\* The application, or a timer of the compositor, completes a sequence.
StartupCompletes(i) ==
    /\ sequences[i] > 0
    /\ sequences' = [sequences EXCEPT ![i] = @ - 1]
    /\ books' = IF books.idToApp[i] # None THEN Completed(books, books.idToApp[i]) ELSE books
    /\ UNCHANGED <<places, class, interesting, watched>>

\* on_apps_tree_changed_cb with a desktop file that is new; the others stay as they are.
Install(i) ==
    /\ books.idToApp[i] = None /\ Free(books, i) # {}
    /\ LET o == NewObject(books, i)
       IN  books' = Collect([books EXCEPT
               !.idToApp[i] = o,
               !.classToApp[i] = IF i \in Declaring THEN o ELSE @])
    /\ UNCHANGED <<places, class, interesting, watched, sequences>>

\* The same with one that is gone; startup_wm_class_to_app keeps its application.
Uninstall(i) ==
    /\ books.idToApp[i] # None
    /\ books' = Collect([books EXCEPT !.idToApp[i] = None])
    /\ UNCHANGED <<places, class, interesting, watched, sequences>>

----------------------------------------------------------------------------
Init ==
    /\ places = [w \in Windows |-> 0]
    /\ class = [w \in Windows |-> None]
    /\ interesting = {} /\ watched = {}
    /\ sequences = [i \in Ids |-> 0]
    /\ books = [windowToApp |-> [w \in Windows |-> None],
                runningApps |-> {},
                idToApp |-> [i \in Ids |-> None],
                classToApp |-> [i \in Ids |-> None],
                app |-> [o \in Pool |-> Fresh]]

Next ==
    \/ \E w \in Windows :
          \/ Manage(w)
          \/ \E n \in Spread(w) : MoveTo(w, n)
          \/ ChangeKind(w)
          \/ \E c \in Ids \cup {None} : ChangeClass(w, c)
          \/ Unmanage(w)
    \/ \E i \in Ids : \/ StartupBegins(i) \/ StartupCompletes(i)
                      \/ Install(i) \/ Uninstall(i)

\* The compositor completes a sequence that nobody does after a time.
Spec == Init /\ [][Next]_vars /\ \A i \in Ids : WF_vars(StartupCompletes(i))

----------------------------------------------------------------------------
Books ==
    [windowToApp : [Windows -> Pool \cup {None}],
     runningApps : SUBSET Pool,
     idToApp : [Ids -> Pool \cup {None}],
     classToApp : [Ids -> Pool \cup {None}],
     app : [Pool -> [state : {"STOPPED", "STARTING", "RUNNING"},
                     windows : SUBSET Windows,
                     running : BOOLEAN]]]

TypeOK ==
    /\ places \in [Windows -> 0..2]
    /\ class \in [Windows -> Ids \cup {None}]
    /\ interesting \subseteq Windows /\ watched \subseteq Windows
    /\ sequences \in [Ids -> 0..MaxSequences]
    /\ books \in Books

\* Whatever windows, sequences and desktop files do, the tables agree with the states:
\* those that run are the ones listed, have a window, and keep it in a running state,
\* one that is stopped has none, and the application that the tracker has for a window
\* has that window too, so that the assertion of _Laminax_app_remove_window holds
\* (laminax-app.c:984), as do those of the workspace switch and of the disposal.
BooksBalance ==
    /\ TypeOK
    /\ \A o \in Pool :
          LET a == books.app[o]
          IN  /\ a.running <=> a.windows # {}
              /\ a.state = "RUNNING" <=> o \in books.runningApps
              /\ a.state = "STOPPED" => a.windows = {}
              /\ a.state = "RUNNING" => a.windows # {}
    /\ \A w \in Windows :
          books.windowToApp[w] # None => w \in books.app[books.windowToApp[w]].windows

Holders(w) == {o \in Pool : w \in books.app[o].windows}

\* A dialog that comes to a second workspace is given an application anew.
Steady == {w \in Windows \ Fickle : w \notin Dialogs \cap Sticky}

\* A window that stays of its kind is in the list of the application that the tracker
\* has for it and in no other, however it moves and its class changes, whatever is
\* installed and starts meanwhile; and nobody keeps a window that is gone, also one
\* whose kind has changed so that the tracker lost it, or that two applications had.
OneApp ==
    \A w \in Windows :
        /\ w \in Steady \cap interesting => Holders(w) = {books.windowToApp[w]}
        /\ places[w] = 0 \/ w \in Steady \ interesting
           => Holders(w) = {} /\ books.windowToApp[w] = None

Starting(i) == books.idToApp[i] # None /\ books.app[books.idToApp[i]].state = "STARTING"

\* An installed application does not start for ever: with its windows it runs, without
\* one it is stopped, also when it has several sequences or is removed meanwhile.
StartingEnds == \A i \in Ids : Starting(i) ~> ~Starting(i)
=============================================================================
