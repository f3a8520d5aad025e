------------------------------- MODULE Panels -------------------------------
(***************************************************************************)
(* The panel manager of js/ui/panel.js: the key panels-enabled, the panel  *)
(* objects made for it, what the manager remembers of the panels whose     *)
(* monitor is away, the dummies a user picks a place with, and the monitor *)
(* changes that take panels away and bring them back.                      *)
(*                                                                         *)
(* A place is a pair of a monitor and an edge of it.  Left out: sizes,     *)
(* struts, corners, barriers, the main panel, the entries that the start   *)
(* finds malformed or twice and removes, and the translation between       *)
(* logical and X monitor numbers, which is the identity here.              *)
(***************************************************************************)
EXTENDS Integers, Sequences, FiniteSets, SequencesExt

CONSTANTS MaxMonitors,   \* the most monitors that are connected
          Edges,         \* the edges of a monitor (four in the code)
          InitialPanels  \* panels-enabled as the session finds it

ASSUME PanelsAssumption ==
    /\ MaxMonitors \in Nat \ {0}
    /\ IsFiniteSet(Edges)
    /\ InitialPanels \in Seq([id : Nat \ {0}, place : (0 .. MaxMonitors - 1) \X Edges])

VARIABLES monitorCount,  \* global.display.get_n_monitors()
          panelsEnabled, \* the key: a sequence of [id, place]
          panels,        \* the panel objects: their places, by id
          panelsMeta,    \* the places the manager remembers, by id
          panelCount,    \* how many panels it believes there are
          canAdd,        \* whether it believes another one has room
          dummies,       \* the places that dummies are shown at
          picking,       \* what the dummies are for: Adding, an id, or Nothing
          confirm,       \* the panel a dialog asks to remove, or Nothing
          \* Histories: the entries the start ignored, while the key is as it was;
          \* that the id or the place of one of them went to another panel, or was
          \* still offered when it was loaded at last; and how many panels were
          \* removed, and counted out, after their monitor had gone.
          overlooked, clash, miscounted

histories == <<overlooked, clash, miscounted>>

panelVars == <<monitorCount, panelsEnabled, panels, panelsMeta, panelCount,
               canAdd, dummies, picking, confirm, histories>>

Nothing == 0
Adding  == -1

IsConnected(place) == place[1] < monitorCount

\* _checkCanAdd: one panel for each edge of each monitor.
HasRoom(count, monitors) == count < monitors * Cardinality(Edges)

With(f, k, v) == [x \in DOMAIN f \cup {k} |-> IF x = k THEN v ELSE f[x]]

Removing(f, keys) == [x \in DOMAIN f \ keys |-> f[x]]

(***************************************************************************)
(* _loadPanel on r = [panels, meta, count]: nothing when the id is taken   *)
(* or the place is another panel's; only the place is remembered when its  *)
(* monitor, of n, is missing.                                              *)
(***************************************************************************)
LoadPanel(r, id, place, n) ==
    IF \/ id \in DOMAIN r.panels
       \/ \E i \in DOMAIN r.meta \ {id} : r.meta[i] = place
    THEN r
    ELSE LET known == [r EXCEPT !.meta = With(@, id, place)]
         IN  IF place[1] >= n THEN known
             ELSE [known EXCEPT !.panels = With(@, id, place), !.count = @ + 1]

(***************************************************************************)
(* _onPanelsEnabledChanged takes one entry of the key: a panel that exists *)
(* moves over to the new list, at its new place, and any other is loaded.  *)
(***************************************************************************)
TakeEntry(r, e) ==
    IF e.id \in DOMAIN r.old
    THEN [r EXCEPT !.panels = With(@, e.id, e.place),
                   !.meta   = With(@, e.id, e.place),
                   !.old    = Removing(@, {e.id})]
    ELSE LoadPanel(r, e.id, e.place, monitorCount)

\* The panels that are left over in the old list are destroyed.
OnPanelsEnabledChanged(list, count) ==
    LET r == FoldLeft(TakeEntry,
                      [panels |-> <<>>, meta |-> <<>>, old |-> panels, count |-> count],
                      list)
    IN  /\ panelsEnabled' = list
        /\ panels' = r.panels
        /\ panelsMeta' = r.meta
        /\ panelCount' = r.count
        /\ canAdd' = HasRoom(r.count, monitorCount)
        /\ overlooked' = {}
        /\ UNCHANGED monitorCount

\* Wrong: also where there is a panel.
FreePlacesAll(meta, n) == (0 .. n - 1) \X Edges

(***************************************************************************)
(* _showDummyPanels: a dummy at each place, of the n monitors that are     *)
(* there, which no panel is known to have.                                 *)
(***************************************************************************)
FreePlaces(meta, n) ==
    {pl \in (0 .. n - 1) \X Edges : \A i \in DOMAIN meta : meta[i] # pl}

DestroyDummies == dummies' = {} /\ picking' = Nothing

AskForPlace(what) ==
    /\ confirm = Nothing
    /\ picking = Nothing
    /\ canAdd
    /\ dummies' = FreePlaces(panelsMeta, monitorCount)
    /\ picking' = what
    /\ UNCHANGED <<monitorCount, panelsEnabled, panels, panelsMeta, panelCount,
                   canAdd, confirm, histories>>

\* From a panel's context menu, or, to add one, over D-Bus.
AddPanelQuery == AskForPlace(Adding)

MovePanelQuery(id) == id \in DOMAIN panels /\ AskForPlace(id)

\* Escape, the end of the edit mode, or the call over D-Bus.
CloseDummies ==
    /\ picking # Nothing
    /\ DestroyDummies
    /\ UNCHANGED <<monitorCount, panelsEnabled, panels, panelsMeta, panelCount,
                   canAdd, confirm, histories>>

\* The first id, from 1, that no panel is known to have.
FreeId == CHOOSE i \in 1 .. Cardinality(DOMAIN panelsMeta) + 1 :
             /\ i \notin DOMAIN panelsMeta
             /\ \A j \in 1 .. i - 1 : j \in DOMAIN panelsMeta

AddPanel(place) ==
    /\ picking = Adding
    /\ confirm = Nothing
    /\ place \in dummies
    /\ OnPanelsEnabledChanged(Append(panelsEnabled, [id |-> FreeId, place |-> place]),
                              panelCount)
    /\ DestroyDummies
    /\ clash' = (clash \/ \E e \in overlooked : e.id = FreeId \/ e.place = place)
    /\ UNCHANGED <<confirm, miscounted>>

\* The first entry with the id; none is left when the panel was removed.
EntryOf(id) == {k \in DOMAIN panelsEnabled :
                  /\ panelsEnabled[k].id = id
                  /\ \A j \in 1 .. k - 1 : panelsEnabled[j].id # id}

MovePanel(place) ==
    /\ picking \notin {Adding, Nothing}
    /\ confirm = Nothing
    /\ place \in dummies
    /\ OnPanelsEnabledChanged(
          [k \in DOMAIN panelsEnabled |-> IF k \in EntryOf(picking)
                                          THEN [panelsEnabled[k] EXCEPT !.place = place]
                                          ELSE panelsEnabled[k]],
          panelCount)
    /\ DestroyDummies
    /\ clash' = (clash \/ \E e \in overlooked : e.place = place)
    /\ UNCHANGED <<confirm, miscounted>>

\* "Remove" in the context menu of a panel opens a modal dialog first.
AskToRemove(id) ==
    /\ confirm = Nothing
    /\ id \in DOMAIN panels
    /\ confirm' = id
    /\ UNCHANGED <<monitorCount, panelsEnabled, panels, panelsMeta, panelCount,
                   canAdd, dummies, picking, histories>>

KeepPanel ==
    /\ confirm # Nothing
    /\ confirm' = Nothing
    /\ UNCHANGED <<monitorCount, panelsEnabled, panels, panelsMeta, panelCount,
                   canAdd, dummies, picking, histories>>

\* A removed panel is counted out here, whether it still exists or not.
RemovePanel ==
    /\ confirm # Nothing
    /\ confirm' = Nothing
    /\ OnPanelsEnabledChanged(
          IF EntryOf(confirm) = {} THEN panelsEnabled
          ELSE RemoveAt(panelsEnabled, CHOOSE k \in EntryOf(confirm) : TRUE),
          panelCount - 1)
    /\ miscounted' = IF confirm \in DOMAIN panels THEN miscounted ELSE miscounted + 1
    /\ clash' = (clash \/ \E e \in overlooked : e.place \in dummies)
    /\ UNCHANGED <<dummies, picking>>

\* Wrong: a panel whose monitor is back is not made again.
ReconsiderExisting(r, id) ==
    IF id \in DOMAIN r.panels /\ r.meta[id][1] >= r.monitors
    THEN [r EXCEPT !.panels = Removing(@, {id}), !.count = @ - 1] ELSE r

(***************************************************************************)
(* updatePanelsMeta: a known panel gets the monitor that the key gives its *)
(* id, the last entry of several; not the edge.                            *)
(***************************************************************************)
UpdatePanelsMeta(meta, list) ==
    [i \in DOMAIN meta |->
        LET of == {k \in DOMAIN list : list[k].id = i}
        IN  IF of = {} THEN meta[i] ELSE <<list[Max(of)].place[1], meta[i][2]>>]

(***************************************************************************)
(* _onMonitorsChanged, for each panel the manager knows: made when it has  *)
(* none and its monitor is there again, destroyed when its monitor is not. *)
(* What it knows of them stays, so that their order does not matter.       *)
(***************************************************************************)
Reconsider(r, id) ==
    IF id \notin DOMAIN r.panels
    THEN IF r.meta[id][1] < r.monitors THEN LoadPanel(r, id, r.meta[id], r.monitors) ELSE r
    ELSE IF r.meta[id][1] >= r.monitors
         THEN [r EXCEPT !.panels = Removing(@, {id}), !.count = @ - 1]
         ELSE [r EXCEPT !.panels[id] = r.meta[id]]

\* The monitors that are there, n of them, may be as many as before.
MonitorsChanged(n) ==
    LET meta == UpdatePanelsMeta(panelsMeta, panelsEnabled)
        r == FoldLeft(Reconsider,
                      [panels |-> panels, meta |-> meta, count |-> panelCount, monitors |-> n],
                      SetToSeq(DOMAIN meta))
    IN  /\ monitorCount' = n
        /\ panels' = r.panels
        /\ panelsMeta' = meta
        /\ panelCount' = r.count
        /\ canAdd' = HasRoom(r.count, n)
        /\ dummies' = IF picking = Nothing THEN {} ELSE FreePlaces(meta, n)
        /\ UNCHANGED <<panelsEnabled, picking, confirm, histories>>

(***************************************************************************)
(* _fullPanelLoad, with n monitors: an entry whose monitor is not there is *)
(* ignored, neither loaded nor known until the key changes.                *)
(***************************************************************************)
FullPanelLoad(n) ==
    FoldLeft(LAMBDA r, e : IF e.place[1] >= n THEN r ELSE LoadPanel(r, e.id, e.place, n),
             [panels |-> <<>>, meta |-> <<>>, count |-> 0],
             InitialPanels)

\* No id and no place is in the key twice.
KeySound(list) ==
    \A j, k \in DOMAIN list :
        list[j].id = list[k].id \/ list[j].place = list[k].place => j = k

PanelsInit ==
    /\ monitorCount \in 1 .. MaxMonitors
    /\ panelsEnabled = InitialPanels
    /\ panels = FullPanelLoad(monitorCount).panels
    /\ panelsMeta = FullPanelLoad(monitorCount).meta
    /\ panelCount = FullPanelLoad(monitorCount).count
    /\ canAdd = HasRoom(panelCount, monitorCount)
    /\ dummies = {}
    /\ picking = Nothing
    /\ confirm = Nothing
    /\ overlooked = {e \in Range(InitialPanels) : ~IsConnected(e.place)}
    /\ clash = ~KeySound(InitialPanels)
    /\ miscounted = 0

Places == (0 .. MaxMonitors - 1) \X Edges

\* What a user does in the shell.
AddedOrMoved == \E place \in Places : AddPanel(place) \/ MovePanel(place)

PanelsNext ==
    \/ AddPanelQuery
    \/ \E id \in DOMAIN panels : MovePanelQuery(id)
    \/ CloseDummies
    \/ AddedOrMoved
    \/ \E id \in DOMAIN panels : AskToRemove(id)
    \/ KeepPanel
    \/ RemovePanel
    \/ \E n \in 1 .. MaxMonitors : MonitorsChanged(n)

PanelsSpec == PanelsInit /\ [][PanelsNext]_panelVars

-----------------------------------------------------------------------------
(***************************************************************************)
(* Properties                                                              *)
(***************************************************************************)

\* After any sequence of additions, moves, removals and monitor changes, no id and no
\* place is in the key twice, and the panels are exactly those of the key whose monitor
\* is connected, at its places: a panel whose monitor comes back is made again, and no
\* panel stays on a monitor that is gone.  Excepted are the entries that the start
\* overlooked because their monitor was missing, until the key changes; and nothing is
\* said once a user could give a panel the id or the place of one of them, which the
\* manager takes for free (_onPanelsEnabledChanged, _onMonitorsChanged and the key).
PanelsAsEnabled ==
    LET seen == Range(panelsEnabled) \ overlooked
    IN  ~clash => /\ KeySound(panelsEnabled)
                  /\ DOMAIN panels = {e.id : e \in {x \in seen : IsConnected(x.place)}}
                  /\ \A e \in seen : IsConnected(e.place) => panels[e.id] = e.place

\* canAdd, which lets the menus add and move panels, says whether some edge of
\* some connected monitor has no panel ("Whether there is space for more panels
\* to be added", panel.js:389), although panelCount is kept by hand in three places;
\* and the count is too low by one for each panel that was removed when it had gone
\* with its monitor already.
RoomIsKnown == canAdd <=> HasRoom(Cardinality(DOMAIN panels) - miscounted, monitorCount)

\* No two panels lie on the same edge, and none lies where a dummy offers a place,
\* also when panels are removed or monitors change while dummies are shown.
NoOverlap ==
    /\ \A i, j \in DOMAIN panels : i # j => panels[i] # panels[j]
    /\ \A i \in DOMAIN panels : panels[i] \notin dummies

\* The places are known: the room that is left, and those that are taken or offered
\* (panelCount and canAdd, addPanelQuery and movePanelQuery), with the same exception.
PlacesSound == ~clash => RoomIsKnown /\ NoOverlap

\* "Ignore, but don't remove. Less monitors can be a temporary condition."
\* (panel.js:447): a panel of the key whose monitor is connected, be it later, is there.
\* The code does not keep this of the entries that the start overlooked.
MissingMonitorIsTemporary ==
    \A e \in Range(panelsEnabled) : IsConnected(e.place) => e.id \in DOMAIN panels
=============================================================================
