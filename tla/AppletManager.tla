---------------------------- MODULE AppletManager ----------------------------
(***************************************************************************)
(* The applet manager of js/ui/appletManager.js on top of the panels: the  *)
(* key enabled-applets, the definitions made from it, the applets made for *)
(* them when their extension has been loaded, and the boxes of the panels  *)
(* that show them.  The key changes, panels come and go, extensions are    *)
(* loaded and reloaded and applets are dragged, in any order.              *)
(*                                                                         *)
(* An applet's slot stands for its zone and its order in the zone.  Left   *)
(* out: the roles, the prefix '!' of a uuid, loads that fail before the    *)
(* applets are made (module XletLoader has them), the dialog about an      *)
(* applet that does not fit its panel, whose answers are edits of the key, *)
(* and copying and pasting a panel's applets, which no menu offers.        *)
(***************************************************************************)
EXTENDS Panels

CONSTANTS Slots,          \* the zones and orders on a panel
          UuidOf,         \* the uuid of each applet instance
          Fault,          \* by instance: "none", or "main" or "added", which throws
          MultiInstance,  \* the uuids whose max-instances is not 1
          InitialApplets, \* enabled-applets as the session finds it
          MaxChanges      \* bound on what users and monitors do

AppletIds == DOMAIN UuidOf
Uuids     == Range(UuidOf)
Sides     == Edges \cup {Nothing}

ASSUME AppletsAssumption ==
    /\ AppletIds \subseteq Nat
    /\ Fault \in [AppletIds -> {"none", "main", "added"}]
    /\ MultiInstance \subseteq Uuids
    /\ Slots \subseteq Nat
    /\ InitialApplets \in Seq([id : AppletIds, panel : Nat, slot : Nat])
    /\ MaxChanges \in Nat

VARIABLES enabledApplets, \* the key: a sequence of [id, panel, slot]
          definitions,    \* as the key, with the side and the applet of each:
                          \* the id of the panel the applet was made for, or Nothing
          boxes,          \* the pairs of an applet and a panel that shows it
          copies,         \* how many extension objects a uuid has
          modules,        \* the uuids whose module is loaded
          loading,        \* how many loads of a uuid are under way
          initial,        \* the uuids whose first load init() still waits for
          started,        \* appletsLoaded, from when on the key is watched
          configs,        \* the instances that have a settings file
          changes         \* what has been done, for the bound

appletVars == <<enabledApplets, definitions, boxes, copies, modules, loading,
                initial, started, configs, changes>>

vars == <<panelVars, appletVars>>

Ids(list) == {list[k].id : k \in DOMAIN list}

\* The entries of the list whose id is one of ids, in their order.
Keeping(list, ids) ==
    FoldLeft(LAMBDA kept, e : IF e.id \in ids THEN Append(kept, e) ELSE kept, <<>>, list)

UuidsIn(list) == {UuidOf[i] : i \in Ids(list)}

\* createApplet: an extension whose module is there, on a panel that exists,
\* and a main() that returns.
CanCreate(d, where) ==
    /\ d.panel \in where
    /\ copies[UuidOf[d.id]] > 0
    /\ UuidOf[d.id] \in modules
    /\ Fault[d.id] # "main"

TakeOff(d) == [d EXCEPT !.applet = Nothing]

PutOn(d) == [d EXCEPT !.applet = d.panel]

Shown(ds) == {<<d.id, d.applet>> : d \in {x \in ds : x.applet # Nothing}}

(***************************************************************************)
(* getDefinitions: a definition that is equal to one of the old ones is    *)
(* that object, with its applet; a panel may be missing, and then there is *)
(* no side.                                                                *)
(***************************************************************************)
Definition(e) ==
    [id     |-> e.id, panel |-> e.panel, slot |-> e.slot,
     side   |-> IF e.panel \in DOMAIN panels THEN panels[e.panel][2] ELSE Nothing,
     applet |-> Nothing]

Equal(a, b) == TakeOff(a) = TakeOff(b)

GetDefinitions(list) ==
    [k \in DOMAIN list |->
        LET old == {d \in Range(definitions) : Equal(d, Definition(list[k]))}
        IN  IF old = {} THEN Definition(list[k]) ELSE CHOOSE d \in old : TRUE]

(***************************************************************************)
(* Of the old definitions, those that moved are taken off first, and then  *)
(* all that are not there any more as they were, which deletes the         *)
(* settings of an instance, unless it is its uuid's only one.              *)
(***************************************************************************)
Moved(new) == {d \in Range(definitions) : d.id \in Ids(new) /\ d \notin Range(new)}

Dropped(new) == {d \in Range(definitions) : d \notin Range(new)}

\* Wrong: the settings go with the first of the two removals of a move.
DeletesConfigOfMoved(new) ==
    {d.id : d \in {x \in Dropped(new) :
                      /\ x.applet # Nothing
                      /\ copies[UuidOf[x.id]] > 0
                      /\ UuidOf[x.id] \in MultiInstance}}

DeletesConfig(new) ==
    {d.id : d \in {x \in Dropped(new) \ Moved(new) :
                      /\ x.applet # Nothing
                      /\ copies[UuidOf[x.id]] > 0
                      /\ UuidOf[x.id] \in MultiInstance}}

\* Wrong: nothing is loaded for a new uuid.
StartNoLoads(list) == UNCHANGED loading

\* initEnabledApplets: what has no extension object is loaded.
StartLoads(list) ==
    loading' = [u \in Uuids |-> IF u \in UuidsIn(list) /\ copies[u] = 0
                                THEN loading[u] + 1 ELSE loading[u]]

OnEnabledAppletsChanged(list) ==
    LET new   == GetDefinitions(list)
        added == {k \in DOMAIN new : /\ new[k] \notin Range(definitions)
                                     /\ CanCreate(new[k], DOMAIN panels)}
        after == [k \in DOMAIN new |-> IF k \in added THEN PutOn(new[k]) ELSE new[k]]
    IN  /\ definitions' = after
        /\ boxes' = (boxes \ Shown(Dropped(new))) \cup {<<after[k].id, after[k].applet>> : k \in added}
        /\ configs' = (configs \ DeletesConfig(new)) \cup {after[k].id : k \in added}
        /\ StartLoads(list)

\* The key is written, by the shell or by the settings window.
WriteKey(list) ==
    /\ changes < MaxChanges
    /\ changes' = changes + 1
    /\ enabledApplets' = list
    /\ IF started THEN OnEnabledAppletsChanged(list)
       ELSE UNCHANGED <<definitions, boxes, configs, loading>>
    /\ UNCHANGED <<panelVars, copies, modules, initial, started>>

\* enable_extension() of the settings window, on a panel of the key; the applets
\* behind the new one move on.
AddApplet(id, panel, slot) ==
    /\ id \notin Ids(enabledApplets)
    /\ panel \in Ids(panelsEnabled)
    /\ WriteKey(Append([k \in DOMAIN enabledApplets |->
                          LET e == enabledApplets[k]
                          IN  IF e.panel = panel /\ e.slot >= slot
                              THEN [e EXCEPT !.slot = @ + 1] ELSE e],
                       [id |-> id, panel |-> panel, slot |-> slot]))

\* removeApplet, after a dialog or a menu has asked.
RemoveApplet(id) ==
    /\ id \in Ids(definitions) \cap Ids(enabledApplets)
    /\ WriteKey(Keeping(enabledApplets, AppletIds \ {id}))

\* disable_extension() of the settings window removes every instance.
DisableUuid(uuid) ==
    /\ uuid \in UuidsIn(enabledApplets)
    /\ WriteKey(Keeping(enabledApplets, {i \in AppletIds : UuidOf[i] # uuid}))

(***************************************************************************)
(* acceptDrop gives the applets of the zone new orders and the dragged one *)
(* a new panel, and saveAppletsPositions writes the key: what has no       *)
(* applet is left out of it.                                               *)
(***************************************************************************)
HasApplet(id) == \E d \in Range(definitions) : d.id = id /\ d.applet # Nothing

SavedPositions(orders, id, panel) ==
    LET saved(e) == IF e.id \notin DOMAIN orders THEN e
                    ELSE [e EXCEPT !.slot  = orders[e.id],
                                   !.panel = IF e.id = id THEN panel ELSE @]
    IN  LET kept == Keeping(enabledApplets, {i \in AppletIds : HasApplet(i)})
        IN  [k \in DOMAIN kept |-> saved(kept[k])]

DropApplet(id, panel) ==
    /\ HasApplet(id)
    /\ panel \in DOMAIN panels
    /\ Ids(enabledApplets) \subseteq Ids(definitions)
    /\ \E orders \in [{id} \cup {b[1] : b \in {x \in boxes : x[2] = panel}} -> Slots] :
          WriteKey(SavedPositions(orders, id, panel))

(***************************************************************************)
(* A load of uuid ends.  finishExtensionLoad adds the applets that are not *)
(* there yet, and stops at the first that fails; the extension object      *)
(* stays in either case.                                                   *)
(***************************************************************************)
Waiting(uuid) == {k \in DOMAIN definitions :
                     /\ UuidOf[definitions[k].id] = uuid
                     /\ definitions[k].applet = Nothing
                     /\ definitions[k].panel \in DOMAIN panels}

\* Wrong: only the first instance of a uuid is added.
ReachedFirst(uuid) == {k \in Waiting(uuid) : \A j \in Waiting(uuid) : k <= j}

Reached(uuid) == {k \in Waiting(uuid) :
                     \A j \in Waiting(uuid) : Fault[definitions[j].id] # "none" => k <= j}

LoadEnds(uuid) ==
    LET made == {k \in Reached(uuid) : Fault[definitions[k].id] # "main"}
    IN  /\ loading[uuid] > 0
        /\ loading' = [loading EXCEPT ![uuid] = @ - 1]
        /\ copies' = [copies EXCEPT ![uuid] = @ + 1]
        /\ modules' = modules \cup {uuid}
        /\ initial' = initial \ {uuid}
        /\ definitions' = [k \in DOMAIN definitions |->
                             IF k \in made THEN PutOn(definitions[k]) ELSE definitions[k]]
        /\ boxes' = boxes \cup {<<definitions[k].id, definitions[k].panel>> : k \in made}
        /\ configs' = configs \cup {definitions[k].id : k \in made}
        /\ UNCHANGED <<panelVars, enabledApplets, started, changes>>

\* init() watches the key when its loads have ended.
Started ==
    /\ ~started
    /\ initial = {}
    /\ started' = TRUE
    /\ UNCHANGED <<panelVars, enabledApplets, definitions, boxes, copies, modules,
                   loading, initial, configs, changes>>

(***************************************************************************)
(* reloadExtension: the first extension object of the uuid is unloaded,    *)
(* with its applets and its module; it is loaded again if there is no      *)
(* other.                                                                  *)
(***************************************************************************)
ReloadXlet(uuid) ==
    /\ changes < MaxChanges
    /\ changes' = changes + 1
    /\ IF copies[uuid] = 0 THEN UNCHANGED <<definitions, boxes, copies, modules>>
       ELSE /\ definitions' = [k \in DOMAIN definitions |->
                                 IF UuidOf[definitions[k].id] = uuid
                                 THEN TakeOff(definitions[k]) ELSE definitions[k]]
            /\ boxes' = boxes \ Shown({d \in Range(definitions) : UuidOf[d.id] = uuid})
            /\ copies' = [copies EXCEPT ![uuid] = @ - 1]
            /\ modules' = modules \ {uuid}
    /\ loading' = [loading EXCEPT ![uuid] = IF copies[uuid] <= 1 THEN @ + 1 ELSE @]
    /\ UNCHANGED <<panelVars, enabledApplets, initial, started, configs>>

(***************************************************************************)
(* What the panel manager has the applets do in one of its steps: those on *)
(* a new panel are added (loadAppletsOnPanel), those on one that moved     *)
(* turn (updateAppletsOnPanel), those on a destroyed one go                *)
(* (unloadAppletsOnPanel).                                                 *)
(***************************************************************************)
LoadAppletsOnPanel(d) ==
    LET turned == [d EXCEPT !.side = panels'[d.panel][2]]
    IN  IF CanCreate(d, DOMAIN panels') THEN PutOn(turned) ELSE turned

KeepSide(d) == d    \* wrong: the applets of a panel that moves do not turn

UpdateAppletsOnPanel(d) == [d EXCEPT !.side = panels'[d.panel][2]]

UnloadAppletsOnPanel(d) == TakeOff(d)

\* A change of the monitors does not call updateAppletsOnPanel for a panel that stays,
\* and need not: such a panel keeps its edge.
AppletsFollow ==
    LET new  == DOMAIN panels' \ DOMAIN panels
        gone == DOMAIN panels \ DOMAIN panels'
        Follow(d) == CASE d.panel \in new -> LoadAppletsOnPanel(d)
                       [] d.panel \in gone -> UnloadAppletsOnPanel(d)
                       [] d.panel \in DOMAIN panels \cap DOMAIN panels' -> UpdateAppletsOnPanel(d)
                       [] OTHER -> d
        added == {d \in Range(definitions) : d.panel \in new /\ CanCreate(d, new)}
    IN  /\ definitions' = [k \in DOMAIN definitions |-> Follow(definitions[k])]
        /\ boxes' = {b \in boxes : b[2] \notin gone} \cup {<<d.id, d.panel>> : d \in added}
        /\ configs' = configs \cup {d.id : d \in added}
        /\ UNCHANGED <<enabledApplets, copies, modules, loading, initial, started>>

Spend == changes < MaxChanges /\ changes' = changes + 1

\* The steps of the panel manager that the applets follow.  The bound counts a
\* change of the monitors, or the opening of a dialog or of the dummies.
PanelStep ==
    /\ \/ \E n \in 1 .. MaxMonitors : MonitorsChanged(n) /\ Spend
       \/ (AddedOrMoved \/ RemovePanel) /\ UNCHANGED changes
    /\ AppletsFollow

\* The panel manager's dialogs and dummies, which no applet sees.
PanelDialogs ==
    /\ \/ /\ \/ AddPanelQuery
             \/ \E id \in DOMAIN panels : MovePanelQuery(id) \/ AskToRemove(id)
          /\ Spend
       \/ (CloseDummies \/ KeepPanel) /\ UNCHANGED changes
    /\ UNCHANGED <<enabledApplets, definitions, boxes, copies, modules, loading,
                   initial, started, configs>>

Init ==
    /\ PanelsInit
    /\ enabledApplets = InitialApplets
    /\ definitions = [k \in DOMAIN InitialApplets |-> Definition(InitialApplets[k])]
    /\ boxes = {}
    /\ copies = [u \in Uuids |-> 0]
    /\ modules = {}
    /\ initial = UuidsIn(InitialApplets)
    /\ loading = [u \in Uuids |-> IF u \in initial THEN 1 ELSE 0]
    /\ started = FALSE
    /\ configs = Ids(InitialApplets)
    /\ changes = 0

Next ==
    \/ \E id \in AppletIds : \E panel \in Ids(panelsEnabled) :
          DropApplet(id, panel) \/ \E slot \in Slots : AddApplet(id, panel, slot)
    \/ \E id \in AppletIds : RemoveApplet(id)
    \/ \E uuid \in Uuids : LoadEnds(uuid) \/ ReloadXlet(uuid) \/ DisableUuid(uuid)
    \/ Started
    \/ PanelStep
    \/ PanelDialogs

\* A load ends: reading a file and evaluating it are not put off for ever, and
\* what init() waits for, it then goes on from.
Fairness == (\A uuid \in Uuids : WF_vars(LoadEnds(uuid))) /\ WF_vars(Started)

Spec == Init /\ [][Next]_vars /\ Fairness

-----------------------------------------------------------------------------
(***************************************************************************)
(* Properties                                                              *)
(***************************************************************************)

\* The applets that the boxes of the panels show are those of the definitions, each
\* on the panel of its definition, which exists: none is shown twice, none is left
\* behind by a change of the key, a drag, a reload, or a panel that goes, and none
\* is held by a definition when its panel is gone.  It is turned to the edge its
\* panel lies on, however the panel came there.
AppletsOnPanels ==
    /\ boxes = Shown(Range(definitions))
    /\ \A d \in Range(definitions) : d.applet \in {Nothing, d.panel}
    /\ \A b \in boxes : b[2] \in DOMAIN panels
    /\ \A d \in Range(definitions) : d.applet # Nothing => d.side = panels[d.applet][2]

FaultlessUuid(uuid) == \A i \in AppletIds : UuidOf[i] = uuid => Fault[i] = "none"

\* When the module of an applet is loaded and its panel exists, the applet is shown:
\* whichever came last of the load, the definition and the panel adds it.
NoAppletForgotten ==
    \A d \in Range(definitions) :
        /\ d.panel \in DOMAIN panels
        /\ UuidOf[d.id] \in modules
        /\ FaultlessUuid(UuidOf[d.id])
        => d.applet # Nothing

\* The settings file of an instance is deleted only when the instance leaves the
\* key: a move, which the code lists as two removals, keeps it.
ConfigKept ==
    [][\A i \in configs \ configs' : i \notin Ids(enabledApplets')]_vars

\* A definition whose panel exists and whose applets do not throw is shown in the
\* end, also when it came while its uuid was being loaded or reloaded; except when
\* two loads of one uuid left two extension objects and a reload took their module.
EnabledGetsShown ==
    \A i \in AppletIds :
        LET wanted == \E d \in Range(definitions) :
                         /\ d.id = i /\ d.panel \in DOMAIN panels
                         /\ FaultlessUuid(UuidOf[i])
                         /\ copies[UuidOf[i]] > 0 => UuidOf[i] \in modules
        IN  wanted ~> (HasApplet(i) \/ ~wanted)

\* "Panel might not exist. Still keep definition for future use."
\* (appletManager.js:170): dragging an applet keeps every entry of the key.
DropKeepsDefinitions ==
    [][(\E i \in AppletIds : \E p \in DOMAIN panels : DropApplet(i, p))
       => Ids(enabledApplets') = Ids(enabledApplets)]_vars
=============================================================================
