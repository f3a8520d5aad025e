------------------------------ MODULE XletLoader ------------------------------
(***************************************************************************)
(* The xlets of js/ui/extension.js, for the extensions that                *)
(* js/ui/extensionSystem.js manages: a setting lists the enabled uuids, a  *)
(* change of it unloads those that were removed and loads the others.  A   *)
(* load reads the metadata and the module asynchronously, and the settings *)
(* may change, or the xlet be reloaded, before it is done; it may fail on  *)
(* the way.                                                                *)
(*                                                                         *)
(* The modules of an xlet are kept by their path (js/misc/fileUtils.js),   *)
(* so that two loads of one uuid share one; extensions have no roles.      *)
(***************************************************************************)
EXTENDS Integers, SequencesExt

CONSTANTS
    Uuids,      \* the installed extensions
    Unreliable, \* those whose load may fail
    MaxLoads    \* bound on the loads of one uuid under way or enabled

ASSUME LoaderAssumption ==
    IsFiniteSet(Uuids) /\ Unreliable \subseteq Uuids /\ MaxLoads \in Nat \ {0}

VARIABLES
    setting,    \* the enabled-extensions key
    enabledExtensions, \* what the manager has read of it
    started,    \* the first loads are done, and the key is watched
    loads,      \* the number of loads under way, by uuid and phase
    extensions, \* the array of xlet objects, [uuid, state]
    running,    \* runningExtensions
    module,     \* the uuids whose module is in LoadedModules
    active,     \* the calls of enable() that disable() has not undone, by uuid
    failed,     \* history: the uuids a load of which failed
    doubled     \* history: the uuids of which two loads were under way at once

loaderVars == <<setting, enabledExtensions, started, loads, extensions, running,
          module, active, failed, doubled>>

Phases == {"metadata", "module"}

Has(x, u) == \E i \in DOMAIN x : x[i].uuid = u

\* getIndex(extensions, 'uuid', uuid), and that of a uuid in the list of those running;
\* 0 for -1.
ObjectIndex(x, u) == SelectInSeq(x, LAMBDA e : e.uuid = u)
RunningIndex(r, u) == SelectInSeq(r, LAMBDA v : v = u)

Known(u) == Has(extensions, u)
LoadsOf(l, u) == l[u]["metadata"] + l[u]["module"]
Loading(u) == LoadsOf(loads, u) > 0

-----------------------------------------------------------------------------
(* Loading.  [x |-> extensions, l |-> loads, ...]: the part of the state   *)
(* that the functions pass on.                                             *)

State == [x |-> extensions, l |-> loads, r |-> running, m |-> module,
          a |-> active, d |-> doubled]

\* new Extension(type, uuid): what is in the array is not loaded again, what is
\* still being loaded is.
StartLoad(s, u) ==
    IF Has(s.x, u) THEN s
    ELSE [s EXCEPT !.l[u]["metadata"] = @ + 1,
                   !.d = IF LoadsOf(s.l, u) > 0 THEN @ \cup {u} ELSE @]

\* initEnabledExtensions
LoadAll(s, uuids) ==
    FoldLeft(LAMBDA t, u : StartLoad(t, u), s, uuids)

\* prepareExtensionUnload: disable() is called if the module is there, and the
\* uuid is taken off the list of those running; when it is not on the list,
\* splice(-1, 1) takes the last one off.
Disable(s, u) ==
    LET i == RunningIndex(s.r, u)
    IN  [s EXCEPT !.a[u] = IF u \in s.m /\ @ > 0 THEN @ - 1 ELSE @,
                  !.r = IF i > 0 THEN RemoveAt(@, i)
                        ELSE IF @ # <<>> THEN Front(@) ELSE @]

\* Mutant: the object stays in the array.
ForgetKeepsObject(s, i) == [s EXCEPT !.m = @ \ {s.x[i].uuid}]

\* forgetExtension(extensionIndex, uuid, type, true)
Forget(s, i) == [s EXCEPT !.x = RemoveAt(@, i), !.m = @ \ {s.x[i].uuid}]

\* unloadExtension: the first object with the uuid.
Unload(s, u) ==
    LET i == ObjectIndex(s.x, u)
    IN  IF i = 0 THEN s ELSE Forget(Disable(s, u), i)

\* unloadRemovedExtensions: an unload for each object of a removed uuid.
UnloadRemoved(s, uuids) ==
    FoldLeft(LAMBDA t, x : IF x.uuid \in uuids THEN t ELSE Unload(t, x.uuid), s, s.x)

Becomes(s) ==
    /\ extensions' = s.x /\ loads' = s.l /\ running' = s.r
    /\ module' = s.m /\ active' = s.a /\ doubled' = s.d

WithinBound == \A u \in Uuids : LoadsOf(loads', u) + active'[u] <= MaxLoads

-----------------------------------------------------------------------------
(* Actions *)

LoaderInit ==
    /\ setting \in SUBSET Uuids
    /\ enabledExtensions = setting
    /\ started = FALSE
    /\ loads = [u \in Uuids |-> [p \in Phases |->
                  IF p = "metadata" /\ u \in setting THEN 1 ELSE 0]]
    /\ extensions = <<>>
    /\ running = <<>>
    /\ module = {}
    /\ active = [u \in Uuids |-> 0]
    /\ failed = {}
    /\ doubled = {}

\* The promises of init() are settled: the changes of the key are watched.
Started ==
    /\ ~started
    /\ \A u \in Uuids : ~Loading(u)
    /\ started' = TRUE
    /\ UNCHANGED <<setting, enabledExtensions, loads, extensions, running,
                   module, active, failed, doubled>>

\* onEnabledExtensionsChanged, once the key is watched.
SettingChanges(u) ==
    LET new == IF u \in setting THEN setting \ {u} ELSE setting \cup {u}
    IN  /\ setting' = new
        /\ UNCHANGED <<started, failed>>
        /\ IF started
           THEN /\ enabledExtensions' = new
                /\ Becomes(LoadAll(UnloadRemoved(State, new), SetToSeq(new)))
                /\ WithinBound
           ELSE UNCHANGED <<enabledExtensions, extensions, loads, running,
                            module, active, doubled>>

\* Mutant: the load is started before the unload.
ReloadLoadsFirst(u) ==
    /\ u \in enabledExtensions
    /\ Becomes(Unload(StartLoad(State, u), u))
    /\ WithinBound
    /\ UNCHANGED <<setting, enabledExtensions, started, failed>>

\* reloadExtension, on request of the settings or of the looking glass.
Reload(u) ==
    /\ u \in enabledExtensions
    /\ Becomes(StartLoad(Unload(State, u), u))
    /\ WithinBound
    /\ UNCHANGED <<setting, enabledExtensions, started, failed>>

\* The metadata is read and valid, the subdirectory found; the module is read.
MetadataLoaded(u) ==
    /\ loads[u]["metadata"] > 0
    /\ loads' = [loads EXCEPT ![u]["metadata"] = @ - 1, ![u]["module"] = @ + 1]
    /\ UNCHANGED <<setting, enabledExtensions, started, extensions, running,
                   module, active, failed, doubled>>

\* logError: the first object of the uuid, which may be another load's, is an error.
MarkError(x, u) ==
    LET i == ObjectIndex(x, u)
    IN  IF i = 0 THEN x ELSE [x EXCEPT ![i].state = "error"]

\* A load fails before its object is pushed.  forgetExtension(uuid, type) has no
\* index and does nothing, so that a module that was read, but lacks a function,
\* stays.
LoadFails(u, p) ==
    /\ u \in Unreliable
    /\ loads[u][p] > 0
    /\ loads' = [loads EXCEPT ![u][p] = @ - 1]
    /\ module' \in (IF p = "module" THEN {module, module \cup {u}} ELSE {module})
    /\ extensions' = MarkError(extensions, u)
    /\ failed' = failed \cup {u}
    /\ UNCHANGED <<setting, enabledExtensions, started, running, active, doubled>>

\* Mutant: the uuid is pushed before enable() and the list of those running is
\* left to a later step.
FinishUnlisted(s, u) ==
    [s EXCEPT !.x = Append(@, [uuid |-> u, state |-> "loaded"]),
              !.m = @ \cup {u},
              !.a[u] = @ + 1]

\* The module is there, the object is pushed, and finishExtensionLoad has called
\* init() and enable().
Finish(s, u) ==
    [s EXCEPT !.x = Append(@, [uuid |-> u, state |-> "loaded"]),
              !.m = @ \cup {u},
              !.a[u] = @ + 1,
              !.r = Append(@, u)]

ModuleLoaded(u) ==
    /\ loads[u]["module"] > 0
    /\ Becomes(Finish([State EXCEPT !.l[u]["module"] = @ - 1], u))
    /\ UNCHANGED <<setting, enabledExtensions, started, failed>>

\* init() or enable() throws: the object is in the array and stays there.
EnableFails(u) ==
    /\ u \in Unreliable
    /\ loads[u]["module"] > 0
    /\ loads' = [loads EXCEPT ![u]["module"] = @ - 1]
    /\ extensions' = MarkError(Append(extensions, [uuid |-> u, state |-> "error"]), u)
    /\ module' = module \cup {u}
    /\ failed' = failed \cup {u}
    /\ UNCHANGED <<setting, enabledExtensions, started, running, active, doubled>>

LoadProceeds(u) ==
    MetadataLoaded(u) \/ ModuleLoaded(u) \/ EnableFails(u) \/ \E p \in Phases : LoadFails(u, p)

LoaderNext ==
    \/ Started
    \/ \E u \in Uuids : SettingChanges(u) \/ Reload(u) \/ LoadProceeds(u)

\* The files are read in the end.
LoaderFairness ==
    /\ WF_loaderVars(Started)
    /\ \A u \in Uuids : WF_loaderVars(LoadProceeds(u))

LoaderSpec == LoaderInit /\ [][LoaderNext]_loaderVars /\ LoaderFairness

-----------------------------------------------------------------------------
(* Properties *)

\* Every variable keeps its range.
LoaderTypeOK ==
    /\ setting \subseteq Uuids /\ enabledExtensions \subseteq Uuids
    /\ started \in BOOLEAN
    /\ loads \in [Uuids -> [Phases -> 0 .. MaxLoads]]
    /\ extensions \in Seq([uuid : Uuids, state : {"loaded", "error"}])
    /\ running \in Seq(Uuids)
    /\ module \subseteq Uuids
    /\ active \in [Uuids -> 0 .. MaxLoads]
    /\ failed \subseteq Unreliable /\ doubled \subseteq Uuids

\* What is enabled is there or on its way, whatever was switched off and on or
\* reloaded meanwhile, unless its load failed.
EnabledIsLoaded ==
    \A u \in enabledExtensions \ failed : Known(u) \/ Loading(u)

\* An enabled extension has one object, hence one enable(), as long as no two
\* loads of it overlap, and it can always be disabled again: its object is in the
\* array and its module is loaded.
ActiveIsKnown ==
    \A u \in Uuids \ doubled :
        /\ \A i, j \in DOMAIN extensions :
             extensions[i].uuid = u /\ extensions[j].uuid = u => i = j
        /\ active[u] = IF [uuid |-> u, state |-> "loaded"] \in ToSet(extensions) THEN 1 ELSE 0
        /\ Known(u) => u \in module

\* The list runningExtensions, which the settings ask for, has each extension that
\* is active, once, and no other; while nothing has failed and no two loads of a
\* uuid have overlapped (after that it is not so: see Disable).
RunningAreActive ==
    failed \cup doubled = {} =>
        /\ ToSet(running) = {u \in Uuids : active[u] > 0}
        /\ IsInjective(running)

\* "this key lists extensions which should be loaded": at rest, what is active is
\* enabled.  It is not so: an extension that is disabled while it is being loaded
\* is not in the array yet, and its load goes on.
ActiveIsEnabled ==
    \A u \in Uuids : active[u] > 0 /\ ~Loading(u) /\ started => u \in enabledExtensions

\* What is enabled gets active in the end, unless it is disabled or fails; a
\* reload, or a load that others overtake, does not keep it from it.
EnabledGetsActive ==
    \A u \in Uuids :
        (u \in enabledExtensions \ Unreliable) ~> (u \notin enabledExtensions \/ active[u] > 0)

\* The lists of the extension manager are those of what runs, in their ranges, and
\* with what runs once and can be disabled.
ListsSound == LoaderTypeOK /\ RunningAreActive /\ ActiveIsKnown

=============================================================================
