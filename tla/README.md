# Laminax: a verification project

Laminax is a desktop shell (a fork of Cinnamon): a compositor plugin in C
(`src/src`) that runs JavaScript (`src/js`), next to settings windows in Python
and a toolkit of its own (`src/src/st`).  All of the JavaScript runs in one
thread: its steps are callbacks of the main loop (signals, D-Bus calls, timers,
ends of animations, completions of asynchronous I/O), and what makes it hard is
their order.  The repository's unit tests cover formatting, markup and URLs
(`src/tests/unit`); none of the state machines below has a test.

This directory models the components whose state machines others rely on,
checks them with TLC and proves properties of them with TLAPS.  Paths in this
file are relative to `src/`.

## 1. Inventory

| component | source | state | operations | what is hard |
|---|---|---|---|---|
| modal stack | `js/ui/main.js`, `src/laminax-global.c` | `modalCount`, `modalActorFocusStack`, grab, input mode, key focus, destroy handlers | `pushModal`, `popModal`, destruction of an owner or of a remembered focus | pops out of order, destruction in the middle, refused grabs, callers that pop too much |
| overview, expo | `js/ui/overview.js`, `js/ui/expo.js` | `_shown`, `_modal`, `visible`, animation; the expo's group | `show`, `hide`, `toggle`, ends of animations | calls during the opposite animation, two accounts of one grab, animations switched off, two of them at once |
| message tray | `js/ui/messageTray.js` | queue, notification on the screen, its state and timer, presence | `_onNotify`, `_onNotificationDestroy`, `_updateState`, timer, ends of animations | updates and destructions at any moment of the display |
| notification daemon | `js/ui/notificationDaemon.js`, sources of `messageTray.js` | `_notifications`, sources, pids, list of expirations and its timer | `NotifyAsync`, `CloseNotification`, pid answers, focus, vanished names, expiration | replacing or closing during a bus call, timers that race destruction |
| xlet loader, extension manager | `js/ui/extension.js`, `js/ui/extensionSystem.js`, `js/misc/fileUtils.js` | array of xlets, cached modules, `runningExtensions`, setting | load, unload, reload, change of the setting | settings that change during an asynchronous load, loads that fail half way |
| polkit agent | `src/laminax-polkit-authentication-agent.c`, `js/ui/polkitAuthenticationAgent.js`, `js/ui/modalDialog.js` | queue and current request in C, current dialog, sessions and retries in JavaScript | request, cancellation, dialog, session signals, retry | C and JavaScript call each other re-entrantly; cancellation is deferred; retries outlive their request |
| end session dialog, modal dialog | `js/ui/endSessionDialog.js`, `js/ui/modalDialog.js`, `js/ui/laminaxDBus.js`, `js/ui/main.js` | state, modal, countdown, inhibitors, `Main.endSessionDialog` | show, close, answer to GetCapabilities, InhibitorsChanged, tick, fades | asynchronous answers and idle callbacks around a close |
| panels | `js/ui/panel.js` | the key panels-enabled, panels, `panelsMeta`, count, dummies | add, move, remove, monitor changes | what is picked or asked while the monitors change; a count kept by hand |
| applet manager | `js/ui/appletManager.js`, `js/ui/applet.js` | the key enabled-applets, definitions, applets on the panels, settings files | change of the key, load, reload, drag, a panel that comes or goes | loads, definitions and panels in any order; a move that is listed as two removals |
| xlet settings | `js/ui/settings.js`, `laminax-settings/bin/JsonSettingsWidgets.py`, `xlet-settings.py` | one file, the shell's copy, the window's copy, what the xlet was told | set on both sides, reset, import, load, update, file monitor, D-Bus call | two processes write a whole file, each from its own copy |
| applications and windows | `src/laminax-app.c`, `src/laminax-app-system.c`, `src/laminax-window-tracker.c` | each application's state and windows, the tables from windows, ids and classes | windows and startup sequences that come and go, a change of class, kind or workspace, desktop files installed and removed | tables in three files that mean one thing; reference counts that decide which object is found again |

Interactions.  The overview, the expo, the dialogs (also those of polkit and of
the session), menus and switchers all push on the one modal stack.  The daemon
creates notifications, sources keep them, and a source's `notify` reaches the
tray; a destroyed notification tells daemon, source and tray through `destroy`
handlers.  The xlet managers watch a key of the settings and are called back by
the loader; the applet manager is also called by the panel manager for every
panel that comes and goes, and tells the settings when an instance is removed
for good.  polkit talks to the C agent, which emits `initiate` and `cancel` to
JavaScript, which calls `complete` back.  The session manager and the settings
window are other processes, which reach the shell over D-Bus and files.  The
window tracker hears from the compositor and hands windows to applications,
whose states the application system lists.

`PROJECT.json` lists the other components with the reason why they are not
modelled: window manager, switchers, desklets, network agent, keyring prompt,
menus, keyboards, gestures, ... and what is rendering or external.  Its
`hazards` are what can go wrong in this code at which line, with the properties
that would show it, or a note on why none does.

## 2. Modules

* **ModalStack** - `main.js`'s stack as one record, so that the `destroy`
  handlers, which TLA+ has to run in connection order and which disconnect each
  other, are a fold over it (`DestroyActor`).  A handler is the actor it is on,
  its kind and the record its closure is over.  Actors that push (`Owners`) and
  actors that only have the focus (`Widgets`) may be destroyed.
  **MCModalStack** adds the symmetry of alike actors.
* **Overview** - EXTENDS ModalStack: the overview is one owner of the stack
  (`Group`), its methods are operators on the record of both, since `show()`
  and `hide()` run to their end in one callback.  `animated`, a choice of each
  step, says whether `ease()` takes time or calls back at once.  `show()` and `hide()` may be
  called in the middle of any animation: D-Bus and the key bindings of the
  window manager do not test `animationInProgress`.  A `show()` before the end of
  the hide animation pushes the overview again; the history `leftover` counts
  those pushes, of which no pop is made.
* **Expo** - EXTENDS Overview: the expo as a second one on the same stack.  It
  makes a group of actors for every `show()`, which is an owner of the stack of
  its own and is destroyed by the end of the hide animation.  A `show()` in the
  middle of an animation replaces the group whose animation still runs, so the
  ends of animations are counted (`pending`); the history `replaced` says that
  it has happened.  The module composes overview, expo and dialogs; `modalVars`, `vars` and `expoVars` are
  what each layer adds.
* **MessageTray** - the tray; `UpdateState` is `_updateState`, every handler is
  an action that ends in it where the code's does.
* **NotificationDaemon** - calls, sources, pids, expirations.  Every call makes
  an `ndata`, identified by its index, because the closures of the code are
  over those objects; a clock in seconds drives the timers, including those
  that the code has forgotten the id of (`orphans`).
* **XletLoader** - loads in two asynchronous phases, the manager of extensions
  on top.  Loads of one uuid are alike, so they are counted, not listed.
* **RequestQueue** - what an agent promises: requests are served one at a time,
  in the order in which they came, each is answered once.
* **PolkitAgent** - the C queue and the JavaScript dialogs in one record,
  because `complete()` starts the next request and its dialog before it
  returns.  A dialog that has not got the grab retries up to
  `MAX_MODAL_RETRIES` times; a deferred cancellation of a request that has been
  freed is a choice of what the memory holds.  `Queue` is the refinement
  mapping to RequestQueue.
* **EndSession** - every dialog the shell makes, with its modal, its countdown
  and the call it waits for; `main` is `Main.endSessionDialog`.  The manager
  shows, closes, answers and inhibits in any order, but for `CloseWaits`: it
  closes no dialog that the shell has yet to show.  The histories `delay` and
  `early` of a dialog say with what its countdown began, and that inhibitors
  were listed before the answer it waits for.
* **Panels** - the panel manager.  A place is a monitor and an edge; `dummies`
  are the places a user may pick, `confirm` is the dialog that asks whether to
  remove a panel.  Monitors may be missing at the start and change at any time,
  also under the dummies and the dialog.  The history `overlooked` has the
  entries whose monitor was missing at the start, `clash` says that another panel
  may have got the id or the place of one, `miscounted` counts the panels that
  were removed after they had gone with their monitor.
* **AppletManager** - EXTENDS Panels: definitions made from the key, the applet
  each of them has, the boxes of the panels.  A load ends by adding every
  instance its panels allow, which is where the loader calls the manager back;
  an instance may throw when it is made or when it is told that it was added
  (`Fault`).  Two loads of one uuid leave two extension objects (`copies`).
* **XletSettings** - the shell, the window and the file.  `job` is the window's
  save, which removes the file, writes it and calls the shell in three steps;
  `event` and `timer` are the window's file monitor, whose timer is started anew
  by every change, becomes due after two seconds and then fires.  `Schemas` holds the
  versions an update brings.
* **WindowTracker** - the tables of the three files in one record, `books`,
  since they call each other synchronously.  An application object is drawn
  from `Pool` and lives as long as a table has it, which is what the reference
  counts do; objects of one desktop file are told apart, since the code can
  make a second one (`Uninstall`, then `Install`).
* **MCModalStack**, **MCPanels**, **MCAppletManager**, **MCXletSettings**,
  **MCWindowTracker** - the constants that a .cfg cannot write.
* **ListLemmas** - lemmas about sequences that the proofs share, and
  **ExpoProofs** (modal stack, overview, expo), **NotificationProofs** (tray,
  daemon), **XletProofs** (loader, settings), **AppletManagerProofs** (panels,
  applets), **PolkitAgentProofs**, **EndSessionProofs**,
  **WindowTrackerProofs** - see 5.

Definitions marked *Mutant* are plausible slips of the same code; each property
is violated by one of them, so no property holds by the shape of its model.

## 3. Runs

| run | result | instance and bounds |
|---|---|---|
| `modal` | pass | 2 owners, one of which may be destroyed and one of which may push twice, 1 widget that may be destroyed; stack up to 3 |
| `overview` | pass | the overview, a dialog and two groups of the expo on one stack of up to 3; animations that take time or none; callers at any time |
| `tray` | pass | 3 notifications, one of them transient, 2 urgencies (normal or lower, and critical) that updates may change |
| `daemon` | pass | 1 sender, 3 calls, timeouts of 1 and 2 s, 3 s, 2 notifications per source |
| `xlet` | pass | 2 extensions, one unreliable, up to 2 loads or activations of one |
| `polkit` | pass | 2 requests, 2 retries |
| `dialog` | pass | 2 dialogs asked for, countdowns of 0, 1 and 2 s, with and without a restart, a manager that answers at any time and closes what it has seen |
| `applets` | pass | 2 monitors of 2 edges, of which one may be missing at first, 2 panels at first; 2 instances of one applet, 1 that is not enabled yet, 1 that throws when added; 2 slots, 3 changes |
| `settings` | pass | 2 versions of an xlet; a number of 0..2, a choice whose options change with the version, a key that only the second version has |
| `settings_doc_upgrade` | violation | the same |
| `panels_doc_missing` | violation | the panels alone, on the same monitors |
| `windows` | pass | a sticky window and a dialog of one process that changes its kind, a dialog of no known process, 1 desktop file with 2 objects, 2 startup sequences |

Why the bounds are enough to be of use.  Three records are the least in which a
removal from the middle shifts two focuses; two owners already interleave push,
double push, pop and destruction.  Two groups are an expo that closes while the
next one could open.  Three notifications give a queue with a head and a tail
behind one on the screen.  Three calls let one notification be replaced around
another one's expiration, and go over the limit of a source.  Two loads of one
uuid can overlap, next to another uuid's entries in the shared lists.  Two
polkit requests are one current and one waiting, which become an answered one
with a left-over dialog and a current one.  Two dialogs are the one that fades
out and the one that Main has.  Two monitors of two edges let a panel lose its
monitor while the other one is moved, and fill up.  Three changes are, for
instance, a drag, a monitor that goes and one that comes back, around the loads,
which are not counted.  Two versions are an update, and downgrades by what is
written afterwards.  Two windows of one process, one of an unknown one and two
objects of one file reach every way in which a window finds an application.
Counters without a bound in the code (calls, time, activations, depth, changes)
have a named bound in a guard (`MaxCalls`, `MaxTime`, `MaxLoads`, `MaxDepth`,
`MaxShows`, `MaxChanges`, `MaxSequences`); the runs of the daemon, of polkit and
of the applets stop when theirs are used up, so deadlock is not checked there.
What needs more is named in 6.

### What the passing runs show

* **modal**: the grab and the input mode follow the stack whatever the order of
  pops and destructions (`GrabFollowsStack`); no dead actor is remembered, no
  handler leaks, and components that pop what was refused to them never leave
  the input held by nobody (`RecordsSound`); the pop that empties the stack
  gives the focus back to who had it first (`EmptyStackRestoresFocus`).
* **overview**: with `show()` and `hide()` in the middle of any animation,
  overview and expo are at rest what their callers last asked for
  (`BothAtRestAsAsked`); neither is shown without its grab, and the only records
  that are left on the stack are those of a `show()` before the end of a hide
  animation (`GrabsAreKnown`); unredirection, panels and input are given back
  through every interruption by the other (`SharedStateBalanced`); requests made
  during the opposite animation are honoured (`RequestsHonoured`).  Of the expo
  most of this ends when a `show()` has replaced its group.
* **tray**: the queue and the screen never share a notification or show a dead
  one, none is lost, what is shown has a timer, a busy user sees critical ones
  only, critical ones stay, others leave.
* **daemon**: ids, sources and pids tell the living from the dead on every way
  to end (`TablesAgree`); the list of expirations is sorted, complete and
  watched by a timer (`ExpirationsSound`).
* **xlet**: what is enabled is loaded and gets active, once, and can be
  disabled; the list of running extensions is right.
* **polkit**: one request at a time, in step between C and JavaScript, which
  can always still be answered; what is taken back is answered; a dialog that is
  refused the input opens or gives its request up; one that is closed for good
  stays closed; and the whole implements RequestQueue (`ServesInOrder`).
* **dialog**: the dialog on the screen has its modal and belongs to Main, its
  countdown runs in front only and answers once (twice if it began at zero), and
  a close closes it.
* **applets**: the panels are those of the key whose monitor is there, but for
  entries that the start overlooked until the key changes (`PanelsAsEnabled`);
  no two are on one edge, and what the manager believes of the room is so but
  for panels that were counted out twice (`PlacesSound`).  The applets on the panels are those of the definitions; none is
  forgotten whatever came last; a move keeps the settings file; what is enabled
  is shown in the end.
* **settings**: each of the two copies is the file's, or its owner will hear of
  it; the xlet was told every value; what is set in the window reaches the
  xlet; an open window shows the file again and again, unless changes restart
  its timer without end (`WindowFollows`).
* **windows**: tables and states agree, a window is in one application's list
  and in none once it is gone, and no application starts for ever.

### What the code does not keep

Two runs show a violation.  `settings_doc_upgrade` checks the comment of
`_doUpgrade` in `settings.js:847`: an upgrade drops a number that is set to an
end of its range (`settings.js:865`).  `panels_doc_missing` checks the comment in
`panel.js:447`, by which fewer monitors can be a temporary condition: an entry
whose monitor is missing at the start is not remembered (`panel.js:446`), so its
panel is not made when the monitor is connected, until the key changes.  The
findings in `PROJECT.json` quote both.

Other statements that the code does not keep are definitions of their modules
which no run checks.  Adding one to the module's .cfg shows its counterexample
(`NothingLeftToDo` needs `FairSpec`, which its .cfg has).

| definition | what happens |
|---|---|
| `TopPopReturnsFocus` (ModalStack) | `popModal` from the middle moves *every* focus above up by one (`main.js:1355`): a later pop of the top gives the focus to another actor than the owner that is the top again |
| `HideReversesShow` (Overview) | a `show()` before the end of the hide animation pushes the overview a second time, and it stays on the modal stack, with the grab, when it is hidden (`overview.js:231`, against `overview.js:316`) |
| `NothingLeftToDo` (MessageTray) | the ends of the animations do not call `_updateState` (`messageTray.js:1013`, `1074`) |
| `ExpiresAtItsTime` (NotificationDaemon) | replacing a notification leaves its old timeout in the list (`notificationDaemon.js:467`) |
| `ActiveIsEnabled` (XletLoader) | an extension disabled during its load becomes active (`extensionSystem.js:121`) |
| `DismissedByUser` (PolkitAgent) | the dialog of an answered request can complete another one (`polkitAuthenticationAgent.js:612`) |
| `NoIncorrectPop` (EndSession) | a restart dialog that cannot restart destroys itself and stays with Main, whose next close pops what is gone (`endSessionDialog.js:199`) |
| `DropKeepsDefinitions` (AppletManager) | a drag saves the entries of the applets that are shown, and loses those whose panel is away or whose extension is loading (`appletManager.js:661`) |

One property, `ClosedAsAsked`, holds only in an environment that its .cfg states,
`CloseWaits = TRUE`: a close that overtakes the idle callback of its show closes
nothing, and the dialog opens afterwards.  Who calls is another process; no other
constant restricts what callers and users do.

Where a known defect would void a whole property, the property names its
condition, and a history variable of the model records it:

* `strayed` (ModalStack): an actor was destroyed while popModal's shift had
  moved, or would move, a remembered focus: the closure clears the wrong record.
  What `RecordsSound` says of focuses and handlers, and
  `EmptyStackRestoresFocus`, hold until then.
* `mispopped` (ModalStack): a component popped what it had not pushed, which
  gives the grab up for everyone; `GrabFollowsStack` holds until then.
* `leftover` (Overview): how often `show()` pushed the overview on top of its own
  grab.  `BothAtRestAsAsked` and `GrabsAreKnown` allow that many records more.
* `replaced` (Expo): `show()` replaced the expo's group in the middle of an
  animation, whose end then befalls the new group.  What the properties say of
  the expo at rest, of unredirection and of the panels holds until then.
* `overlooked`, `clash`, `miscounted` (Panels): the start found no monitor for an
  entry (excepted from `PanelsAsEnabled` until the key changes), another panel
  was given its id or place (both properties hold until then), a panel was
  counted out twice (`PlacesSound` allows for it).
* `delay`, `early` (EndSession): a countdown that began at zero answers twice;
  one that the answer to GetCapabilities starts after a list of inhibitors runs
  behind it.  `DialogSound` allows these two only.
* `failed`, `doubled` (XletLoader): a load failed, after which the unload of
  its object takes another uuid off `runningExtensions` (`splice(-1, 1)`); two
  loads of a uuid overlapped, after which `enable()` was called twice and
  `disable()` can only be called once, since the unload drops the shared module.

And what no property claims, although the models show it:

* Without animations `hide()` of overview and expo syncs the input mode twice
  and sets the normal mode also under another owner.
* The shell is not called for a reset or an import of the settings window; a
  window that is killed between removing and writing the file loses it; a window
  of the old version that writes after an update downgrades the file, which the
  next load upgrades again.
* Two overlapping loads of one applet leave two extension objects, and a reload
  takes the module of both.
* `get_running` misses an application that is STARTING with a window;
  `startup_wm_class_to_app` keeps an application that was removed; a desktop
  file that is removed and installed again gets a second object, and the old
  one, no longer told of startup sequences, may stay STARTING; a dialog on all
  workspaces is given an application once for each.  `OneApp` speaks of windows
  that stay of one kind (`Steady`), and `StartingEnds` of the installed object.

## 4. Fairness

Safety needs none.  Liveness assumes weak fairness of what the main loop and
the compositor do by themselves: ends of animations (`Overview`, `Expo`,
`MessageTray`, `PolkitAgent`, `EndSession`), timers (`MessageTray`,
`PolkitAgent`, `EndSession`), idle callbacks (`PolkitAgent`, `EndSession`), and
the completion of asynchronous reads, with success or failure (`XletLoader`,
`AppletManager`).  In XletSettings it is the settings window's main loop: a save
that has begun is written and announced, a change is heard of, a started timer
becomes due once the file rests for two seconds (the fairness is of
`~event /\ TwoSecondsPass`), and one that is due fires.  Every change starts the
timer anew, also one that is due, so that nothing makes it fire while the file
keeps changing: `WindowFollows` excepts an endless sequence of such restarts.  In WindowTracker it is
the compositor, which completes a startup sequence that nobody does after a
time.  Users, clients, windows, polkit and the session manager are never assumed
to do anything.

Expo writes its fairness as `[]<>guard \/ []<><<A>>_v`, which is weak fairness
with the enabling condition, which is the guard of the action, spelled out: TLC
then need not derive it from the methods that the action goes through.
`ScreenClears` assumes in its own statement that the source does not update for
ever, since an update restarts the display.  Weak fairness is enough everywhere:
a started animation or timer stays enabled until it ends or is taken back.  A
pointer that rests on a notification restarts its timer; the fairness of
`TimerFires` assumes that it does not rest there for ever.

## 5. Proofs

Every invariant and every action property that a run checks is also proved, as
a theorem for every value of the constants that the module's assumption allows:
which sets are subsets of which, what is a natural number, and that "nothing" is
none of the things.  Only `AppletsInvAlways` and the two theorems that follow
from it need more, which they say in their own `ASSUME`: the key has no applet
twice at the start (`Uniq(InitialApplets)`), since definitions are compared by
id.  The configurations of the runs meet it.

An invariant is seldom inductive as it stands.  The proofs have the same plan
throughout: an inductive invariant (`StackInv`, `ExpoInv`, `TrayInv`,
`DaemonInv`, `LoadersInv`, `SettingsInv`, `PanelsInv`, `AppletsInv`, `IInv`), a
lemma per operator that says what it makes of a state in which it may be called,
a lemma per action, and the theorems.  TLC has checked the inductive invariants
on the runs' instances before they were proved.

**Lists.**  `ListLemmas` has what folds and positions need: `NatInduct` derives
induction, for a set in place of a predicate, from the fact that `<` is well
founded; `FoldExists` shows by it that the function exists which `FoldLeft`
chooses, and `FoldSteps` that it takes the elements in order.  So what a fold of
the models computes is proved for lists of any length: the `destroy` handlers of
ModalStack, the enabled and removed uuids of XletLoader, the panels and the
entries of the key in Panels and AppletManager, the notifications of a source.
The rest says what `splice`, `push`, `indexOf` and an insertion do to a list
without duplicates.

**Modal stack, overview and expo** (`ExpoProofs`).  `StackInv` has two layers,
since two defects are recorded in history variables (section 3).  `Base` always
holds: the counter, the records and the handlers that pop, also after a
component has popped what it had not pushed.  What guards the remembered focuses
(`FocusGuarded`: records with a focus and handlers that clear it are one to one)
holds until an actor dies around a shifted focus (`strayed`), the grab
(`Grabbed`) until somebody pops too much (`mispopped`).  The hard case is the
destruction of an actor: its handlers run in connection order, each of them may
disconnect others that are still to run, and popping one record shifts the
focuses of those above.  `Emitted` is what one handler may do (pop the record it
is for, clear the focus that record remembers, or nothing, if it was
disconnected), `Emissions` unrolls the fold into the states in between, and
`EmissionsKeep` says that the whole keeps what each handler keeps.
`ExpoInv` counts how often each actor is on the stack (`Times`), which is what
overview, expo and dialogs need to know of each other: a step of one leaves the
counts of the others alone.  The overview's is its own grab and `leftover`, the
expo's group is there once while it believes in its grab; what a replaced group
leaves behind is somebody else's count.

**Message tray** (`NotificationProofs`).  `NothingLost` counts a notification as
displayed once it was current, so it needs `CurrentDisplayed`; removing one from
the queue needs that it is there once (`QueueDistinct`), and a destroyed one is
only removed there because it is not current (`QueueLive`); `ShownHasTimer` is
broken inside every handler that clears the timer and repaired by the
`_updateState` at its end.  So the proof has two levels, `PreSound` (everything
but the timer) and `Sound` (with it): `UpdateStateSound` says that
`_updateState` takes the first to the second.  `BusyShowsOnlyCritical` and
`CriticalStays`, which are about steps, need `busy = dnd` besides (`StepInv`).
`UpdateStateEffect` says what `_updateState` may bring up and what it may hide;
an event then ends in it on the same screen (`SameScreenStep`), ends in it with
an updated notification (`UpdatingStep`), or does not call it (`PlainStep`).

**Notification daemon** (`NotificationProofs`).  `ExpirationsSound` says that a
timer comes in time for the head of the list when everything in it is alive;
that alone is not inductive, since a notification that waits for its sender's
pid is in the list and becomes alive by the answer.  `Watched` therefore says it
as long as there is hope for every entry (it is alive, or a call that is still
under way may show it), and that a timer which comes in time while somebody
waits is not yet due, since it fires after the answer.  Without that, a timer
that fires on a head without a Notification, where the code throws, could be
the last one.  The other parts are which ndata an id refers to (`Refs`), that an
id is one sender's (`OneSender`), and how entries and Notifications live and die
together (`Lives`).  `Holding(d, gone)` and `PidBut(d, those)` are the sources'
lists and the pids with an exception: inside `pushNotification` the arriving
notification lives and is not in the list yet, the oldest one is out of the list
and still lives, and a pid is remembered before its sender has a source.
`DestroyAllGood` takes all notifications of a source away, whichever are chosen.

**Xlet loader** (`XletProofs`).  `LoaderSound` says per uuid, unless two of its
loads have overlapped, that it has at most one object, is enabled once, and is
either there with its module or being loaded once (`KnownOrLoading`); and, unless
a load failed, that the list of running extensions has what is active.
`EnabledIsLoaded` is part of the invariant, as a change of the setting loads
what was enabled anew and unloads what no longer is, one uuid after the other
(`Present` is what a step for one uuid leaves alone for the others).

**Xlet settings** (`XletProofs`).  `XletKnows` alone is not inductive:
`_checkSettings` says nothing of a key that the shell's old copy lacks, so a copy
of another version could bring back a value that the xlet was never told.
`VersionsKept` is why it does not: once the shell has taken over the window's
version, nobody holds the other one.

**Panels and applets** (`AppletManagerProofs`).  `PanelsInv` says, until a
clash, that ids and places of the key are distinct (`KeySound`), that the known
panels are those of the key that the start has not overlooked (`KnownBut`), that
those are there whose monitor is (`ThereAre`), and that the count which the
manager keeps by hand is their number but for those counted out twice.  A key
that has an id or a place twice is such a clash from the start.  A change of the
key takes the old panels over one by one, in the middle of which a known panel
may be away and a count be wrong: `KnownUpTo` is what holds after the first `k`
entries, `AfterKey` what holds at the end, when nothing is overlooked any more.
`AppletsInv` is per definition (`AppletSound`): it is turned as its panel is, its
applet is on that panel, and it has one if its module is loaded, its panel exists
and nothing throws.  Every step of the applets is a step of the panel manager
(`PanelsOfApplets`), so its results carry over.  `ConfigKept` is an action
property and needs types only.

**Polkit agent.**  `PolkitAgentProofs` proves `AgentSound` and
`CurrentCanBeAnswered` for any set of requests and any number of retries.
`complete()` starts the next request before it returns, so the operators call
each other in states where the current dialog has already given its answer:
`Base` holds of the queue and each dialog throughout, `Pre` adds what holds
while the answer is given, and `Sound` that the current dialog is the current
request's and can answer.  Each operator has a lemma from one level to the
next.  The same module proves the refinement, `ServesInOrder`, and
`ClosedStaysClosed`.  Each operator, and so each step, does nothing to the
queue (`Same`), answers the current request and lets the next one in
(`Finishes`), answers one that waits (`Withdraws`) or appends one (`Arrives`),
and leaves the dialogs that are closed for good closed (`RestKept`).

**End session dialog.**  `EndSessionProofs` proves `DialogSound` for any number
of dialogs, any countdown, also of zero seconds, and a manager that answers and
closes when it likes.  The invariant `Kept` is per dialog; its part about a dialog whose
capabilities have not been answered yet is what rules out a countdown behind a
close.

**Applications and windows.**  `WindowTrackerProofs` proves `BooksBalance` and
`OneApp` for any windows, desktop files and pool of objects.  Its invariant is
`Sound` of the books and `AllFiled`, which says per window whose list it is in.
Each operation on the books has a lemma: it keeps `Sound`, and changes the
entries of one window at most (`RestKept`) or of none (`AllKept`), which
`FilesKeep` turns into `AllFiled`.  `CollectKeeps` is the case that is easy to
get wrong: an object that no table has any more must have no window.

**Only model-checked** are the liveness properties: `RequestsHonoured`,
`ScreenClears`, `EnabledGetsActive`, `CancelHonoured`, `OpensOrGivesUp`,
`ClosedAsAsked`, `EnabledGetsShown`, `WindowFollows` and `StartingEnds`.
Fairness and ENABLED are out of the prover's reach.  So are the library's
theorems that take an operator as a parameter, which is why the induction of
`ListLemmas` is over sets, and operators declared RECURSIVE, which is why the
models use folds and recursive functions.  The bounds that the guards name
(`MaxCalls`, `MaxTime`, `MaxLoads`, ...) are constants of the theorems too, which
therefore hold for every bound, but of behaviours within it.

## 6. Not modelled, and limits

* Drawing, texts, icons, sizes, CSS, logging.
* MessageTray: the counts of a source, `_lock` (never called) and the pointer.
* NotificationDaemon: rewriting rules, tray icon sources, two applications of
  one sender; clients replace their own notifications only.
* XletLoader: the metadata's checks, the `!` prefix, roles (extensions have
  none), stylesheets; a uuid that is not installed.
* PolkitAgent: unregistration (before any request), the synchronous end of a
  session that is cancelled, which starts a session without handlers that
  nobody sees, and the exact life of a dialog that was destroyed: when a timer
  opens it again it may get the grab or be refused it, as any other.
* Overview and Expo: the contents and thumbnails, and the option `toScale` of the
  expo's `hide()`, which no caller passes.
* EndSession: texts, buttons that only send a message to the manager, and
  `_fadeOutDialog` of the modal dialog, which no code of the shell calls.
* Panels: hiding, struts, corners, barriers, icon sizes, the layout of the
  chrome; logical and X numbers of monitors are the same.
* AppletManager: roles, the dialog about an applet that does not suit its panel,
  menu items, copying and pasting (no caller); loads that fail before the
  applets are made (XletLoader has them).
* XletSettings: bindings by name, values that are objects, a second window, the
  old location of the files; the two processes' steps are atomic between their
  system calls.
* WindowTracker: the focused application, windows of sandboxed, remote and Gtk
  applications, groups and startup ids as ways to find one, removal of
  workspaces, launching and searching.
* Not started: the window manager's effects, the switchers, menus and drag and
  drop, desklets, search providers, the network agent, the keyring prompt, key
  bindings, input methods, gestures.  `PROJECT.json` has the reason for each.
  A great part of the source is drawing: the St toolkit, the applets' user
  interface, thumbnails, tooltips.  It keeps no state that a property could be
  about, so the models cover a small share of the lines.
* More than two polkit requests, extensions or senders are not run.

## 7. Plan

Done, in this order: ModalStack, Overview, MessageTray and its proofs,
NotificationDaemon, XletLoader, PolkitAgent; then RequestQueue with the proof
that PolkitAgent implements it, Expo on the stack of the overview, EndSession,
Panels with AppletManager on top, XletSettings and WindowTracker, with the
proofs of EndSession, XletSettings and WindowTracker; then the proofs of the
modal stack with overview and expo, of the loader, of panels and applets and of
the daemon.

What would come next:

1. The network agent as a second implementation of an abstract agent, with one
   dialog per request; the keyring prompt after it.
2. The window manager's effects and their pending lists; the switchers and the
   menu managers as owners of ModalStack.
3. An abstract tray (at most one on the screen, by urgency) and MessageTray
   shown to implement it; daemon and tray composed.
