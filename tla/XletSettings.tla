---------------------------- MODULE XletSettings ----------------------------
(***************************************************************************)
(* The settings of one xlet (settings.js): a JSON file that the shell, on  *)
(* behalf of the xlet, and a settings window, another process, both write  *)
(* as a whole from what they have read before.  The window removes the     *)
(* file, writes it and calls the shell over D-Bus; the shell replaces the  *)
(* file and the window's file monitor finds out, two seconds later.  The   *)
(* schema of the xlet may be replaced on disk by that of a newer version.  *)
(*                                                                         *)
(* A settings datum is [version, value]: the checksum of the schema it was *)
(* made from and the value of each key.  A setting is a number with a      *)
(* range ("scale") or a choice among options ("combobox"), the two types   *)
(* whose value an upgrade examines; the range of a number is that of every *)
(* version and of every file, so that no widget has to clamp a value.      *)
(***************************************************************************)
EXTENDS Naturals, Sequences

CONSTANTS Schemas,    \* version -> key -> [min, max, default] or [options, default]
          NoFile, Off, Closed, Idle

Versions == 1 .. Len(Schemas)

Keys(v) == DOMAIN Schemas[v]

IsChoice(setting) == "options" \in DOMAIN setting

\* What a widget lets the user pick, and the xlet's own code keeps to.
Offered(v, k) ==
    IF IsChoice(Schemas[v][k]) THEN Schemas[v][k].options
    ELSE Schemas[v][k].min .. Schemas[v][k].max

ASSUME SchemasAssumption ==
    /\ Len(Schemas) \in Nat \ {0}
    /\ \A v \in Versions : \A k \in Keys(v) :
         Offered(v, k) \subseteq Nat /\ Schemas[v][k].default \in Offered(v, k)

VARIABLES
    installed,  \* the version of the xlet on disk
    file,       \* what the file holds, or NoFile
    code,       \* the version of the xlet that runs
    shell,      \* settingsData of the xlet, or Off: it does not run
    told,       \* the value of each key that the xlet saw last
    window,     \* settings of the window, or Closed
    built,      \* the version whose widgets the window shows
    job,        \* Idle, or what the window is in the middle of
    event,      \* the monitor has seen a change that is not delivered
    timer,      \* timeout_id: none, started, or due after two seconds
    unread      \* the window has written what the shell has not read

vars == <<installed, file, code, shell, told, window, built, job, event, timer, unread>>

IsData(d) == \E v \in Versions : d \in [version : {v}, value : [Keys(v) -> Nat]]

Timers == {"none", "started", "due"}

Jobs == [what : {"set", "replace"}, at : {"removed", "written"}]

ASSUME NothingAssumption ==
    ~IsData(NoFile) /\ ~IsData(Off) /\ ~IsData(Closed) /\ Idle \notin Jobs

----------------------------------------------------------------------------
(* The shell *)

\* A number at an end of its range is not sane: the comparison is strict.
CheckSanity(val, setting) ==
    IF IsChoice(setting) THEN val \in setting.options
    ELSE val < setting.max /\ val > setting.min

Default(v) == [version |-> v, value |-> [k \in Keys(v) |-> Schemas[v][k].default]]

DoUpgrade(old, v) ==
    [version |-> v,
     value |-> [k \in Keys(v) |->
        IF k \in DOMAIN old.value /\ CheckSanity(old.value[k], Schemas[v][k])
        THEN old.value[k] ELSE Schemas[v][k].default]]

\* What _ensureSettingsFiles leaves in memory and in the file.
Ensured ==
    IF file = NoFile THEN Default(installed)
    ELSE IF file.version = installed THEN file
    ELSE DoUpgrade(file, installed)

\* A change of the file that an open window hears of.
Seen == event' = (window # Closed)

\* Only a change that was made is written, and so heard of.
SaveToFile(new) ==
    /\ file' = new
    /\ unread' = FALSE
    /\ IF file = new THEN UNCHANGED event ELSE Seen

XletLoads ==
    /\ shell = Off
    /\ code' = installed
    /\ shell' = Ensured
    /\ told' = Ensured.value
    /\ SaveToFile(Ensured)
    /\ UNCHANGED <<installed, window, built, job, timer>>

\* finalize, or a shell that restarts.
XletUnloads ==
    /\ shell # Off
    /\ shell' = Off
    /\ UNCHANGED <<installed, file, code, told, window, built, job, event, timer, unread>>

\* _setValue: the xlet's own code keeps to the ranges it was written for.
XletSets ==
    /\ shell # Off
    /\ \E k \in Keys(code) \cap DOMAIN shell.value : \E val \in Offered(code, k) :
        /\ shell.value[k] # val
        /\ shell' = [shell EXCEPT !.value[k] = val]
        /\ told' = [told EXCEPT ![k] = val]
        /\ file' = shell'
        /\ unread' = FALSE
        /\ Seen
    /\ UNCHANGED <<installed, code, window, built, job, timer>>

\* A slip: the loop ends with the first key that has changed.
CheckSettingsFirst(old, new) ==
    LET changed == {k \in DOMAIN told : k \in DOMAIN new.value /\ k \in DOMAIN old.value
                                            /\ new.value[k] # old.value[k]}
    IN  IF changed = {} THEN told
        ELSE LET first == CHOOSE k \in changed : TRUE
             IN  [told EXCEPT ![first] = new.value[first]]

\* _checkSettings tells the xlet of each key whose value has changed.
CheckSettings(old, new) ==
    [k \in DOMAIN told |->
        IF k \in DOMAIN new.value /\ k \in DOMAIN old.value
              /\ new.value[k] # old.value[k]
        THEN new.value[k] ELSE told[k]]

\* The xlet is updated on disk; it runs on until it is reloaded.
SchemaUpdated ==
    /\ installed < Len(Schemas)
    /\ installed' = installed + 1
    /\ UNCHANGED <<file, code, shell, told, window, built, job, event, timer, unread>>

----------------------------------------------------------------------------
(* The settings window *)

WindowOpens ==
    /\ window = Closed /\ file # NoFile
    /\ window' = file
    /\ built' = file.version
    /\ job' = Idle /\ event' = FALSE /\ timer' = "none"
    /\ UNCHANGED <<installed, file, code, shell, told, unread>>

\* The user closes it, which the main loop sees, or it is killed in mid save.
WindowGoes ==
    /\ window # Closed
    /\ window' = Closed
    /\ job' = Idle /\ event' = FALSE /\ timer' = "none"
    /\ UNCHANGED <<installed, file, code, shell, told, built, unread>>

\* save_settings up to the removal: pause_monitor drops the timer.
SaveSettings(new, what) ==
    /\ window' = new
    /\ timer' = "none"
    /\ file' = NoFile
    /\ event' = TRUE
    /\ job' = [what |-> what, at |-> "removed"]
    /\ UNCHANGED <<installed, code, shell, told, built, unread>>

\* set_value, from a widget that was built when the window opened.
WindowSets ==
    /\ window # Closed /\ job = Idle
    /\ \E k \in Keys(built) \cap DOMAIN window.value : \E val \in Offered(built, k) :
        /\ window.value[k] # val
        /\ SaveSettings([window EXCEPT !.value[k] = val], "set")

\* reset_to_defaults and load_from_file, which save without notify_callback.
ResetToDefaults ==
    /\ window # Closed /\ job = Idle
    /\ SaveSettings(Default(window.version), "replace")

\* What a file of some version, that was exported before, gives a key.
Importable(k) == UNION {Offered(v, k) : v \in {w \in Versions : k \in Keys(w)}}

\* The keys that the file does not have keep their values.
LoadFromFile ==
    /\ window # Closed /\ job = Idle
    /\ \E value \in [DOMAIN window.value -> UNION {Importable(k) : k \in DOMAIN window.value}] :
        /\ \A k \in DOMAIN value : value[k] \in Importable(k) \cup {window.value[k]}
        /\ SaveSettings([window EXCEPT !.value = value], "replace")

Write ==
    /\ job # Idle /\ job.at = "removed"
    /\ file' = window
    /\ event' = TRUE
    /\ unread' = TRUE
    /\ job' = IF job.what = "set" THEN [job EXCEPT !.at = "written"] ELSE Idle
    /\ UNCHANGED <<installed, code, shell, told, window, built, timer>>

\* A slip: a file of another version is left to the next load.
RemoteUpdateSameVersion ==
    IF shell = Off \/ file = NoFile \/ file.version # shell.version
    THEN UNCHANGED <<shell, told, unread>>
    ELSE /\ shell' = file
         /\ told' = CheckSettings(shell, file)
         /\ unread' = FALSE

\* remoteUpdate, or the error of a call for an xlet that is not there.
RemoteUpdate ==
    IF shell = Off \/ file = NoFile THEN UNCHANGED <<shell, told, unread>>
    ELSE /\ shell' = file
         /\ told' = CheckSettings(shell, file)
         /\ unread' = FALSE

\* A slip: the monitor is made anew after the call, and has seen nothing.
NotifyDbusRemonitored ==
    /\ job # Idle /\ job.at = "written"
    /\ RemoteUpdate
    /\ job' = Idle
    /\ event' = FALSE
    /\ UNCHANGED <<installed, file, code, window, built, timer>>

\* updateSetting is a synchronous call: the window waits for it to return.
NotifyDbus ==
    /\ job # Idle /\ job.at = "written"
    /\ RemoteUpdate
    /\ job' = Idle
    /\ UNCHANGED <<installed, file, code, window, built, event, timer>>

\* on_file_changed removes the timer and starts it anew, also one that is due.
OnFileChanged ==
    /\ window # Closed /\ job = Idle /\ event
    /\ event' = FALSE /\ timer' = "started"
    /\ UNCHANGED <<installed, file, code, shell, told, window, built, job, unread>>

TwoSecondsPass ==
    /\ timer = "started"
    /\ timer' = "due"
    /\ UNCHANGED <<installed, file, code, shell, told, window, built, job, event, unread>>

\* check_settings reads the file.
TimerFires ==
    /\ window # Closed /\ job = Idle /\ timer = "due"
    /\ timer' = "none"
    /\ window' = file
    /\ UNCHANGED <<installed, file, code, shell, told, built, job, event, unread>>

----------------------------------------------------------------------------

\* A session starts with an xlet that is installed and has no settings yet.
Init ==
    /\ installed = 1 /\ code = 1
    /\ file = NoFile
    /\ shell = Off
    /\ told = Default(1).value
    /\ window = Closed /\ built = 1 /\ job = Idle
    /\ event = FALSE /\ timer = "none" /\ unread = FALSE

Next ==
    \/ XletLoads \/ XletUnloads \/ XletSets \/ SchemaUpdated
    \/ WindowOpens \/ WindowGoes \/ WindowSets \/ ResetToDefaults \/ LoadFromFile
    \/ Write \/ NotifyDbus \/ OnFileChanged \/ TwoSecondsPass \/ TimerFires

(***************************************************************************)
(* The window's own steps are those of its main loop, which runs, and of a *)
(* save that has begun.  A timer becomes due when the file rests for two   *)
(* seconds; one that changes before starts it anew, as often as it does.   *)
(* Nothing else need ever happen.                                          *)
(***************************************************************************)
Fairness == WF_vars(Write) /\ WF_vars(NotifyDbus) /\ WF_vars(OnFileChanged)
            /\ WF_vars(~event /\ TwoSecondsPass) /\ WF_vars(TimerFires)

Spec == Init /\ [][Next]_vars /\ Fairness

----------------------------------------------------------------------------
(* Properties *)

TypeOK ==
    /\ installed \in Versions /\ code \in Versions /\ built \in Versions
    /\ file # NoFile => IsData(file)
    /\ shell # Off => IsData(shell)
    /\ window # Closed => IsData(window)
    /\ told \in [Keys(code) -> Nat]
    /\ job \in Jobs \cup {Idle}
    /\ {event, unread} \subseteq BOOLEAN /\ timer \in Timers

(***************************************************************************)
(* Three copies of the settings are one.  Outside of a save the file is    *)
(* there for the window; a window that has no change to hear of has what   *)
(* the file holds; a shell that was told of what the window wrote has it   *)
(* too.  Each writes the whole file from its own copy, so a copy that is   *)
(* out of date without knowing it undoes what the other one has set        *)
(* (save_settings and _saveToFile).                                        *)
(***************************************************************************)
WindowAgrees ==
    window # Closed /\ job = Idle => event \/ timer # "none" \/ window = file

ShellAgrees ==
    shell # Off /\ file # NoFile /\ job = Idle => unread \/ shell = file

CopiesAgree == WindowAgrees /\ ShellAgrees

(***************************************************************************)
(* The xlet's callbacks have told it every value that its settings hold,   *)
(* also of the keys that the window's call was not about: a window that    *)
(* had not read what the xlet wrote reverts it (_checkSettings).           *)
(***************************************************************************)
XletKnows ==
    shell # Off =>
        \A k \in DOMAIN shell.value \cap DOMAIN told : told[k] = shell.value[k]

(***************************************************************************)
(* What the user sets in the window reaches the xlet when the window's     *)
(* call returns, unless the xlet wrote the file meanwhile (set_value,      *)
(* notify_dbus, remoteUpdate).                                             *)
(***************************************************************************)
SetReachesXlet ==
    [][NotifyDbus /\ shell # Off /\ unread =>
        \A k \in DOMAIN window.value \cap DOMAIN told' : told'[k] = window.value[k]]_vars

(***************************************************************************)
(* An open window shows what the file holds again and again, whoever wrote *)
(* it, unless changes start a timer anew before it fires, without end: an  *)
(* xlet that writes more often than every two seconds starves the window   *)
(* (on_file_changed, check_settings).                                      *)
(***************************************************************************)
WindowFollows ==
    \/ []<>(window = Closed \/ window = file)
    \/ []<><<OnFileChanged /\ timer # "none">>_vars

(***************************************************************************)
(* The comment in _doUpgrade: 'If the setting already exists, we want to   *)
(* use the old value.'  A value that the new version still offers is kept. *)
(***************************************************************************)
UpgradeKeepsValues ==
    [][XletLoads /\ file # NoFile =>
        \A k \in Keys(installed) :
            k \in DOMAIN file.value /\ file.value[k] \in Offered(installed, k)
                => shell'.value[k] = file.value[k]]_vars
=============================================================================
