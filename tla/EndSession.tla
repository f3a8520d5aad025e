----------------------------- MODULE EndSession -----------------------------
(***************************************************************************)
(* A modal dialog (modalDialog.js) and the one the session manager asks    *)
(* for over D-Bus (endSessionDialog.js, main.js, laminaxDBus.js): log out, *)
(* shut down or restart, with a countdown to the default answer.  The      *)
(* manager, another process, shows and closes the dialog, answers          *)
(* GetCapabilities and emits InhibitorsChanged, each when it likes.        *)
(***************************************************************************)
EXTENDS Naturals, Sequences

CONSTANTS
    MaxShows,           \* how often the manager asks for a dialog
    Delays,             \* what quit-time-delay may be, in seconds
    Restarts,           \* what the manager may say of canRestart
    CloseWaits,         \* it closes no dialog that it has not seen
    None

ASSUME ConstantsAssumption ==
    /\ MaxShows \in Nat /\ Delays \subseteq Nat /\ Restarts \subseteq BOOLEAN
    /\ CloseWaits \in BOOLEAN
    /\ None \notin Nat

Modes == {"reboot", "shutdown", "logout"}

VARIABLES
    idle,      \* the modes that idle callbacks will show
    dialogs,   \* every dialog that was made, in order
    main,      \* Main.endSessionDialog: an index of dialogs, or None
    modals,    \* the dialogs on the modal stack
    wanted     \* what the manager asked for last

vars == <<idle, dialogs, main, modals, wanted>>

\* delay and early are histories: the quit-time-delay that it read, and that it
\* listed inhibitors last when GetCapabilities was not answered yet.
Dialog ==
    [mode : Modes, effects : BOOLEAN,
     state : {"CLOSED", "OPENING", "OPENED", "CLOSING"}, hasModal : BOOLEAN,
     gone : BOOLEAN, caps : {"asked", "cancelled", "answered"},
     inhibited : BOOLEAN, early : BOOLEAN, suspend : BOOLEAN, delay : Nat,
     default : BOOLEAN, time : Nat, timer : BOOLEAN, fired : 0 .. 2]

Opened(d) == d.state \in {"OPENING", "OPENED"}

----------------------------------------------------------------------------
(* ModalDialog *)

\* A dialog as _init leaves it.
New(mode, effects, delay) ==
    [mode |-> mode, effects |-> effects, state |-> "CLOSED", hasModal |-> FALSE,
     gone |-> FALSE, caps |-> "asked", inhibited |-> FALSE, early |-> FALSE,
     suspend |-> FALSE, delay |-> delay, default |-> FALSE, time |-> delay, timer |-> FALSE, fired |-> 0]

\* _fadeOpen after a pushModal; an ease without effects ends at once.
FadeOpen(d) ==
    [d EXCEPT !.hasModal = TRUE,
              !.state = IF d.effects THEN "OPENING" ELSE "OPENED"]

\* close of the base class: popModal, then the fade to CLOSED and destroy.
FadeClosed(d) ==
    [d EXCEPT !.hasModal = FALSE,
              !.state = IF d.effects THEN "CLOSING" ELSE "CLOSED",
              !.gone = ~d.effects]

\* A slip: the timer is left to the dialog that is closing.
LetGoTimerLeft(d) == [d EXCEPT !.caps = IF @ = "asked" THEN "cancelled" ELSE @]

\* The close of the end session dialog, before that of the base class.
LetGo(d) ==
    [d EXCEPT !.caps = IF @ = "asked" THEN "cancelled" ELSE @,
              !.timer = FALSE]

\* The pop of a dialog that is not on the stack throws.
IncorrectPop(i) == Opened(dialogs[i]) /\ dialogs[i].hasModal /\ i \notin modals

\* A slip: a dialog that is still opening is not closed.
CloseOpenedOnly(i) ==
    IF dialogs[i].state # "OPENED"
    THEN dialogs' = [dialogs EXCEPT ![i] = LetGo(@)] /\ UNCHANGED modals
    ELSE /\ dialogs' = [dialogs EXCEPT ![i] = FadeClosed(LetGo(@))]
         /\ modals' = modals \ {i}

Close(i) ==
    \/ /\ ~Opened(dialogs[i])
       /\ dialogs' = [dialogs EXCEPT ![i] = LetGo(@)]
       /\ UNCHANGED modals
    \/ /\ Opened(dialogs[i]) /\ ~IncorrectPop(i)
       /\ dialogs' = [dialogs EXCEPT ![i] = FadeClosed(LetGo(@))]
       /\ modals' = modals \ {i}
    \/ /\ IncorrectPop(i)
       /\ dialogs' = [dialogs EXCEPT ![i] = [LetGo(@) EXCEPT !.state = "CLOSING"]]
       /\ UNCHANGED modals

\* The fade of either kind ends: 'opened', or 'closed' and destroy.
EaseDone(i) ==
    /\ ~dialogs[i].gone
    /\ \/ /\ dialogs[i].state = "OPENING"
          /\ dialogs' = [dialogs EXCEPT ![i].state = "OPENED"]
       \/ /\ dialogs[i].state = "CLOSING"
          /\ dialogs' = [dialogs EXCEPT ![i].state = "CLOSED", ![i].gone = TRUE]
    /\ UNCHANGED <<idle, main, modals, wanted>>

----------------------------------------------------------------------------
(* The session manager's calls *)

ShowEndSessionDialog ==
    /\ Len(idle) + Len(dialogs) < MaxShows
    /\ \E mode \in Modes : idle' = Append(idle, mode)
    /\ wanted' = "shown"
    /\ UNCHANGED <<dialogs, main, modals>>

\* The grab may be refused: the dialog is closed, unopened, and dropped.
Show ==
    /\ idle # <<>>
    /\ idle' = Tail(idle)
    /\ UNCHANGED wanted
    /\ \/ main # None /\ UNCHANGED <<dialogs, main, modals>>
       \/ /\ main = None
          /\ \E effects \in BOOLEAN, delay \in Delays :
               LET new == New(Head(idle), effects, delay)
                   i == Len(dialogs) + 1
               IN  \/ /\ dialogs' = Append(dialogs, FadeOpen(new))
                      /\ main' = i
                      /\ modals' = modals \cup {i}
                   \/ /\ dialogs' = Append(dialogs, LetGo(new))
                      /\ UNCHANGED <<main, modals>>

\* A close that throws leaves main as it is.
CloseEndSessionDialog ==
    /\ CloseWaits => idle = <<>>
    /\ wanted' = "closed"
    /\ UNCHANGED idle
    /\ \/ main = None /\ UNCHANGED <<dialogs, main, modals>>
       \/ /\ main # None
          /\ Close(main)
          /\ main' = IF IncorrectPop(main) THEN main ELSE None

----------------------------------------------------------------------------
(* The dialog and its countdown *)

\* _updateProgress: at zero the default answer is given.
UpdateProgress(d) ==
    IF d.time = 0
    THEN [d EXCEPT !.fired = IF d.default THEN @ + 1 ELSE @, !.timer = FALSE]
    ELSE [d EXCEPT !.time = @ - 1]

\* The timer is added also if the countdown was over at once.
AddDelayTimer(d) == [UpdateProgress(d) EXCEPT !.timer = TRUE]

\* The buttons come next to those that are there, whatever they are for.
\* Only a shutdown can lack its default answer, or offer to suspend.
WithChoices(d, canStop, canSuspend) ==
    [d EXCEPT !.caps = "answered",
              !.default = d.mode = "shutdown" => canStop,
              !.suspend = d.mode = "shutdown" /\ canSuspend]

\* An answer that the dialog has cancelled is an error, like a failed call.
GetCapabilities(i) ==
    /\ dialogs[i].caps = "asked" /\ ~dialogs[i].gone
    /\ UNCHANGED <<idle, main, wanted>>
    /\ \/ /\ dialogs' = [dialogs EXCEPT ![i].caps = "answered"]
          /\ UNCHANGED modals
       \/ \E canRestart \in Restarts :
            /\ dialogs[i].mode = "reboot" /\ ~canRestart
            /\ dialogs' = [dialogs EXCEPT ![i].gone = TRUE, ![i].caps = "answered"]
            /\ modals' = modals \ {i}
       \/ /\ dialogs[i].mode = "reboot" => TRUE \in Restarts
          /\ \E canStop, canSuspend, toggle \in BOOLEAN :
               LET d == WithChoices(dialogs[i], canStop, canSuspend)
               IN  dialogs' = [dialogs EXCEPT ![i] =
                                 IF toggle THEN AddDelayTimer(d) ELSE d]
          /\ UNCHANGED modals

PresentInhibitorInfo(i) ==
    dialogs' = [dialogs EXCEPT ![i].inhibited = TRUE, ![i].suspend = FALSE,
                               ![i].timer = FALSE,
                               ![i].early = dialogs[i].caps = "asked"]

\* A list without inhibitors is answered and changes nothing.
InhibitorsChanged(i) ==
    /\ ~dialogs[i].gone /\ Opened(dialogs[i])
    /\ PresentInhibitorInfo(i)
    /\ UNCHANGED <<idle, main, modals, wanted>>

Tick(i) ==
    /\ dialogs[i].timer
    /\ dialogs' = [dialogs EXCEPT ![i] = UpdateProgress(@)]
    /\ UNCHANGED <<idle, main, modals, wanted>>

\* The one button that closes the dialog; main keeps it.
Suspend(i) ==
    /\ dialogs[i].suspend /\ dialogs[i].hasModal /\ ~dialogs[i].gone
    /\ Close(i)
    /\ UNCHANGED <<idle, main, wanted>>

----------------------------------------------------------------------------

Init ==
    /\ idle = <<>> /\ dialogs = <<>>
    /\ main = None /\ modals = {} /\ wanted = "closed"

Next ==
    \/ ShowEndSessionDialog \/ Show \/ CloseEndSessionDialog
    \/ \E i \in DOMAIN dialogs :
         GetCapabilities(i) \/ InhibitorsChanged(i) \/ Tick(i) \/ Suspend(i) \/ EaseDone(i)

(***************************************************************************)
(* The main loop runs its idle callbacks, timers and animations; the       *)
(* manager need not answer, nor the user.                                  *)
(***************************************************************************)
Fairness ==
    /\ WF_vars(Show)
    /\ \A i \in 1 .. MaxShows :
         /\ WF_vars(i \in DOMAIN dialogs /\ EaseDone(i))
         /\ WF_vars(i \in DOMAIN dialogs /\ Tick(i))

Spec == Init /\ [][Next]_vars /\ Fairness

----------------------------------------------------------------------------
(* Properties *)

TypeOK ==
    /\ idle \in Seq(Modes) /\ dialogs \in Seq(Dialog)
    /\ main \in DOMAIN dialogs \cup {None} /\ modals \subseteq DOMAIN dialogs
    /\ wanted \in {"shown", "closed"}

(***************************************************************************)
(* A dialog that is not destroyed holds its modal exactly while it opens   *)
(* or is open, and no two do; so does a dialog that is open on the screen  *)
(* belong to Main, which alone can close it (open, close, popModal,        *)
(* showEndSessionDialog).                                                  *)
(***************************************************************************)
ModalFollowsState ==
    /\ \A i \in DOMAIN dialogs : ~dialogs[i].gone =>
         (dialogs[i].hasModal <=> Opened(dialogs[i])) /\ (dialogs[i].hasModal <=> i \in modals)
    /\ \A i \in modals : i = main

\* What the countdown has answered by the time its timer is added.
AnsweredAtOnce(d) == IF d.delay = 0 /\ d.default THEN 1 ELSE 0

(***************************************************************************)
(* The countdown runs in a dialog that has the input only, never behind    *)
(* one that closes, and behind a list of inhibitors only if the list came  *)
(* before the answer that starts the countdown; it gives the default       *)
(* answer once, at its end, and with a delay of zero seconds both at its   *)
(* start and a second later (_addDelayTimer, _updateProgress,              *)
(* _removeDelayTimer).                                                     *)
(***************************************************************************)
CountdownSound ==
    \A i \in DOMAIN dialogs :
        LET d == dialogs[i]
        IN  /\ d.timer => /\ i \in modals
                          /\ d.inhibited => d.early
                          /\ d.fired = AnsweredAtOnce(d)
            /\ d.fired <= IF d.delay = 0 THEN 2 ELSE 1

DialogSound == ModalFollowsState /\ CountdownSound

(***************************************************************************)
(* 'incorrect pop' in main.js: no dialog that was destroyed is asked to    *)
(* pop the modal it no longer has.  The code does not keep this: a restart *)
(* dialog that cannot restart destroys itself and stays with Main.         *)
(***************************************************************************)
NoIncorrectPop == \A i \in DOMAIN dialogs : ~IncorrectPop(i)

\* A dialog that the user can see.
OnScreen(i) == ~dialogs[i].gone /\ dialogs[i].state # "CLOSED"

(***************************************************************************)
(* A dialog the manager has closed leaves the screen, whatever it was in   *)
(* the middle of, unless the manager asks for another                      *)
(* (closeEndSessionDialog, close).                                         *)
(***************************************************************************)
ClosedAsAsked ==
    wanted = "closed" ~> (wanted = "shown" \/ \A i \in DOMAIN dialogs : ~OnScreen(i))
=============================================================================
