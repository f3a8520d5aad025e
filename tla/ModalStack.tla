----------------------------- MODULE ModalStack -----------------------------
(***************************************************************************)
(* The modal stack of the shell: pushModal, popModal and _findModal of     *)
(* js/ui/main.js with the compositor grab of src/laminax-global.c under    *)
(* them.  A component that wants all input pushes an actor; the first push *)
(* takes the compositor's grab and the last pop returns it.  Every record  *)
(* remembers the key focus of the moment it was pushed, and two signal     *)
(* handlers guard it: one on the pushed actor (its destruction pops it)    *)
(* and one on the remembered focus (its destruction clears the record).    *)
(*                                                                         *)
(* The state is one record, so that the handlers that a destruction runs   *)
(* can be folded over it in the order in which they were connected.        *)
(***************************************************************************)
EXTENDS Integers, SequencesExt, FiniteSets

CONSTANTS
    Owners,       \* actors that components push on the stack
    Widgets,      \* actors that only ever hold the key focus
    Destroyable,  \* the actors that may be destroyed
    Nobody,       \* "null": no actor
    MaxDepth      \* bound on the depth of the stack

ASSUME ModalAssumption ==
    /\ Destroyable \subseteq Owners \cup Widgets
    /\ Owners \cap Widgets = {}
    /\ Nobody \notin Owners \cup Widgets
    /\ MaxDepth \in Nat \ {0}

Actors == Owners \cup Widgets

VARIABLES
    modal,      \* the state of main.js and of the compositor's grab, see ModalInit
    alive,      \* the actors that are not destroyed
    stageFocused, \* meta_stage_is_focused: the X server focuses the stage
    origFocus,  \* history: the key focus when the stack last was empty
    mispopped,  \* history: a component popped what it had not pushed
    strayed     \* history: an actor was destroyed around shifted focuses

modalVars == <<modal, alive, stageFocused, origFocus, mispopped, strayed>>

(***************************************************************************)
(* A handler is [on, kind, rid]: connected to the 'destroy' signal of on,  *)
(* a closure over the record rid.                                          *)
(***************************************************************************)
ModalInit(focus) ==
    [modalCount |-> 0,
     stack      |-> <<>>,      \* modalActorFocusStack, bottom first
     handlers   |-> <<>>,      \* the destroy handlers, in connection order
     keyFocus   |-> focus,     \* stage.get_key_focus()
     hasModal   |-> FALSE,     \* LaminaxGlobal.has_modal
     inputMode  |-> "normal",
     unredirect |-> 0]         \* outstanding disable_unredirect calls

Handler(on, kind, rid) == [on |-> on, kind |-> kind, rid |-> rid]

Connect(m, h) == [m EXCEPT !.handlers = Append(@, h)]
Disconnect(m, h) == [m EXCEPT !.handlers = RemoveFirst(@, h)]

\* The identity of a new record object: any identity nothing refers to.
NewRid(m) ==
    LET used == {m.stack[i].rid : i \in DOMAIN m.stack}
                \cup {m.stack[i].focusDestroyId : i \in DOMAIN m.stack}
                \cup {m.handlers[i].rid : i \in DOMAIN m.handlers}
    IN  CHOOSE r \in 1..(Cardinality(used) + 1) : r \notin used

FindModal(m, actor) == SelectInSeq(m.stack, LAMBDA r : r.actor = actor)

-----------------------------------------------------------------------------
(* Compositor: laminax_global_begin_modal and end_modal. *)

EndModal(m, sf) ==
    IF ~m.hasModal THEN m
    ELSE [m EXCEPT !.hasModal = FALSE,
                   !.keyFocus = IF sf THEN @ ELSE Nobody]

\* pushModal after the grab is there; it cannot fail from here on.
PushRecord(m, actor) ==
    LET rid  == NewRid(m)
        rec  == [rid |-> rid, actor |-> actor, focus |-> m.keyFocus,
                 pushFocus |-> m.keyFocus,  \* history: never changes
                 focusDestroyId |-> IF m.keyFocus = Nobody THEN 0 ELSE rid]
        own  == Connect(m, Handler(actor, "pop", rid))
        both == IF m.keyFocus = Nobody THEN own
                ELSE Connect(own, Handler(m.keyFocus, "focus", rid))
    IN  [both EXCEPT !.inputMode = "fullscreen",
                     !.modalCount = @ + 1,
                     !.stack = Append(@, rec),
                     !.keyFocus = actor]

\* begin_modal fails when there is a grab already, or when the plugin
\* refuses it (granted = FALSE); only the first push asks for one.
PushSucceeds(m, granted) == m.modalCount = 0 => ~m.hasModal /\ granted

PushModal(m, actor, granted) ==
    IF ~PushSucceeds(m, granted) THEN m
    ELSE IF m.modalCount > 0 THEN PushRecord(m, actor)
    ELSE PushRecord([m EXCEPT !.hasModal = TRUE, !.unredirect = @ + 1], actor)

-----------------------------------------------------------------------------
(* popModal *)

\* The record is on top: the key focus goes back to what it remembers.
PopTop(m) ==
    LET r == Last(m.stack)
        d == IF r.focusDestroyId = 0 THEN m
             ELSE Disconnect(m, Handler(r.focus, "focus", r.focusDestroyId))
    IN  [d EXCEPT !.keyFocus = r.focus, !.stack = Front(@)]

\* Mutant: the shift loop stops one record early.
PopMiddleShiftsShort(m, i) ==
    LET n == Len(m.stack)
        t == m.stack[n]
        d == IF t.focus = Nobody THEN m
             ELSE Disconnect(m, Handler(t.focus, "focus", t.focusDestroyId))
        shifted == [k \in 1..n |->
                      IF k <= i + 1 THEN m.stack[k]
                      ELSE [m.stack[k] EXCEPT
                              !.focus = m.stack[k - 1].focus,
                              !.focusDestroyId = m.stack[k - 1].focusDestroyId]]
    IN  [d EXCEPT !.stack = RemoveAt(shifted, i)]

\* Mutant: the record is removed and the focuses stay where they are.
PopMiddleWithoutShift(m, i) == [m EXCEPT !.stack = RemoveAt(@, i)]

\* The record is in the middle: the remembered focuses move one record up.
PopMiddle(m, i) ==
    LET n == Len(m.stack)
        t == m.stack[n]
        d == IF t.focus = Nobody THEN m
             ELSE Disconnect(m, Handler(t.focus, "focus", t.focusDestroyId))
        shifted == [k \in 1..n |->
                      IF k <= i THEN m.stack[k]
                      ELSE [m.stack[k] EXCEPT
                              !.focus = m.stack[k - 1].focus,
                              !.focusDestroyId = m.stack[k - 1].focusDestroyId]]
    IN  [d EXCEPT !.stack = RemoveAt(shifted, i)]

\* "incorrect pop": the grab is given up, the stack and the count stay.
IncorrectPop(m, sf) ==
    [EndModal([m EXCEPT !.keyFocus = Nobody], sf)
       EXCEPT !.inputMode = "normal"]

Uncount(m, r) ==
    Disconnect([m EXCEPT !.modalCount = @ - 1], Handler(r.actor, "pop", r.rid))

\* Mutant: the input mode is not reset.
ReleaseInFullscreen(m, sf) == [EndModal(m, sf) EXCEPT !.unredirect = @ - 1]

\* What popModal does when it has emptied the stack.
Release(m, sf) ==
    [EndModal(m, sf) EXCEPT !.inputMode = "normal", !.unredirect = @ - 1]

PopModal(m, actor, sf) ==
    LET i == FindModal(m, actor)
        c == Uncount(m, m.stack[i])
        p == IF i = Len(m.stack) THEN PopTop(c) ELSE PopMiddle(c, i)
    IN  IF i = 0 THEN IncorrectPop(m, sf)
        ELSE IF p.modalCount > 0 THEN p
        ELSE Release(p, sf)

-----------------------------------------------------------------------------
(* Destruction of an actor: its handlers run in connection order, without  *)
(* those that an earlier one disconnected, and go with the actor; the      *)
(* stage then drops a key focus that was on it.                            *)

RunHandler(m, h, sf) ==
    IF ~Contains(m.handlers, h) THEN m
    ELSE IF h.kind = "pop" THEN
        IF FindModal(m, h.on) > 0 THEN PopModal(m, h.on, sf) ELSE m
    ELSE [m EXCEPT !.stack = [k \in DOMAIN @ |->
            IF @[k].rid = h.rid
            THEN [@[k] EXCEPT !.focus = Nobody, !.focusDestroyId = 0]
            ELSE @[k]]]

DestroyActor(m, actor, sf) ==
    LET Emit(s, h) == IF h.on = actor THEN Disconnect(RunHandler(s, h, sf), h) ELSE s
    IN  [FoldLeft(Emit, m, m.handlers) EXCEPT !.keyFocus = IF @ = actor THEN Nobody ELSE @]

-----------------------------------------------------------------------------
Init ==
    /\ alive = Actors
    /\ origFocus \in Widgets \cup {Nobody}
    /\ stageFocused \in BOOLEAN
    /\ modal = ModalInit(origFocus)
    /\ mispopped = FALSE
    /\ strayed = FALSE

\* origFocus follows the key focus for as long as the stack is empty.
TrackFocus == origFocus' = IF modal'.stack = <<>> THEN modal'.keyFocus ELSE origFocus

PushOwner(a) ==
    /\ a \in alive
    /\ modal.modalCount < MaxDepth
    /\ \E granted \in BOOLEAN : modal' = PushModal(modal, a, granted)
    /\ UNCHANGED <<alive, stageFocused, origFocus, mispopped, strayed>>

\* A component takes the input: its push may be refused.
Push(a) == FindModal(modal, a) = 0 /\ PushOwner(a)

\* A component takes the input a second time: the overview and the expo can
\* (see Overview), and their actors are never destroyed.
PushAgain(a) == a \notin Destroyable /\ FindModal(modal, a) > 0 /\ PushOwner(a)

\* A component that holds the input gives it back.
Pop(a) ==
    /\ FindModal(modal, a) > 0
    /\ modal' = PopModal(modal, a, stageFocused)
    /\ TrackFocus
    /\ UNCHANGED <<alive, stageFocused, mispopped, strayed>>

\* A component pops although its push was refused (lookingGlass.js:279
\* does not look at the result of pushModal, and pops at line 354).
PopUnpushed(a) ==
    /\ a \in alive
    /\ FindModal(modal, a) = 0
    /\ modal' = PopModal(modal, a, stageFocused)
    /\ mispopped' = TRUE
    /\ TrackFocus
    /\ UNCHANGED <<alive, stageFocused, strayed>>

\* No record holds a focus that popModal moved there, nor will one but the
\* topmost: each focus is still guarded by the closure of its own record.
Unshifted(m) ==
    /\ Len(m.stack) <= 2
    /\ \A r \in ToSet(m.stack) : r.focusDestroyId \in {0, r.rid}

Destroy(a) ==
    /\ a \in Destroyable \cap alive
    /\ alive' = alive \ {a}
    /\ modal' = DestroyActor(modal, a, stageFocused)
    /\ strayed' = (strayed \/ ~Unshifted(modal))
    /\ TrackFocus
    /\ UNCHANGED <<stageFocused, mispopped>>

\* The user or a component moves the key focus to a widget.
MoveFocus(w) ==
    /\ w \in (Widgets \cap alive) \cup {Nobody}
    /\ w # modal.keyFocus
    /\ modal' = [modal EXCEPT !.keyFocus = w]
    /\ TrackFocus
    /\ UNCHANGED <<alive, stageFocused, mispopped, strayed>>

\* The X server moves the focus from or to the stage's window.
FocusStage ==
    /\ stageFocused' = ~stageFocused
    /\ UNCHANGED <<modal, alive, origFocus, mispopped, strayed>>

Next ==
    \/ \E a \in Owners : Push(a) \/ PushAgain(a) \/ Pop(a) \/ PopUnpushed(a)
    \/ \E a \in Actors : Destroy(a)
    \/ \E w \in Widgets \cup {Nobody} : MoveFocus(w)
    \/ FocusStage

Spec == Init /\ [][Next]_modalVars

-----------------------------------------------------------------------------
(* Properties *)

Record == [rid : Nat, actor : Owners, focus : Actors \cup {Nobody},
           pushFocus : Actors \cup {Nobody}, focusDestroyId : Nat]

ModalState == [modalCount : Nat,
               stack      : Seq(Record),
               handlers   : Seq([on : Actors, kind : {"pop", "focus"}, rid : Nat]),
               keyFocus   : Actors \cup {Nobody},
               hasModal   : BOOLEAN,
               inputMode  : {"normal", "fullscreen"},
               unredirect : Int]

\* Every part of the state keeps its shape.
TypeInv ==
    /\ modal \in ModalState /\ modal.modalCount <= MaxDepth
    /\ alive \subseteq Actors
    /\ origFocus \in Widgets \cup {Nobody}
    /\ stageFocused \in BOOLEAN
    /\ mispopped \in BOOLEAN /\ strayed \in BOOLEAN

\* "Ensure we are in a mode where all keyboard and mouse input goes to the
\* stage": as long as every component pops only what it pushed, in whatever
\* order, and whichever owners die on the way, the grab and the input mode
\* are on exactly while something is on the stack.
GrabFollowsStack ==
    ~mispopped =>
        /\ modal.hasModal = (modal.stack # <<>>)
        /\ modal.inputMode = IF modal.stack = <<>> THEN "normal" ELSE "fullscreen"

\* Even with components that pop what they never pushed, the input is never
\* held with nothing on the stack, the count is that of the stack, and window
\* unredirection is not disabled twice or left disabled.
NoGrabWithoutOwner ==
    /\ modal.modalCount = Len(modal.stack)
    /\ modal.stack = <<>> => ~modal.hasModal /\ modal.inputMode = "normal"
    /\ modal.unredirect = (IF modal.stack = <<>> THEN 0 ELSE 1)

\* "The effect will be undone when an equal number of popModal() invocations
\* have been made": whatever the order of the pops and destructions, the one
\* that empties the stack gives the key focus back to the actor that had it
\* before the first push (or to nobody, when the stage lost the X focus).
EmptyStackRestoresFocus ==
    [][modal.stack # <<>> /\ modal'.stack = <<>> /\ ~mispopped /\ ~strayed' =>
         modal'.keyFocus = IF stageFocused /\ origFocus \in alive' THEN origFocus
                           ELSE Nobody]_modalVars

\* "If this invocation is undoing the topmost invocation, then the focus will
\* be restored to the previous focus at the time when pushModal() was invoked":
\* when the stack comes back to the owner that had the focus when the popped
\* one was pushed, that owner has it again.
TopPopReturnsFocus ==
    [][LET popped == Last(modal.stack)
       IN  /\ modal.stack # <<>> /\ modal'.stack # <<>>
           /\ [i \in DOMAIN modal'.stack |-> modal'.stack[i].rid]
                = [i \in 1..(Len(modal.stack) - 1) |-> modal.stack[i].rid]
           /\ popped.pushFocus = Last(modal'.stack).actor
           => modal'.keyFocus = popped.pushFocus]_modalVars

\* No record remembers a destroyed actor, which popModal would then hand to
\* set_key_focus: the destroy handlers and the shift of popModal keep the
\* records clear of them.  After a destruction around shifted focuses it is not
\* so: the closure that the shift has moved clears the record it was made for.
NoDanglingFocus ==
    ~strayed => \A i \in DOMAIN modal.stack : modal.stack[i].focus \in alive \cup {Nobody}

\* No pop leaks a signal handler: each handler belongs to a record that is on
\* the stack and that could still disconnect it.
NoLeakedHandler ==
    ~strayed => \A h \in ToSet(modal.handlers) : \E r \in ToSet(modal.stack) :
        \/ h = Handler(r.actor, "pop", r.rid)
        \/ h = Handler(r.focus, "focus", r.focusDestroyId)

\* The records and the handlers that guard them belong together, in every state,
\* whatever was popped out of turn and whoever died, and so do the records, the
\* counters and the grab (pushModal, popModal).
RecordsSound == TypeInv /\ NoDanglingFocus /\ NoLeakedHandler /\ NoGrabWithoutOwner

=============================================================================
