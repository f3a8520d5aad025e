------------------------------ MODULE Overview ------------------------------
(***************************************************************************)
(* The overview ("scale") of js/ui/overview.js on top of the modal stack.  *)
(* show() and hide() may be called at any time, by a hot corner, a key, an *)
(* applet, a D-Bus client or a change of monitors, and few of the callers  *)
(* wait for an animation; the animation that follows ends later, in        *)
(* _showDone or _hideDone, and catches up with the calls made meanwhile.   *)
(* Expo composes it with the other owners of the modal stack.              *)
(*                                                                         *)
(* showTemporarily and hideTemporarily have no caller in the shell, so     *)
(* _shownTemporarily is always false and is left out.                      *)
(***************************************************************************)
EXTENDS ModalStack

CONSTANT Group  \* the overview's actor, one of the owners

ASSUME OverviewAssumption == Group \in Owners \ Destroyable

VARIABLES
    overview,  \* the fields of Main.overview, see OverviewInit
    leftover   \* history: how often show() pushed what was pushed already

vars == <<modalVars, overview, leftover>>

OverviewInit ==
    [shown     |-> FALSE,   \* _shown: what the callers asked for
     hasModal  |-> FALSE,   \* _modal
     visible   |-> FALSE,   \* visible
     animation |-> "none",  \* animationInProgress and _hideInProgress
     panels    |-> TRUE]    \* the panels are enabled

-----------------------------------------------------------------------------
(* The methods, on s = [m |-> modal, o |-> overview, f |-> stageFocused].  *)

Animating(s) == s.o.animation # "none"

ReleaseModal(s) ==
    [s EXCEPT !.m = PopModal(@, Group, s.f), !.o.hasModal = FALSE]

\* _syncInputMode.  Its push for an overview that is shown without a grab
\* never happens: show() sets _shown only after its own push (ShownHasModal).
SyncInputMode(s) ==
    IF Animating(s) \/ s.o.shown THEN s
    ELSE IF s.o.hasModal THEN ReleaseModal(s)
    ELSE [s EXCEPT !.m.inputMode = "normal"]

\* Mutant: unredirection is not enabled again.
HiddenRedirected(s) == [s EXCEPT !.o.visible = FALSE, !.o.animation = "none"]

\* What _hideDone undoes before it looks at the calls made meanwhile.
Hidden(s) ==
    [s EXCEPT !.m.unredirect = @ - 1, !.o.visible = FALSE, !.o.animation = "none"]

BeginHide(s) == [s EXCEPT !.o.animation = "hide", !.o.panels = TRUE]

BeginShow(s) ==
    [s EXCEPT !.m.unredirect = @ + 1, !.o.visible = TRUE,
              !.o.animation = "show", !.o.panels = FALSE]

\* Without animations ease() calls back at once, so that _animateNotVisible
\* ends in _hideDone.  It is only called when the overview is to be hidden.
AnimateNotVisible(s, delayed) ==
    IF ~s.o.visible \/ Animating(s) THEN s
    ELSE IF delayed THEN BeginHide(s)
    ELSE SyncInputMode(Hidden(BeginHide(s)))

ShowDone(s, delayed) ==
    LET done == [s EXCEPT !.o.animation = "none"]
    IN  SyncInputMode(IF s.o.shown THEN done ELSE AnimateNotVisible(done, delayed))

\* Without animations _animateVisible ends in _showDone.
AnimateVisible(s, delayed) ==
    IF s.o.visible \/ Animating(s) THEN s
    ELSE IF delayed THEN BeginShow(s)
    ELSE ShowDone(BeginShow(s), delayed)

\* Mutant: a show() of meanwhile is forgotten.
HideDoneForgets(s, delayed) == SyncInputMode(Hidden(s))

HideDone(s, delayed) ==
    LET done == Hidden(s)
    IN  SyncInputMode(IF s.o.shown THEN AnimateVisible(done, delayed) ELSE done)

\* show(): nothing happens when it is shown, or when the push is refused.  It
\* pushes the group again when _syncInputMode has not popped it yet.
ShowOverview(s, granted, delayed) ==
    IF s.o.shown \/ ~PushSucceeds(s.m, granted) THEN s
    ELSE AnimateVisible([s EXCEPT !.m = PushModal(@, Group, granted),
                                  !.o.hasModal = TRUE, !.o.shown = TRUE],
                        delayed)

\* Mutant: hide() pops at once and leaves the rest to the animation.
HideAndPop(s, delayed) ==
    IF ~s.o.shown THEN s
    ELSE LET hiding == AnimateNotVisible([s EXCEPT !.o.shown = FALSE], delayed)
         IN  [hiding EXCEPT !.m = PopModal(@, Group, s.f)]

HideOverview(s, delayed) ==
    IF ~s.o.shown THEN s
    ELSE SyncInputMode(AnimateNotVisible([s EXCEPT !.o.shown = FALSE], delayed))

-----------------------------------------------------------------------------
State == [m |-> modal, o |-> overview, f |-> stageFocused]

Becomes(s) ==
    /\ modal' = s.m
    /\ overview' = s.o
    /\ TrackFocus
    /\ UNCHANGED <<alive, stageFocused, mispopped, strayed>>

InitOverview ==
    /\ Init
    /\ overview = OverviewInit
    /\ leftover = 0

\* Whether ease() takes time or calls back at once depends on settings that may
\* change at any time (environment.js:119-135): each step finds them as they are,
\* animated or not.

\* show(), or toggle() of an overview that is not shown, whatever is animated.
Show ==
    /\ modal.modalCount < MaxDepth
    /\ ~overview.shown
    /\ \E granted, animated \in BOOLEAN : Becomes(ShowOverview(State, granted, animated))
    /\ leftover' = IF overview.hasModal THEN leftover + 1 ELSE leftover

\* hide(), or toggle() of one that is shown; layout.js:338 hides it whenever
\* the monitors change, whatever is animated.
Hide ==
    /\ overview.shown
    /\ \E animated \in BOOLEAN : Becomes(HideOverview(State, animated))
    /\ UNCHANGED leftover

ShowAnimationEnds ==
    /\ overview.animation = "show"
    /\ \E animated \in BOOLEAN : Becomes(ShowDone(State, animated))
    /\ UNCHANGED leftover

HideAnimationEnds ==
    /\ overview.animation = "hide"
    /\ \E animated \in BOOLEAN : Becomes(HideDone(State, animated))
    /\ UNCHANGED leftover

-----------------------------------------------------------------------------
(* Properties *)

HeldByGroup == Cardinality({i \in DOMAIN modal.stack : modal.stack[i].actor = Group})

\* Once nothing is animated, the overview is visible, and on the modal stack,
\* exactly if it is shown.  It is there once, but for the records of the pushes
\* on top of its own: hide() pops one of them, and the others stay.
AtRestAsAsked ==
    overview.animation = "none" =>
        /\ overview.visible = overview.shown
        /\ HeldByGroup = (IF overview.shown THEN 1 ELSE 0) + leftover

\* The overview's own idea of its grab is what the modal stack has: it never
\* shows without it, and the only records that it would not pop are those that
\* a show() before the end of the hide left behind.
GrabIsKnown ==
    /\ overview.shown => overview.hasModal
    /\ HeldByGroup = (IF overview.hasModal THEN 1 ELSE 0) + leftover

\* overview.js:316-318: "hide: Reverses the effect of show()".
HideReversesShow ==
    overview.animation = "none" /\ ~overview.shown => HeldByGroup = 0

=============================================================================
