-------------------------------- MODULE Expo --------------------------------
(***************************************************************************)
(* The expo of js/ui/expo.js next to the overview and the dialogs, all of  *)
(* them on one modal stack.  Its machine looks like the overview's and is  *)
(* not: beforeShow() makes a new group of actors for every show(), the     *)
(* hide animation destroys it, and nothing catches up with a show() of     *)
(* meanwhile.  The group that is destroyed leaves the modal stack through  *)
(* popModal or, without animations, through its own destroy handler.       *)
(*                                                                         *)
(* Keys, applets and D-Bus clients call show() whatever is animated        *)
(* (windowManager.js:1387, laminaxDBus.js:306).  beforeShow() then forgets *)
(* the group whose animation runs, and not the end of that animation,      *)
(* which befalls the new group.  No caller passes options.toScale to       *)
(* hide(), which is left out.                                              *)
(***************************************************************************)
EXTENDS Overview

CONSTANT Groups  \* the actors that beforeShow can make

ASSUME ExpoAssumption ==
    /\ Groups \subseteq Owners \ {Group}
    /\ Groups \subseteq Destroyable

VARIABLES
    expo,     \* the fields of Main.expo, see ExpoInit
    pending,  \* the ends of animations that are still to come, of each kind
    replaced  \* history: show() was called before the end of an animation

expoVars == <<vars, expo, pending, replaced>>

ExpoInit ==
    [shown     |-> FALSE,   \* _shown
     hasModal  |-> FALSE,   \* _modal
     visible   |-> FALSE,   \* visible
     animation |-> "none",  \* animationInProgress and _hideInProgress
     group     |-> Nobody]  \* _group

-----------------------------------------------------------------------------
(* The methods, on s = [m |-> modal, o |-> overview, e |-> expo,           *)
(* f |-> stageFocused]; the panels are those of the overview's record.     *)

ExpoAnimating(s) == s.e.animation # "none"

\* _syncInputMode; a group that is gone has left the stack by its handler.
ExpoSync(s) ==
    IF ExpoAnimating(s) \/ s.e.shown THEN s
    ELSE IF s.e.hasModal
    THEN [s EXCEPT !.m = IF s.e.group = Nobody THEN @
                         ELSE PopModal(@, s.e.group, s.f),
                   !.e.hasModal = FALSE]
    ELSE [s EXCEPT !.m.inputMode = "normal"]

\* _hideDone: sync, then the group is destroyed, also when it is a newer one
\* than the group whose hide animation ends.
ExpoHideDone(s) ==
    LET synced == ExpoSync([s EXCEPT !.m.unredirect = @ - 1,
                                     !.e.visible = FALSE, !.e.animation = "none"])
    IN  [synced EXCEPT !.m = DestroyActor(@, s.e.group, s.f), !.e.group = Nobody]

ExpoAnimateNotVisible(s, delayed) ==
    IF ~s.e.visible \/ ExpoAnimating(s) THEN s
    ELSE LET begun == [s EXCEPT !.o.panels = TRUE]
         IN  IF delayed THEN [begun EXCEPT !.e.animation = "hide"]
             ELSE ExpoHideDone(begun)

\* Mutant: a hide() of meanwhile is forgotten.
ExpoShowDoneForgets(s, delayed) == ExpoSync([s EXCEPT !.e.animation = "none"])

ExpoShowDone(s, delayed) ==
    LET done == [s EXCEPT !.e.animation = "none"]
    IN  ExpoSync(IF s.e.shown THEN done ELSE ExpoAnimateNotVisible(done, delayed))

\* hide() sets _shown after _animateNotVisible, which without animations has
\* been through _hideDone by then.
ExpoHideMethod(s, delayed) ==
    IF ~s.e.shown THEN s
    ELSE ExpoSync([ExpoAnimateNotVisible(s, delayed) EXCEPT !.e.shown = FALSE])

\* _animateVisible: the eases start when the expo has been allocated, so that
\* _showDone comes later even without animations.
ExpoAnimateVisible(s) ==
    [s EXCEPT !.m.unredirect = @ + 1, !.o.panels = FALSE,
              !.e.visible = TRUE, !.e.animation = "show"]

\* show(): beforeShow resets every field and makes the group; when the push is
\* refused the group stays behind, hidden and unused.
ExpoShowMethod(s, group, granted) ==
    IF s.e.shown THEN s
    ELSE IF ~PushSucceeds(s.m, granted)
    THEN [s EXCEPT !.e = [ExpoInit EXCEPT !.group = group]]
    ELSE ExpoAnimateVisible(
            [s EXCEPT !.m = PushModal(@, group, granted),
                      !.e = [ExpoInit EXCEPT !.hasModal = TRUE, !.shown = TRUE,
                                             !.group = group]])

-----------------------------------------------------------------------------
ExpoState == [m |-> modal, o |-> overview, e |-> expo, f |-> stageFocused]

\* A group that nothing has any more may be made again.  Where the key focus goes
\* is no question of this module: strayed, the history for it, is left alone.
ExpoBecomes(next) == \E s \in {next} :
    /\ modal' = s.m /\ overview' = s.o /\ expo' = s.e
    /\ alive' = (alive \ Groups)
               \cup {g \in Groups : g = s.e.group \/ FindModal(s.m, g) > 0}
    /\ TrackFocus
    /\ UNCHANGED <<stageFocused, mispopped, strayed, leftover>>

InitExpo ==
    /\ InitOverview
    /\ expo = ExpoInit
    /\ pending = [show |-> 0, hide |-> 0]
    /\ replaced = FALSE
    /\ stageFocused

\* A new actor: one that nothing remembers, whichever it is.
Unused == {g \in Groups : \A r \in ToSet(modal.stack) : g \notin {r.actor, r.focus, r.pushFocus}}

\* Both an old and a new expo call _showDone, unless their boxes were waiting to
\* be allocated at once: the handler of the first then disconnects that of the
\* other (expo.js:311 looks for it in the box of the newer one).
ExpoShow ==
    /\ ~expo.shown
    /\ modal.modalCount < MaxDepth
    /\ Unused # {}
    /\ \E granted \in BOOLEAN :
        ExpoBecomes(ExpoShowMethod(ExpoState, CHOOSE g \in Unused : TRUE, granted))
    /\ \E shows \in 1..(pending.show + 1) :
        pending' = [pending EXCEPT !.show = IF expo'.shown THEN shows ELSE @]
    /\ replaced' = (replaced \/ expo.animation # "none")

\* A hide animation has begun that was not there before.
HideBegins == IF expo.animation # "hide" /\ expo'.animation = "hide" THEN 1 ELSE 0

\* By a key, a click on a workspace, or a change of monitors.
ExpoHide ==
    /\ expo.shown
    /\ \E animated \in BOOLEAN : ExpoBecomes(ExpoHideMethod(ExpoState, animated))
    /\ pending' = [pending EXCEPT !.hide = @ + HideBegins]
    /\ UNCHANGED replaced

\* _showDone stops whatever is animated, so that it may begin another hide.
ExpoShowAnimationEnds ==
    /\ pending.show > 0
    /\ \E animated \in BOOLEAN : ExpoBecomes(ExpoShowDone(ExpoState, animated))
    /\ pending' = [show |-> pending.show - 1,
                   hide |-> pending.hide + IF expo'.animation = "hide" THEN 1 ELSE 0]
    /\ UNCHANGED replaced

\* A second end finds no group: "this._group.hide()" throws (expo.js:457).
ExpoHideAnimationEnds ==
    /\ pending.hide > 0
    /\ ExpoBecomes(IF expo.group = Nobody THEN ExpoState ELSE ExpoHideDone(ExpoState))
    /\ pending' = [pending EXCEPT !.hide = @ - 1]
    /\ UNCHANGED replaced

\* The dialogs; their destruction and where the key focus goes are questions
\* that ModalStack answers for every owner.
Dialogs ==
    /\ \E a \in Owners \ ({Group} \cup Groups) : Push(a) \/ Pop(a)
    /\ UNCHANGED <<overview, leftover, expo, pending, replaced>>

OverviewStep ==
    /\ \/ Show \/ Hide \/ ShowAnimationEnds \/ HideAnimationEnds
    /\ UNCHANGED <<expo, pending, replaced>>

NextExpo ==
    \/ ExpoShow \/ ExpoHide \/ ExpoShowAnimationEnds \/ ExpoHideAnimationEnds
    \/ OverviewStep \/ Dialogs

FairnessExpo ==
    /\ []<>(overview.animation # "show") \/ []<><<ShowAnimationEnds /\ UNCHANGED expo>>_expoVars
    /\ []<>(overview.animation # "hide") \/ []<><<HideAnimationEnds /\ UNCHANGED expo>>_expoVars
    /\ []<>(expo.animation # "show") \/ []<><<ExpoShowAnimationEnds>>_expoVars
    /\ []<>(expo.animation # "hide") \/ []<><<ExpoHideAnimationEnds>>_expoVars

SpecExpo == InitExpo /\ [][NextExpo]_expoVars /\ FairnessExpo

-----------------------------------------------------------------------------
(* Properties *)

HeldBy(a) == Cardinality({i \in DOMAIN modal.stack : modal.stack[i].actor = a})

\* Each at rest as its callers asked: visible exactly if it is shown, and then on
\* the modal stack once.  No group of an earlier expo is there any more (expo.js
\* _hideDone), as long as no show() replaced one in the middle of its animation.
ExpoAtRest ==
    ~replaced /\ expo.animation = "none" =>
        /\ expo.visible = expo.shown
        /\ expo.shown => expo.group # Nobody
        /\ \A g \in Groups : HeldBy(g) = IF expo.shown /\ g = expo.group THEN 1 ELSE 0

BothAtRestAsAsked == AtRestAsAsked /\ ExpoAtRest

\* Both grabs are what their owners believe: neither is visible and lets the
\* input through, and neither leaves a record that it would not pop, but for
\* those that GrabIsKnown counts.  The expo may believe in the grab of a group that is
\* gone only when the end of an earlier animation destroyed it.
GrabsAreKnown ==
    /\ GrabIsKnown
    /\ expo.shown => expo.hasModal
    /\ expo.group # Nobody => HeldBy(expo.group) = IF expo.hasModal THEN 1 ELSE 0
    /\ expo.hasModal /\ ~replaced => expo.group # Nobody

\* Unredirection is disabled once for each of the modal stack, the overview and
\* the expo, and the panels are back when neither of the two is visible, whichever
\* of them was interrupted by the other, unless an expo was replaced: its end is
\* then undone once and was begun twice.  The input is free when nobody is on the
\* stack, in any case.  (With somebody there the input mode is not always right:
\* without animations both sync twice, and the second time set the normal mode.)
SharedStateBalanced ==
    /\ ~replaced =>
        /\ modal.unredirect = (IF modal.stack = <<>> THEN 0 ELSE 1)
                              + (IF overview.visible THEN 1 ELSE 0)
                              + (IF expo.visible THEN 1 ELSE 0)
        /\ ~overview.visible /\ ~expo.visible => overview.panels
    /\ modal.hasModal = (modal.stack # <<>>)
    /\ modal.stack = <<>> => modal.inputMode = "normal"

\* What is asked of either is done in the end, unless it is revoked, also what
\* came while the opposite animation ran: neither stays visible for ever while
\* it is not shown, or shown for ever without being there and at rest.  Of the
\* expo it is only so unless one was replaced.
RequestsHonoured ==
    /\ []<>(overview.shown \/ ~overview.visible)
    /\ []<>(~overview.shown \/ (overview.visible /\ overview.animation = "none"))
    /\ []<>(expo.shown \/ ~expo.visible \/ replaced)
    /\ []<>(~expo.shown \/ (expo.visible /\ expo.animation = "none") \/ replaced)

=============================================================================
