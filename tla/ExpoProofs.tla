----------------------------- MODULE ExpoProofs -----------------------------
(***************************************************************************)
(* The modal stack (ModalStack.tla) and the two that stand on it, the      *)
(* overview and the expo: for any set of actors and of owners, and any     *)
(* bound of the stack, the type of the state, the records and the grab,    *)
(* the count of the handlers, and who of the two holds which record when   *)
(* either is on the screen, is leaving it or is at rest.  The invariant of *)
(* the stack comes first and is used as a lemma by the rest.               *)
(***************************************************************************)
EXTENDS Expo, ListLemmas

-----------------------------------------------------------------------------
(* The inductive invariant of the modal stack, in two layers. What is      *)
(* always so, also after components have popped what they did not push and *)
(* actors have died around shifted focuses:                                *)

Guards == [on : Actors, kind : {"pop", "focus"}, rid : Nat]

PopHandler(r) == Handler(r.actor, "pop", r.rid)
FocusHandler(r) == Handler(r.focus, "focus", r.focusDestroyId)

\* The count is that of the stack, and nothing is held for an empty one.
Counted(m) == m.modalCount = Len(m.stack)
IdleUngrabbed(m) == m.stack = <<>> => ~m.hasModal /\ m.inputMode = "normal"

\* The records are objects of their own, and an actor that may be destroyed is
\* on the stack at most once.
Distinct(m) == \A i, j \in DOMAIN m.stack : m.stack[i].rid = m.stack[j].rid => i = j

Once(m) == \A i, j \in DOMAIN m.stack :
    m.stack[i].actor = m.stack[j].actor /\ m.stack[i].actor \in Destroyable => i = j

\* Every record has the handler that pops it with its actor, and there are no
\* other handlers that pop.
PopConnected(m) == \A i \in DOMAIN m.stack : PopHandler(m.stack[i]) \in ToSet(m.handlers)

PopOnly(m) == \A h \in ToSet(m.handlers) :
    h.kind = "pop" => \E i \in DOMAIN m.stack : h = PopHandler(m.stack[i])

\* Below the first record is no owner: no owner has the key focus unpushed.
Bottom(m) == IF m.stack = <<>> THEN m.keyFocus \in Widgets \cup {Nobody}
             ELSE m.stack[1].focus \in Widgets \cup {Nobody}

Base(m) ==
    /\ m \in ModalState
    /\ IsInjective(m.handlers)
    /\ Counted(m) /\ IdleUngrabbed(m)
    /\ Distinct(m) /\ Once(m)
    /\ PopConnected(m) /\ PopOnly(m)
    /\ Bottom(m)

(* And while no actor has died around shifted focuses: *)

\* The records that remember a focus and the handlers that clear it are one to one.
FocusNumbered(m) == \A i \in DOMAIN m.stack :
    m.stack[i].focus = Nobody <=> m.stack[i].focusDestroyId = 0

FocusDistinct(m) == \A i, j \in DOMAIN m.stack :
    m.stack[i].focusDestroyId = m.stack[j].focusDestroyId /\ m.stack[i].focusDestroyId # 0
        => i = j

FocusConnected(m) == \A i \in DOMAIN m.stack :
    m.stack[i].focus # Nobody => FocusHandler(m.stack[i]) \in ToSet(m.handlers)

FocusOnly(m) == \A h \in ToSet(m.handlers) :
    h.kind = "focus" => \E i \in DOMAIN m.stack : h = FocusHandler(m.stack[i])

FocusGuarded(m) ==
    FocusNumbered(m) /\ FocusDistinct(m) /\ FocusConnected(m) /\ FocusOnly(m)

\* Nothing remembers a dead actor.
Clear(m, living) == \A i \in DOMAIN m.stack : m.stack[i].focus \in living \cup {Nobody}
FocusAlive(m, living) == m.keyFocus \in living \cup {Nobody}

\* The first record remembers what had the focus before it.
Restored(orig, living) == IF orig \in living THEN orig ELSE Nobody

BottomIs(m, f) == m.stack # <<>> => m.stack[1].focus = f

\* The grab of the compositor, the input mode and the redirection, for the
\* modal stack alone.
Grabbed(m) == m.hasModal = (m.stack # <<>>)
InputHeld(m) == m.inputMode = IF m.stack = <<>> THEN "normal" ELSE "fullscreen"
Unredirected(m, n) == m.unredirect = n + (IF m.stack = <<>> THEN 0 ELSE 1)

StackInv ==
    /\ TypeInv
    /\ Base(modal)
    /\ Unredirected(modal, 0)
    /\ modal.stack = <<>> => origFocus = modal.keyFocus
    /\ ~mispopped => Grabbed(modal) /\ InputHeld(modal)
    /\ ~strayed => /\ FocusGuarded(modal)
                   /\ Clear(modal, alive) /\ FocusAlive(modal, alive)
                   /\ BottomIs(modal, Restored(origFocus, alive))

-----------------------------------------------------------------------------
(* pushModal *)

\* What refers to a record object.
Used(m) == {m.stack[i].rid : i \in DOMAIN m.stack}
           \cup {m.stack[i].focusDestroyId : i \in DOMAIN m.stack}
           \cup {m.handlers[i].rid : i \in DOMAIN m.handlers}

\* A new record is unlike everything that refers to a record.
LEMMA NewRidIsNew ==
  ASSUME NEW m \in ModalState
  PROVE  NewRid(m) \in Nat /\ NewRid(m) # 0 /\ NewRid(m) \notin Used(m)
<1> DEFINE n == Len(m.stack)
           l == Len(m.handlers)
           f == [i \in 1..n |-> m.stack[i].rid]
           g == [i \in 1..n |-> m.stack[i].focusDestroyId]
           h == [i \in 1..l |-> m.handlers[i].rid]
<1>1. /\ n \in Nat /\ l \in Nat
      /\ DOMAIN m.stack = 1..n /\ DOMAIN m.handlers = 1..l
  BY DEF ModalState
<1>2. IsFiniteSet(1..n) /\ IsFiniteSet(1..l)
  <2> HIDE DEF n, l
  <2> QED BY <1>1, FS_Interval
<1>3. IsFiniteSet({f[i] : i \in DOMAIN f})
  <2>1. DOMAIN f = 1..n
    OBVIOUS
  <2> HIDE DEF f
  <2> QED BY <1>2, <2>1, FiniteValues
<1>4. IsFiniteSet({g[i] : i \in DOMAIN g})
  <2>1. DOMAIN g = 1..n
    OBVIOUS
  <2> HIDE DEF g
  <2> QED BY <1>2, <2>1, FiniteValues
<1>5. IsFiniteSet({h[i] : i \in DOMAIN h})
  <2>1. DOMAIN h = 1..l
    OBVIOUS
  <2> HIDE DEF h
  <2> QED BY <1>2, <2>1, FiniteValues
<1>6. IsFiniteSet(Used(m))
  <2> DEFINE F == {f[i] : i \in DOMAIN f}
             G == {g[i] : i \in DOMAIN g}
             H == {h[i] : i \in DOMAIN h}
  <2>1. Used(m) = (F \cup G) \cup H
    BY <1>1 DEF Used
  <2> HIDE DEF F, G, H
  <2>2. IsFiniteSet(F) /\ IsFiniteSet(G) /\ IsFiniteSet(H)
    BY <1>3, <1>4, <1>5 DEF F, G, H
  <2>3. IsFiniteSet(F \cup G)
    BY <2>2, FS_Union
  <2>4. IsFiniteSet((F \cup G) \cup H)
    BY <2>2, <2>3, FS_Union
  <2> QED BY <2>1, <2>4
<1>7. \E r \in 1..(Cardinality(Used(m)) + 1) : r \notin Used(m)
  BY <1>6, FreshNumber
<1>8. NewRid(m) = CHOOSE r \in 1..(Cardinality(Used(m)) + 1) : r \notin Used(m)
  BY DEF NewRid, Used
<1>9. NewRid(m) \in 1..(Cardinality(Used(m)) + 1) /\ NewRid(m) \notin Used(m)
  BY <1>7, <1>8
<1>10. Cardinality(Used(m)) \in Nat
  BY <1>6, FS_CardinalityType
<1> QED BY <1>9, <1>10

\* The record that pushModal makes.
NewRecord(m, actor) ==
    [rid |-> NewRid(m), actor |-> actor, focus |-> m.keyFocus, pushFocus |-> m.keyFocus,
     focusDestroyId |-> IF m.keyFocus = Nobody THEN 0 ELSE NewRid(m)]

\* Its effect: one record more, and its handlers.
Recorded(m, p, actor) ==
    LET r == NewRecord(m, actor)
    IN  /\ p \in ModalState
        /\ r \in Record
        /\ p.modalCount = m.modalCount + 1
        /\ p.stack = Append(m.stack, r)
        /\ p.keyFocus = actor
        /\ p.inputMode = "fullscreen"
        /\ p.hasModal = m.hasModal
        /\ p.unredirect = m.unredirect
        /\ IsInjective(p.handlers)
        /\ ToSet(p.handlers) = ToSet(m.handlers) \cup {PopHandler(r)}
             \cup (IF m.keyFocus = Nobody THEN {} ELSE {FocusHandler(r)})

LEMMA PushRecordEffect ==
  ASSUME NEW m \in ModalState, IsInjective(m.handlers), NEW actor \in Owners
  PROVE  Recorded(m, PushRecord(m, actor), actor)
<1> DEFINE p == PushRecord(m, actor)
           r == NewRecord(m, actor)
           rid == NewRid(m)
           h1 == Append(m.handlers, PopHandler(r))
           h2 == IF m.keyFocus = Nobody THEN h1 ELSE Append(h1, FocusHandler(r))
<1>1. rid \in Nat /\ rid # 0 /\ rid \notin Used(m)
  BY NewRidIsNew
<1>2. /\ m.stack \in Seq(Record) /\ m.handlers \in Seq(Guards)
      /\ m.keyFocus \in Actors \cup {Nobody} /\ m.modalCount \in Nat
  BY DEF ModalState, Guards
<1>3. r \in Record
  BY <1>1, <1>2 DEF NewRecord, Record, Actors
<1>4. PopHandler(r) \in Guards /\ PopHandler(r).rid = rid /\ PopHandler(r).kind = "pop"
  BY <1>1 DEF PopHandler, Handler, Guards, NewRecord, Actors
<1>5. m.keyFocus # Nobody =>
        FocusHandler(r) \in Guards /\ FocusHandler(r).rid = rid /\ FocusHandler(r).kind = "focus"
  BY <1>1, <1>2 DEF FocusHandler, Handler, Guards, NewRecord, Actors
<1>6. \A h \in ToSet(m.handlers) : h.rid # rid
  BY <1>1, <1>2 DEF Used, ToSet
<1>7. /\ h1 \in Seq(Guards) /\ IsInjective(h1)
      /\ ToSet(h1) = ToSet(m.handlers) \cup {PopHandler(r)}
  <2>1. PopHandler(r) \notin ToSet(m.handlers)
    BY <1>4, <1>6
  <2> HIDE DEF r
  <2> QED BY <1>2, <1>4, <2>1, AppendKeeps
<1>8. /\ h2 \in Seq(Guards) /\ IsInjective(h2)
      /\ ToSet(h2) = ToSet(m.handlers) \cup {PopHandler(r)}
                     \cup (IF m.keyFocus = Nobody THEN {} ELSE {FocusHandler(r)})
  <2>1. CASE m.keyFocus = Nobody
    BY <1>7, <2>1
  <2>2. CASE m.keyFocus # Nobody
    <3>1. FocusHandler(r) \notin ToSet(h1)
      BY <1>4, <1>5, <1>6, <1>7, <2>2
    <3> HIDE DEF h1, r
    <3>2. /\ Append(h1, FocusHandler(r)) \in Seq(Guards)
          /\ IsInjective(Append(h1, FocusHandler(r)))
          /\ ToSet(Append(h1, FocusHandler(r))) = ToSet(h1) \cup {FocusHandler(r)}
      BY <1>5, <1>7, <2>2, <3>1, AppendKeeps
    <3> QED BY <1>7, <2>2, <3>2
  <2> QED BY <2>1, <2>2
<1>9. p = [m EXCEPT !.handlers = h2, !.inputMode = "fullscreen", !.modalCount = m.modalCount + 1,
                    !.stack = Append(m.stack, r), !.keyFocus = actor]
  BY DEF PushRecord, ModalState, Connect, PopHandler, FocusHandler, NewRecord
<1> HIDE DEF h2, r, p
<1>10. Append(m.stack, r) \in Seq(Record)
  BY <1>2, <1>3
<1>11. p \in ModalState
  <2>1. p = [modalCount |-> m.modalCount + 1, stack |-> Append(m.stack, r), handlers |-> h2,
             keyFocus |-> actor, hasModal |-> m.hasModal, inputMode |-> "fullscreen",
             unredirect |-> m.unredirect]
    BY <1>9 DEF ModalState
  <2>2. m.hasModal \in BOOLEAN /\ m.unredirect \in Int /\ m.modalCount + 1 \in Nat
    BY <1>2 DEF ModalState
  <2>3. actor \in Actors
    BY DEF Actors
  <2> QED BY <1>8, <1>10, <2>1, <2>2, <2>3 DEF ModalState, Guards
<1>12. /\ p.handlers = h2 /\ p.inputMode = "fullscreen" /\ p.modalCount = m.modalCount + 1
       /\ p.stack = Append(m.stack, r) /\ p.keyFocus = actor
       /\ p.hasModal = m.hasModal /\ p.unredirect = m.unredirect
  BY <1>9 DEF ModalState
<1> QED BY <1>3, <1>8, <1>11, <1>12 DEF p, r, Recorded

-----------------------------------------------------------------------------
(* popModal *)

\* _findModal: the first record of the actor.
LEMMA FindModalFinds ==
  ASSUME NEW m \in ModalState, NEW actor
  PROVE  LET i == FindModal(m, actor)
         IN  /\ i = 0 \/ i \in DOMAIN m.stack
             /\ i = 0 => \A k \in DOMAIN m.stack : m.stack[k].actor # actor
             /\ i \in DOMAIN m.stack => i # 0 /\ i > 0 /\ m.stack[i].actor = actor
<1> DEFINE n == Len(m.stack)
           I == {k \in 1..n : m.stack[k].actor = actor}
<1>1. n \in Nat /\ DOMAIN m.stack = 1..n
  BY DEF ModalState
<1>2. FindModal(m, actor) = IF I # {} THEN Min(I) ELSE 0
  BY DEF FindModal, SelectInSeq
<1>3. CASE I = {}
  BY <1>1, <1>2, <1>3
<1>4. CASE I # {}
  <2>1. Min(I) \in I
    <3>1. I \in SUBSET (1..n)
      OBVIOUS
    <3> HIDE DEF I, n
    <3> QED BY <1>1, <1>4, <3>1, MinIsFirst
  <2>2. FindModal(m, actor) \in I
    BY <1>2, <1>4, <2>1
  <2> QED BY <1>1, <2>2
<1> QED BY <1>3, <1>4

\* popModal without what it does for an empty stack.
Removed(m, i) ==
    LET c == Uncount(m, m.stack[i])
    IN  IF i = Len(m.stack) THEN PopTop(c) ELSE PopMiddle(c, i)

LEMMA PopModalIs ==
  ASSUME NEW m, NEW actor, NEW sf, FindModal(m, actor) # 0
  PROVE  PopModal(m, actor, sf) =
           LET p == Removed(m, FindModal(m, actor))
           IN  IF p.modalCount > 0 THEN p ELSE Release(p, sf)
BY DEF PopModal, Removed

\* The stack after it: the actors below and above the record close up, the
\* remembered focuses stay where they are, and the last of them is dropped.
Shifted(before, after, i) ==
    /\ Len(after) = Len(before) - 1
    /\ \A k \in DOMAIN after :
          /\ k \in DOMAIN before
          /\ Skip(i, k) \in DOMAIN before \ {i}
          /\ after[k].rid = before[Skip(i, k)].rid
          /\ after[k].actor = before[Skip(i, k)].actor
          /\ after[k].focus = before[k].focus
          /\ after[k].focusDestroyId = before[k].focusDestroyId
    /\ \A j \in DOMAIN before \ {i} : \E k \in DOMAIN after : Skip(i, k) = j
    /\ \A k, l \in DOMAIN after : Skip(i, k) = Skip(i, l) => k = l

\* The handlers after it, which it takes from those before it.
Disconnected(before, after, r, top) ==
    /\ IsInjective(after)
    /\ ToSet(after) \subseteq ToSet(before) \ {PopHandler(r)}
    /\ ToSet(before) \ {PopHandler(r), FocusHandler(top)} \subseteq ToSet(after)
    /\ top.focus # Nobody /\ top.focusDestroyId # 0 => FocusHandler(top) \notin ToSet(after)

LEMMA UncountEffect ==
  ASSUME NEW m \in ModalState, IsInjective(m.handlers), NEW r, m.modalCount # 0
  PROVE  LET c == Uncount(m, r)
         IN  /\ c \in ModalState
             /\ IsInjective(c.handlers)
             /\ ToSet(c.handlers) = ToSet(m.handlers) \ {PopHandler(r)}
             /\ c = [m EXCEPT !.modalCount = m.modalCount - 1, !.handlers = c.handlers]
             /\ c.stack = m.stack /\ c.modalCount = m.modalCount - 1 /\ c.keyFocus = m.keyFocus
             /\ c.hasModal = m.hasModal /\ c.inputMode = m.inputMode
             /\ c.unredirect = m.unredirect
<1> DEFINE h == RemoveFirst(m.handlers, PopHandler(r))
           c == Uncount(m, r)
<1>1. m.handlers \in Seq(Guards) /\ m.modalCount \in Nat /\ m.modalCount - 1 \in Nat
  BY DEF ModalState, Guards
<1>2. h \in Seq(Guards) /\ IsInjective(h) /\ ToSet(h) = ToSet(m.handlers) \ {PopHandler(r)}
  BY <1>1, RemoveFirstKeeps
<1>3. c = [m EXCEPT !.modalCount = m.modalCount - 1, !.handlers = h]
  BY DEF Uncount, Disconnect, PopHandler, ModalState
<1> HIDE DEF h, c
<1>4. c = [modalCount |-> m.modalCount - 1, stack |-> m.stack, handlers |-> h,
           keyFocus |-> m.keyFocus, hasModal |-> m.hasModal, inputMode |-> m.inputMode,
           unredirect |-> m.unredirect]
  BY <1>3 DEF ModalState
<1>5. c \in ModalState
  BY <1>1, <1>2, <1>4 DEF ModalState, Guards
<1> QED BY <1>2, <1>3, <1>4, <1>5 DEF c

\* The stack and the handlers of a state, as popModal replaces them.
With(m, stack, handlers, focus) ==
    [m EXCEPT !.stack = stack, !.handlers = handlers, !.keyFocus = focus]

LEMMA WithIs ==
  ASSUME NEW m \in ModalState, NEW stack \in Seq(Record), NEW handlers \in Seq(Guards),
         NEW focus \in Actors \cup {Nobody}
  PROVE  LET p == With(m, stack, handlers, focus)
         IN  /\ p \in ModalState
             /\ p.stack = stack /\ p.handlers = handlers /\ p.keyFocus = focus
             /\ p.modalCount = m.modalCount /\ p.hasModal = m.hasModal
             /\ p.inputMode = m.inputMode /\ p.unredirect = m.unredirect
<1> DEFINE p == With(m, stack, handlers, focus)
<1>1. p = [m EXCEPT !.stack = stack, !.handlers = handlers, !.keyFocus = focus]
  BY DEF With
<1> HIDE DEF p
<1>2. p = [modalCount |-> m.modalCount, stack |-> stack, handlers |-> handlers,
           keyFocus |-> focus, hasModal |-> m.hasModal, inputMode |-> m.inputMode,
           unredirect |-> m.unredirect]
  BY <1>1 DEF ModalState
<1>3. p \in ModalState
  BY <1>2 DEF ModalState, Guards
<1> QED BY <1>2, <1>3 DEF p

\* What both ways of removing a record do to the handlers of the topmost focus.
LEMMA DropFocus ==
  ASSUME NEW q \in Seq(Guards), IsInjective(q), NEW t, NEW b \in BOOLEAN,
         b => t.focus = Nobody \/ t.focusDestroyId = 0
  PROVE  LET h == IF b THEN q ELSE RemoveFirst(q, FocusHandler(t))
         IN  /\ h \in Seq(Guards)
             /\ IsInjective(h)
             /\ ToSet(h) \subseteq ToSet(q)
             /\ ToSet(q) \ {FocusHandler(t)} \subseteq ToSet(h)
             /\ t.focus # Nobody /\ t.focusDestroyId # 0 => FocusHandler(t) \notin ToSet(h)
<1> DEFINE h == RemoveFirst(q, FocusHandler(t))
<1>1. h \in Seq(Guards) /\ IsInjective(h) /\ ToSet(h) = ToSet(q) \ {FocusHandler(t)}
  BY RemoveFirstKeeps
<1> HIDE DEF h
<1>2. CASE b
  BY <1>2
<1>3. CASE ~b
  <2>1. (IF b THEN q ELSE h) = h
    BY <1>3
  <2> QED BY <1>1, <2>1 DEF h
<1> QED BY <1>2, <1>3


\* Of a state: another stack and another focus, and one focus handler less.
Dropped(m, p, top, stack, focus) ==
    /\ p \in ModalState
    /\ p.stack = stack
    /\ IsInjective(p.handlers)
    /\ ToSet(p.handlers) \subseteq ToSet(m.handlers)
    /\ ToSet(m.handlers) \ {FocusHandler(top)} \subseteq ToSet(p.handlers)
    /\ top.focus # Nobody /\ top.focusDestroyId # 0 => FocusHandler(top) \notin ToSet(p.handlers)
    /\ p.keyFocus = focus
    /\ p.modalCount = m.modalCount /\ p.hasModal = m.hasModal
    /\ p.inputMode = m.inputMode /\ p.unredirect = m.unredirect

\* The record on top is popped.
LEMMA PopTopEffect ==
  ASSUME NEW m \in ModalState, IsInjective(m.handlers), m.stack # <<>>
  PROVE  Dropped(m, PopTop(m), Last(m.stack), Front(m.stack), Last(m.stack).focus)
<1> DEFINE t == Last(m.stack)
           b == (t.focusDestroyId = 0)
           h == IF b THEN m.handlers ELSE RemoveFirst(m.handlers, FocusHandler(t))
<1>1. m.stack \in Seq(Record) /\ m.handlers \in Seq(Guards)
  BY DEF ModalState, Guards
<1>2. t \in Record
  BY <1>1 DEF Last
<1>3. /\ h \in Seq(Guards)
      /\ IsInjective(h)
      /\ ToSet(h) \subseteq ToSet(m.handlers)
      /\ ToSet(m.handlers) \ {FocusHandler(t)} \subseteq ToSet(h)
      /\ t.focus # Nobody /\ t.focusDestroyId # 0 => FocusHandler(t) \notin ToSet(h)
  <2>1. b \in BOOLEAN
    OBVIOUS
  <2>2. b => t.focusDestroyId = 0
    OBVIOUS
  <2> HIDE DEF b, t
  <2> QED BY <1>1, <2>1, <2>2, DropFocus
<1>4. PopTop(m) = With(m, Front(m.stack), h, t.focus)
  <2>1. CASE b
    BY <2>1 DEF PopTop, With, ModalState
  <2>2. CASE ~b
    BY <2>2 DEF PopTop, With, ModalState, Disconnect, FocusHandler
  <2> QED BY <2>1, <2>2
<1>5. Front(m.stack) \in Seq(Record) /\ t.focus \in Actors \cup {Nobody}
  BY <1>1, <1>2, FrontKeeps DEF Record
<1> HIDE DEF h, t, b
<1>6. LET p == With(m, Front(m.stack), h, t.focus)
      IN  /\ p \in ModalState
          /\ p.stack = Front(m.stack) /\ p.handlers = h /\ p.keyFocus = t.focus
          /\ p.modalCount = m.modalCount /\ p.hasModal = m.hasModal
          /\ p.inputMode = m.inputMode /\ p.unredirect = m.unredirect
  BY <1>3, <1>5, WithIs
<1> QED BY <1>3, <1>4, <1>6 DEF t, Dropped

\* The remembered focuses of the records above position i move up by one.
Refocused(r, s) == [r EXCEPT !.focus = s.focus, !.focusDestroyId = s.focusDestroyId]

MovedUp(q, i) ==
    [k \in 1..Len(q) |-> IF k <= i THEN q[k] ELSE Refocused(q[k], q[k - 1])]

LEMMA RefocusedIs ==
  ASSUME NEW r \in Record, NEW s \in Record
  PROVE  /\ Refocused(r, s) \in Record
         /\ Refocused(r, s).rid = r.rid /\ Refocused(r, s).actor = r.actor
         /\ Refocused(r, s).focus = s.focus
         /\ Refocused(r, s).focusDestroyId = s.focusDestroyId
<1> DEFINE e == Refocused(r, s)
<1>1. e = [r EXCEPT !.focus = s.focus, !.focusDestroyId = s.focusDestroyId]
  BY DEF Refocused
<1> HIDE DEF e
<1>2. e = [rid |-> r.rid, actor |-> r.actor, focus |-> s.focus,
           pushFocus |-> r.pushFocus, focusDestroyId |-> s.focusDestroyId]
  BY <1>1 DEF Record
<1>3. e \in Record
  BY <1>2 DEF Record
<1> QED BY <1>2, <1>3 DEF e

LEMMA MovedUpIs ==
  ASSUME NEW q \in Seq(Record), NEW i \in DOMAIN q
  PROVE  /\ MovedUp(q, i) \in Seq(Record)
         /\ DOMAIN MovedUp(q, i) = DOMAIN q
         /\ Len(MovedUp(q, i)) = Len(q)
         /\ \A k \in DOMAIN q :
               /\ MovedUp(q, i)[k].rid = q[k].rid
               /\ MovedUp(q, i)[k].actor = q[k].actor
               /\ k <= i => MovedUp(q, i)[k] = q[k]
               /\ k > i => /\ k - 1 \in DOMAIN q
                           /\ MovedUp(q, i)[k].focus = q[k - 1].focus
                           /\ MovedUp(q, i)[k].focusDestroyId = q[k - 1].focusDestroyId
<1> DEFINE n == Len(q)
           e(k) == Refocused(q[k], q[k - 1])
<1>1. n \in Nat /\ DOMAIN q = 1..n /\ i \in 1..n /\ \A k \in 1..n : q[k] \in Record
  OBVIOUS
<1>2. ASSUME NEW k \in 1..n, k > i
      PROVE  /\ k - 1 \in 1..n
             /\ e(k) \in Record
             /\ e(k).rid = q[k].rid /\ e(k).actor = q[k].actor
             /\ e(k).focus = q[k - 1].focus /\ e(k).focusDestroyId = q[k - 1].focusDestroyId
  <2>1. k - 1 \in 1..n
    BY <1>1, <1>2
  <2>2. q[k] \in Record /\ q[k - 1] \in Record
    BY <1>1, <2>1
  <2> QED BY <2>1, <2>2, RefocusedIs
<1>3. MovedUp(q, i) = [k \in 1..n |-> IF k <= i THEN q[k] ELSE e(k)]
  BY DEF MovedUp
<1> HIDE DEF e
<1>4. \A k \in 1..n : ~(k <= i) => k > i
  BY <1>1
<1>5. MovedUp(q, i) \in [1..n -> Record]
  BY <1>1, <1>2, <1>3, <1>4
<1>6. \A k \in 1..n : /\ k <= i => MovedUp(q, i)[k] = q[k]
                      /\ k > i => MovedUp(q, i)[k] = e(k)
  BY <1>1, <1>3
<1>7. MovedUp(q, i) \in Seq(Record) /\ Len(MovedUp(q, i)) = n /\ DOMAIN MovedUp(q, i) = 1..n
  BY <1>1, <1>5
<1> HIDE DEF n
<1> QED BY <1>1, <1>2, <1>4, <1>6, <1>7 DEF n

\* A record below the top is popped.
LEMMA PopMiddleEffect ==
  ASSUME NEW m \in ModalState, IsInjective(m.handlers), NEW i \in DOMAIN m.stack
  PROVE  Dropped(m, PopMiddle(m, i), m.stack[Len(m.stack)],
                 RemoveAt(MovedUp(m.stack, i), i), m.keyFocus)
<1> DEFINE t == m.stack[Len(m.stack)]
           b == (t.focus = Nobody)
           h == IF b THEN m.handlers ELSE RemoveFirst(m.handlers, FocusHandler(t))
           q == RemoveAt(MovedUp(m.stack, i), i)
<1>1. m.stack \in Seq(Record) /\ m.handlers \in Seq(Guards) /\ m.keyFocus \in Actors \cup {Nobody}
  BY DEF ModalState, Guards
<1>2. /\ h \in Seq(Guards)
      /\ IsInjective(h)
      /\ ToSet(h) \subseteq ToSet(m.handlers)
      /\ ToSet(m.handlers) \ {FocusHandler(t)} \subseteq ToSet(h)
      /\ t.focus # Nobody /\ t.focusDestroyId # 0 => FocusHandler(t) \notin ToSet(h)
  <2>1. b \in BOOLEAN
    OBVIOUS
  <2>2. b => t.focus = Nobody
    OBVIOUS
  <2> HIDE DEF b, t
  <2> QED BY <1>1, <2>1, <2>2, DropFocus
<1>3. q \in Seq(Record)
  <2>1. MovedUp(m.stack, i) \in Seq(Record) /\ i \in DOMAIN MovedUp(m.stack, i)
    BY <1>1, MovedUpIs
  <2> QED BY <2>1, RemoveAtKeeps
<1>4. PopMiddle(m, i) = With(m, q, h, m.keyFocus)
  <2>1. CASE b
    BY <2>1 DEF PopMiddle, MovedUp, Refocused, With, ModalState
  <2>2. CASE ~b
    BY <2>2 DEF PopMiddle, MovedUp, Refocused, With, ModalState, Disconnect, FocusHandler
  <2> QED BY <2>1, <2>2
<1> HIDE DEF h, t, b, q
<1>5. LET p == With(m, q, h, m.keyFocus)
      IN  /\ p \in ModalState
          /\ p.stack = q /\ p.handlers = h /\ p.keyFocus = m.keyFocus
          /\ p.modalCount = m.modalCount /\ p.hasModal = m.hasModal
          /\ p.inputMode = m.inputMode /\ p.unredirect = m.unredirect
  BY <1>1, <1>2, <1>3, WithIs
<1> QED BY <1>2, <1>4, <1>5 DEF t, q, Dropped

\* Either way the records close up and the remembered focuses stay.
LEMMA TopShifts ==
  ASSUME NEW q \in Seq(Record), q # <<>>
  PROVE  Shifted(q, Front(q), Len(q))
<1> DEFINE n == Len(q)
           r == Front(q)
<1>1. n \in Nat /\ n # 0 /\ DOMAIN q = 1..n
  OBVIOUS
<1>2. r \in Seq(Record) /\ Len(r) = n - 1 /\ \A k \in 1..(n - 1) : r[k] = q[k]
  BY FrontKeeps
<1> HIDE DEF r
<1>3. DOMAIN r = 1..(n - 1)
  BY <1>1, <1>2
<1> HIDE DEF n
<1>4. \A k \in 1..(n - 1) : k \in 1..n /\ k # n /\ Skip(n, k) = k
  BY <1>1 DEF Skip
<1>5. \A j \in (1..n) \ {n} : j \in 1..(n - 1)
  BY <1>1
<1> QED BY <1>1, <1>2, <1>3, <1>4, <1>5 DEF Shifted, n, r

LEMMA MiddleShifts ==
  ASSUME NEW q \in Seq(Record), NEW i \in DOMAIN q
  PROVE  Shifted(q, RemoveAt(MovedUp(q, i), i), i)
<1> DEFINE n == Len(q)
           u == MovedUp(q, i)
           r == RemoveAt(u, i)
<1>1. n \in Nat /\ DOMAIN q = 1..n /\ i \in 1..n
  OBVIOUS
<1>2. /\ u \in Seq(Record) /\ DOMAIN u = DOMAIN q /\ Len(u) = n
      /\ \A k \in DOMAIN q :
            /\ u[k].rid = q[k].rid /\ u[k].actor = q[k].actor
            /\ k <= i => u[k] = q[k]
            /\ k > i => /\ k - 1 \in DOMAIN q
                        /\ u[k].focus = q[k - 1].focus
                        /\ u[k].focusDestroyId = q[k - 1].focusDestroyId
  BY MovedUpIs
<1> HIDE DEF u
<1>3. /\ r \in Seq(Record) /\ Len(r) = n - 1
      /\ \A k \in DOMAIN r : Skip(i, k) \in DOMAIN u \ {i} /\ r[k] = u[Skip(i, k)]
      /\ \A k, l \in DOMAIN r : Skip(i, k) = Skip(i, l) => k = l
      /\ \A j \in DOMAIN u \ {i} : \E k \in DOMAIN r : Skip(i, k) = j /\ r[k] = u[j]
  <2>1. u \in Seq(Record) /\ i \in DOMAIN u
    BY <1>1, <1>2
  <2> HIDE DEF n
  <2>2. /\ r \in Seq(Record) /\ Len(r) = Len(u) - 1
        /\ \A k \in DOMAIN r : Skip(i, k) \in DOMAIN u \ {i} /\ r[k] = u[Skip(i, k)]
        /\ \A k, l \in DOMAIN r : Skip(i, k) = Skip(i, l) => k = l
        /\ \A j \in DOMAIN u \ {i} : \E k \in DOMAIN r : Skip(i, k) = j /\ r[k] = u[j]
    BY ONLY <2>1, RemoveAtKeeps
  <2> QED BY <1>2, <2>2
<1> HIDE DEF r
<1>4. DOMAIN r = 1..(n - 1)
  BY <1>1, <1>3
<1>5. ASSUME NEW k \in 1..(n - 1)
      PROVE  k \in 1..n /\ r[k].focus = q[k].focus /\ r[k].focusDestroyId = q[k].focusDestroyId
  <2>1. Skip(i, k) \in 1..n /\ r[k] = u[Skip(i, k)]
    BY <1>1, <1>2, <1>3, <1>4
  <2>2. CASE k < i
    <3>1. Skip(i, k) = k /\ k <= i /\ k \in 1..n
      BY <1>1, <2>2 DEF Skip
    <3> QED BY <1>1, <1>2, <2>1, <3>1
  <2>3. CASE ~(k < i)
    <3>1. Skip(i, k) = k + 1 /\ k + 1 > i /\ (k + 1) - 1 = k /\ k \in 1..n /\ k + 1 \in 1..n
      BY <1>1, <2>3 DEF Skip
    <3> QED BY <1>1, <1>2, <2>1, <3>1
  <2> QED BY <2>2, <2>3
<1>6. \A j \in 1..n : u[j].rid = q[j].rid /\ u[j].actor = q[j].actor
  BY <1>1, <1>2
<1>7. DOMAIN u = 1..n /\ DOMAIN q = 1..n
  BY <1>1, <1>2
<1> HIDE DEF n
<1>8. \A k \in DOMAIN r :
         /\ k \in DOMAIN q /\ Skip(i, k) \in DOMAIN q \ {i}
         /\ r[k].rid = q[Skip(i, k)].rid /\ r[k].actor = q[Skip(i, k)].actor
         /\ r[k].focus = q[k].focus /\ r[k].focusDestroyId = q[k].focusDestroyId
  BY ONLY <1>3, <1>4, <1>5, <1>6, <1>7
<1>9. \A j \in DOMAIN q \ {i} : \E k \in DOMAIN r : Skip(i, k) = j
  BY ONLY <1>3, <1>7
<1>10. Shifted(q, r, i)
  BY <1>3, <1>8, <1>9 DEF Shifted, n
<1> QED BY <1>10 DEF r, u


LEMMA RemovedEffect ==
  ASSUME NEW m \in ModalState, IsInjective(m.handlers), Counted(m), NEW i \in DOMAIN m.stack
  PROVE  LET p == Removed(m, i)
             t == m.stack[Len(m.stack)]
         IN  /\ p \in ModalState
             /\ p.modalCount = m.modalCount - 1
             /\ Shifted(m.stack, p.stack, i)
             /\ Disconnected(m.handlers, p.handlers, m.stack[i], t)
             /\ p.keyFocus = IF i = Len(m.stack) THEN t.focus ELSE m.keyFocus
             /\ p.hasModal = m.hasModal /\ p.inputMode = m.inputMode
             /\ p.unredirect = m.unredirect
<1> DEFINE c == Uncount(m, m.stack[i])
           t == m.stack[Len(m.stack)]
           p == Removed(m, i)
<1>1. /\ m.stack \in Seq(Record) /\ m.stack # <<>> /\ Len(m.stack) \in Nat
      /\ DOMAIN m.stack = 1..Len(m.stack) /\ m.modalCount = Len(m.stack) /\ m.modalCount # 0
  BY DEF ModalState, Counted
<1>2. /\ c \in ModalState
      /\ IsInjective(c.handlers)
      /\ ToSet(c.handlers) = ToSet(m.handlers) \ {PopHandler(m.stack[i])}
      /\ c.stack = m.stack /\ c.modalCount = m.modalCount - 1 /\ c.keyFocus = m.keyFocus
      /\ c.hasModal = m.hasModal /\ c.inputMode = m.inputMode
      /\ c.unredirect = m.unredirect
  BY <1>1, UncountEffect
<1> HIDE DEF c
<1>3. CASE i = Len(m.stack)
  <2>1. p = PopTop(c)
    BY <1>3 DEF Removed, c
  <2>2. Last(c.stack) = t
    BY <1>2 DEF Last
  <2> HIDE DEF p, t
  <2>3. Dropped(c, p, t, Front(m.stack), t.focus)
    <3>1. c \in ModalState /\ IsInjective(c.handlers) /\ c.stack # <<>> /\ c.stack = m.stack
      BY <1>1, <1>2
    <3> QED BY ONLY <2>1, <2>2, <3>1, PopTopEffect
  <2>4. Shifted(m.stack, p.stack, i)
    BY <1>1, <1>3, <2>3, TopShifts DEF Dropped
  <2>5. Disconnected(m.handlers, p.handlers, m.stack[i], t)
    BY <1>2, <2>3 DEF Disconnected, Dropped
  <2> QED BY <1>2, <1>3, <2>3, <2>4, <2>5 DEF p, t, Dropped
<1>4. CASE i # Len(m.stack)
  <2>1. p = PopMiddle(c, i)
    BY <1>2, <1>4 DEF Removed, c
  <2>2. c.stack[Len(c.stack)] = t
    BY <1>2
  <2> HIDE DEF p, t
  <2>3. Dropped(c, p, t, RemoveAt(MovedUp(m.stack, i), i), c.keyFocus)
    <3>1. c \in ModalState /\ IsInjective(c.handlers) /\ i \in DOMAIN c.stack /\ c.stack = m.stack
      BY <1>2
    <3> QED BY ONLY <2>1, <2>2, <3>1, PopMiddleEffect
  <2>4. Shifted(m.stack, p.stack, i)
    BY <1>1, <2>3, MiddleShifts DEF Dropped
  <2>5. Disconnected(m.handlers, p.handlers, m.stack[i], t)
    BY <1>2, <2>3 DEF Disconnected, Dropped
  <2> QED BY <1>2, <1>4, <2>3, <2>4, <2>5 DEF p, t, Dropped
<1> QED BY <1>3, <1>4

\* What popModal does when it has emptied the stack.
LEMMA ReleaseEffect ==
  ASSUME NEW m \in ModalState, NEW sf \in BOOLEAN
  PROVE  LET p == Release(m, sf)
         IN  /\ p \in ModalState
             /\ p.stack = m.stack /\ p.handlers = m.handlers /\ p.modalCount = m.modalCount
             /\ p.keyFocus = (IF m.hasModal /\ ~sf THEN Nobody ELSE m.keyFocus)
             /\ ~p.hasModal /\ p.inputMode = "normal"
             /\ p.unredirect = m.unredirect - 1
<1> DEFINE p == Release(m, sf)
           focus == IF m.hasModal /\ ~sf THEN Nobody ELSE m.keyFocus
<1>1. p = [m EXCEPT !.hasModal = FALSE, !.keyFocus = focus, !.inputMode = "normal",
                    !.unredirect = m.unredirect - 1]
  <2>1. m.hasModal \in BOOLEAN
    BY DEF ModalState
  <2>2. CASE m.hasModal
    BY <2>2 DEF Release, EndModal, ModalState
  <2>3. CASE ~m.hasModal
    BY <2>1, <2>3 DEF Release, EndModal, ModalState
  <2> QED BY <2>2, <2>3
<1>2. focus \in Actors \cup {Nobody} /\ m.unredirect - 1 \in Int
  BY DEF ModalState
<1> HIDE DEF p, focus
<1>3. p = [modalCount |-> m.modalCount, stack |-> m.stack, handlers |-> m.handlers,
           keyFocus |-> focus, hasModal |-> FALSE, inputMode |-> "normal",
           unredirect |-> m.unredirect - 1]
  BY <1>1 DEF ModalState
<1>4. p \in ModalState
  BY <1>2, <1>3 DEF ModalState
<1> QED BY <1>3, <1>4 DEF p, focus

\* The whole of popModal(actor), for an actor whose first record is at i.
Popped(m, p, i, sf) ==
    LET t == m.stack[Len(m.stack)]
    IN  /\ p \in ModalState
        /\ p.modalCount = m.modalCount - 1
        /\ Shifted(m.stack, p.stack, i)
        /\ Disconnected(m.handlers, p.handlers, m.stack[i], t)
        /\ p.stack # <<>> =>
              /\ p.keyFocus = IF i = Len(m.stack) THEN t.focus ELSE m.keyFocus
              /\ p.hasModal = m.hasModal /\ p.inputMode = m.inputMode
              /\ p.unredirect = m.unredirect
        /\ p.stack = <<>> =>
              /\ p.keyFocus = IF m.hasModal /\ ~sf THEN Nobody ELSE m.stack[1].focus
              /\ ~p.hasModal /\ p.inputMode = "normal"
              /\ p.unredirect = m.unredirect - 1

LEMMA PopModalEffect ==
  ASSUME NEW m \in ModalState, IsInjective(m.handlers), Counted(m), NEW sf \in BOOLEAN,
         NEW actor, FindModal(m, actor) # 0
  PROVE  LET i == FindModal(m, actor)
         IN  /\ i \in DOMAIN m.stack /\ m.stack[i].actor = actor
             /\ Popped(m, PopModal(m, actor, sf), i, sf)
<1> DEFINE i == FindModal(m, actor)
           t == m.stack[Len(m.stack)]
           r == Removed(m, i)
           p == PopModal(m, actor, sf)
<1>1. i \in DOMAIN m.stack /\ m.stack[i].actor = actor
  BY FindModalFinds
<1> HIDE DEF i
<1>2. /\ r \in ModalState
      /\ r.modalCount = m.modalCount - 1
      /\ Shifted(m.stack, r.stack, i)
      /\ Disconnected(m.handlers, r.handlers, m.stack[i], t)
      /\ r.keyFocus = IF i = Len(m.stack) THEN t.focus ELSE m.keyFocus
      /\ r.hasModal = m.hasModal /\ r.inputMode = m.inputMode
      /\ r.unredirect = m.unredirect
  BY <1>1, RemovedEffect
<1>3. p = IF r.modalCount > 0 THEN r ELSE Release(r, sf)
  BY PopModalIs DEF i
<1> HIDE DEF r, p, t
<1>4. /\ Len(m.stack) \in Nat /\ DOMAIN m.stack = 1..Len(m.stack)
      /\ r.stack \in Seq(Record) /\ Len(r.stack) = Len(m.stack) - 1
      /\ r.modalCount = Len(r.stack)
  BY <1>2 DEF ModalState, Counted, Shifted
<1>5. CASE r.modalCount > 0
  <2>1. p = r /\ r.stack # <<>>
    BY <1>3, <1>4, <1>5
  <2> QED BY <1>1, <1>2, <2>1 DEF Popped, i, p, t
<1>6. CASE ~(r.modalCount > 0)
  <2>1. p = Release(r, sf) /\ r.stack = <<>>
    BY <1>3, <1>4, <1>6
  <2>2. /\ p \in ModalState
        /\ p.stack = r.stack /\ p.handlers = r.handlers /\ p.modalCount = r.modalCount
        /\ p.keyFocus = (IF r.hasModal /\ ~sf THEN Nobody ELSE r.keyFocus)
        /\ ~p.hasModal /\ p.inputMode = "normal"
        /\ p.unredirect = r.unredirect - 1
    BY <1>2, <2>1, ReleaseEffect
  <2>3. Len(m.stack) = 1 /\ i = 1
    BY <1>1, <1>4, <2>1
  <2>4. r.keyFocus = m.stack[1].focus
    BY <1>2, <2>3 DEF t
  <2> QED BY <1>1, <1>2, <2>1, <2>2, <2>4 DEF Popped, i, p, t
<1> QED BY <1>5, <1>6


\* The positions and the handlers of a state of the stack.
LEMMA StackIs ==
  ASSUME NEW m \in ModalState
  PROVE  /\ m.stack \in Seq(Record) /\ m.handlers \in Seq(Guards)
         /\ Len(m.stack) \in Nat /\ DOMAIN m.stack = 1..Len(m.stack)
         /\ m.stack = <<>> <=> Len(m.stack) = 0
         /\ \A i \in DOMAIN m.stack : m.stack[i] \in Record
         /\ \A h \in ToSet(m.handlers) : h \in Guards
         /\ m.keyFocus \in Actors \cup {Nobody} /\ m.modalCount \in Nat
         /\ m.hasModal \in BOOLEAN /\ m.unredirect \in Int
         /\ m.inputMode \in {"normal", "fullscreen"}
<1>1. m.stack \in Seq(Record) /\ m.handlers \in Seq(Guards)
  BY DEF ModalState, Guards
<1>2. \A h \in ToSet(m.handlers) : h \in Guards
  BY <1>1 DEF ToSet
<1>3. /\ Len(m.stack) \in Nat /\ DOMAIN m.stack = 1..Len(m.stack)
      /\ m.stack = <<>> <=> Len(m.stack) = 0
      /\ \A i \in DOMAIN m.stack : m.stack[i] \in Record
  BY <1>1
<1> QED BY <1>1, <1>2, <1>3 DEF ModalState

\* A pop keeps the first layer of the invariant.
LEMMA PoppedBase ==
  ASSUME NEW m, NEW p, NEW i \in DOMAIN m.stack, NEW sf, Base(m), Popped(m, p, i, sf)
  PROVE  Base(p)
<1> DEFINE n == Len(m.stack)
<1>1. m \in ModalState /\ p \in ModalState
  BY DEF Base, Popped
<1>2. /\ n \in Nat /\ DOMAIN m.stack = 1..n /\ m.modalCount = n /\ n > 0
      /\ Len(p.stack) = n - 1 /\ DOMAIN p.stack = 1..(n - 1) /\ p.modalCount = n - 1
      /\ p.stack = <<>> <=> n - 1 = 0
  <2>1. m.modalCount = n /\ Len(p.stack) = n - 1 /\ p.modalCount = m.modalCount - 1
    BY DEF Popped, Shifted, Base, Counted
  <2>2. n \in Nat /\ DOMAIN m.stack = 1..n /\ n > 0
    BY <1>1, StackIs
  <2>3. DOMAIN p.stack = 1..Len(p.stack) /\ (p.stack = <<>> <=> Len(p.stack) = 0)
    BY <1>1, StackIs
  <2> HIDE DEF n
  <2> QED BY <2>1, <2>2, <2>3
<1> HIDE DEF n
<1>3. \A k \in DOMAIN p.stack :
        /\ k \in DOMAIN m.stack /\ Skip(i, k) \in DOMAIN m.stack \ {i}
        /\ p.stack[k].rid = m.stack[Skip(i, k)].rid
        /\ p.stack[k].actor = m.stack[Skip(i, k)].actor
        /\ p.stack[k].focus = m.stack[k].focus
  BY DEF Popped, Shifted
<1>4. /\ \A j \in DOMAIN m.stack \ {i} : \E k \in DOMAIN p.stack : Skip(i, k) = j
      /\ \A k, l \in DOMAIN p.stack : Skip(i, k) = Skip(i, l) => k = l
  BY DEF Popped, Shifted
<1>5. Counted(p)
  BY <1>2 DEF Counted
<1>6. IdleUngrabbed(p)
  BY DEF IdleUngrabbed, Popped
<1>7. Distinct(p) /\ Once(p)
  BY <1>3, <1>4 DEF Base, Distinct, Once
<1>8. PopConnected(p)
  <2> SUFFICES ASSUME NEW k \in DOMAIN p.stack
               PROVE  PopHandler(p.stack[k]) \in ToSet(p.handlers)
    BY DEF PopConnected
  <2> DEFINE h == PopHandler(p.stack[k])
  <2>1. h = PopHandler(m.stack[Skip(i, k)])
    BY <1>3 DEF PopHandler
  <2>2. h \in ToSet(m.handlers)
    BY <1>3, <2>1 DEF Base, PopConnected
  <2>3. h # PopHandler(m.stack[i])
    BY <1>3, <2>1 DEF Base, Distinct, PopHandler, Handler
  <2>4. h # FocusHandler(m.stack[Len(m.stack)])
    BY DEF PopHandler, FocusHandler, Handler
  <2> QED BY <2>2, <2>3, <2>4 DEF Popped, Disconnected
<1>9. PopOnly(p)
  <2> SUFFICES ASSUME NEW h \in ToSet(p.handlers), h.kind = "pop"
               PROVE  \E k \in DOMAIN p.stack : h = PopHandler(p.stack[k])
    BY DEF PopOnly
  <2>1. h \in ToSet(m.handlers) /\ h # PopHandler(m.stack[i])
    BY DEF Popped, Disconnected
  <2>2. PICK j \in DOMAIN m.stack : h = PopHandler(m.stack[j])
    BY <2>1 DEF Base, PopOnly
  <2>3. PICK k \in DOMAIN p.stack : Skip(i, k) = j
    BY <1>4, <2>1, <2>2
  <2> QED BY <1>3, <2>2, <2>3 DEF PopHandler
<1>10. Bottom(p)
  <2>1. m.stack[1].focus \in Widgets \cup {Nobody}
    BY <1>1, <1>2, StackIs DEF Base, Bottom
  <2>2. CASE p.stack = <<>>
    BY <2>1, <2>2 DEF Popped, Bottom
  <2>3. CASE p.stack # <<>>
    <3>1. 1 \in DOMAIN p.stack
      BY <1>2, <2>3
    <3> QED BY <1>3, <2>1, <2>3, <3>1 DEF Bottom
  <2> QED BY <2>2, <2>3
<1>11. IsInjective(p.handlers)
  BY DEF Popped, Disconnected
<1> QED BY <1>1, <1>5, <1>6, <1>7, <1>8, <1>9, <1>10, <1>11 DEF Base

\* And the second one.
LEMMA PoppedFocus ==
  ASSUME NEW m, NEW p, NEW i \in DOMAIN m.stack, NEW sf, Base(m), Popped(m, p, i, sf),
         FocusGuarded(m)
  PROVE  FocusGuarded(p)
<1> DEFINE n == Len(m.stack)
           t == m.stack[Len(m.stack)]
<1>1. m \in ModalState /\ p \in ModalState
  BY DEF Base, Popped
<1>2. /\ n \in Nat /\ DOMAIN m.stack = 1..n /\ n > 0
      /\ Len(p.stack) = n - 1 /\ DOMAIN p.stack = 1..(n - 1)
  BY <1>1, StackIs DEF Popped, Shifted, Base, Counted
<1>3. \A k \in DOMAIN p.stack :
        /\ k \in DOMAIN m.stack /\ k # n
        /\ p.stack[k].focus = m.stack[k].focus
        /\ p.stack[k].focusDestroyId = m.stack[k].focusDestroyId
  BY <1>2 DEF Popped, Shifted
<1>4. n \in DOMAIN m.stack /\ \A j \in DOMAIN m.stack \ {n} : j \in DOMAIN p.stack
  BY <1>2
<1>5. /\ ToSet(p.handlers) \subseteq ToSet(m.handlers) \ {PopHandler(m.stack[i])}
      /\ ToSet(m.handlers) \ {PopHandler(m.stack[i]), FocusHandler(t)} \subseteq ToSet(p.handlers)
      /\ t.focus # Nobody /\ t.focusDestroyId # 0 => FocusHandler(t) \notin ToSet(p.handlers)
  BY DEF Popped, Disconnected
<1>6. FocusNumbered(p) /\ FocusDistinct(p)
  BY <1>3 DEF FocusGuarded, FocusNumbered, FocusDistinct
<1>7. FocusConnected(p)
  <2> SUFFICES ASSUME NEW k \in DOMAIN p.stack, p.stack[k].focus # Nobody
               PROVE  FocusHandler(p.stack[k]) \in ToSet(p.handlers)
    BY DEF FocusConnected
  <2> DEFINE h == FocusHandler(p.stack[k])
  <2>1. h = FocusHandler(m.stack[k])
    BY <1>3 DEF FocusHandler
  <2>2. h \in ToSet(m.handlers)
    BY <1>3, <2>1 DEF FocusGuarded, FocusConnected
  <2>3. m.stack[k].focusDestroyId # 0
    BY <1>3 DEF FocusGuarded, FocusNumbered
  <2>4. h # FocusHandler(t)
    BY <1>3, <1>4, <2>1, <2>3 DEF FocusGuarded, FocusDistinct, FocusHandler, Handler
  <2>5. h # PopHandler(m.stack[i])
    BY DEF PopHandler, FocusHandler, Handler
  <2> QED BY <1>5, <2>2, <2>4, <2>5
<1>8. FocusOnly(p)
  <2> SUFFICES ASSUME NEW h \in ToSet(p.handlers), h.kind = "focus"
               PROVE  \E k \in DOMAIN p.stack : h = FocusHandler(p.stack[k])
    BY DEF FocusOnly
  <2>1. h \in ToSet(m.handlers) /\ h \in Guards
    BY <1>1, <1>5, StackIs
  <2>2. PICK j \in DOMAIN m.stack : h = FocusHandler(m.stack[j])
    BY <2>1 DEF FocusGuarded, FocusOnly
  <2>3. h.on = m.stack[j].focus /\ h.on \in Actors
    BY <2>1, <2>2 DEF FocusHandler, Handler, Guards
  <2>4. m.stack[j].focus # Nobody /\ m.stack[j].focusDestroyId # 0
    BY <2>3, ModalAssumption DEF Actors, FocusGuarded, FocusNumbered
  <2>5. j # n
    BY <1>5, <2>2, <2>4
  <2>6. j \in DOMAIN p.stack
    BY <1>4, <2>5
  <2> QED BY <1>3, <2>2, <2>6 DEF FocusHandler
<1> QED BY <1>6, <1>7, <1>8 DEF FocusGuarded

\* And what the grab, the first focus and the living have to do with it.
RestKept(m, p) ==
    /\ Grabbed(m) => Grabbed(p)
    /\ InputHeld(m) => InputHeld(p)
    /\ \A c \in Int : Unredirected(m, c) => Unredirected(p, c)
    /\ \A al : Clear(m, al) /\ FocusAlive(m, al) => Clear(p, al) /\ FocusAlive(p, al)

FirstKept(m, p, sf) ==
    \A f : BottomIs(m, f) =>
              /\ BottomIs(p, f)
              /\ Grabbed(m) /\ p.stack = <<>> => p.keyFocus = IF sf THEN f ELSE Nobody

LEMMA PoppedRest ==
  ASSUME NEW m, NEW p, NEW i \in DOMAIN m.stack, NEW sf \in BOOLEAN, Base(m), Popped(m, p, i, sf)
  PROVE  RestKept(m, p) /\ FirstKept(m, p, sf)
<1>1. m \in ModalState /\ p \in ModalState
  BY DEF Base, Popped
<1>2. /\ Len(m.stack) \in Nat /\ DOMAIN m.stack = 1..Len(m.stack) /\ m.stack # <<>>
      /\ 1 \in DOMAIN m.stack /\ Len(m.stack) \in DOMAIN m.stack
      /\ DOMAIN p.stack = 1..(Len(m.stack) - 1)
      /\ p.stack # <<>> => 1 \in DOMAIN p.stack
  BY <1>1, StackIs DEF Popped, Shifted
<1>3. \A k \in DOMAIN p.stack : k \in DOMAIN m.stack /\ p.stack[k].focus = m.stack[k].focus
  BY DEF Popped, Shifted
<1>4. /\ p.stack # <<>> =>
           /\ p.keyFocus \in {m.keyFocus, m.stack[Len(m.stack)].focus}
           /\ p.hasModal = m.hasModal /\ p.inputMode = m.inputMode
           /\ p.unredirect = m.unredirect
      /\ p.stack = <<>> =>
           /\ p.keyFocus = IF m.hasModal /\ ~sf THEN Nobody ELSE m.stack[1].focus
           /\ ~p.hasModal /\ p.inputMode = "normal"
           /\ p.unredirect = m.unredirect - 1
  BY DEF Popped
<1>5. m.hasModal \in BOOLEAN /\ p.hasModal \in BOOLEAN /\ m.unredirect \in Int
  BY <1>1, StackIs
<1>6. (Grabbed(m) => Grabbed(p)) /\ (InputHeld(m) => InputHeld(p))
  BY <1>2, <1>4, <1>5 DEF Grabbed, InputHeld
<1>7. \A c \in Int : Unredirected(m, c) => Unredirected(p, c)
  BY <1>2, <1>4, <1>5 DEF Unredirected
<1>8. \A al : Clear(m, al) => Clear(p, al)
  BY <1>3 DEF Clear
<1>9. \A al : Clear(m, al) /\ FocusAlive(m, al) => FocusAlive(p, al)
  BY <1>2, <1>4 DEF Clear, FocusAlive
<1>10. \A f : BottomIs(m, f) => BottomIs(p, f)
  BY <1>2, <1>3 DEF BottomIs
<1>11. \A f : Grabbed(m) /\ BottomIs(m, f) /\ p.stack = <<>> =>
                p.keyFocus = IF sf THEN f ELSE Nobody
  BY <1>2, <1>4, <1>5 DEF Grabbed, BottomIs
<1> QED BY <1>6, <1>7, <1>8, <1>9, <1>10, <1>11 DEF RestKept, FirstKept


-----------------------------------------------------------------------------
(* A push keeps the invariant. *)

\* The state before pushModal's record is made: the first push has the grab.
Pushed(m, p, actor) ==
    LET r == NewRecord(m, actor)
    IN  /\ p \in ModalState
        /\ r \in Record
        /\ p.modalCount = m.modalCount + 1
        /\ p.stack = Append(m.stack, r)
        /\ p.keyFocus = actor
        /\ p.inputMode = "fullscreen"
        /\ p.hasModal = (m.modalCount > 0 => m.hasModal)
        /\ p.unredirect = m.unredirect + (IF m.modalCount > 0 THEN 0 ELSE 1)
        /\ IsInjective(p.handlers)
        /\ ToSet(p.handlers) = ToSet(m.handlers) \cup {PopHandler(r)}
             \cup (IF m.keyFocus = Nobody THEN {} ELSE {FocusHandler(r)})

LEMMA PushModalEffect ==
  ASSUME NEW m \in ModalState, IsInjective(m.handlers), NEW actor \in Owners,
         NEW granted \in BOOLEAN, PushSucceeds(m, granted)
  PROVE  Pushed(m, PushModal(m, actor, granted), actor)
<1> DEFINE p == PushModal(m, actor, granted)
<1>1. m.modalCount \in Nat /\ m.hasModal \in BOOLEAN /\ m.unredirect \in Int
  BY StackIs
<1>2. CASE m.modalCount > 0
  <2>1. p = PushRecord(m, actor)
    BY <1>2 DEF PushModal
  <2>2. Recorded(m, p, actor)
    BY <2>1, PushRecordEffect
  <2> QED BY <1>1, <1>2, <2>2 DEF Pushed, Recorded
<1>3. CASE ~(m.modalCount > 0)
  <2> DEFINE g == [m EXCEPT !.hasModal = TRUE, !.unredirect = m.unredirect + 1]
  <2>1. p = PushRecord(g, actor)
    BY <1>3 DEF PushModal
  <2>0. g = [m EXCEPT !.hasModal = TRUE, !.unredirect = m.unredirect + 1]
    OBVIOUS
  <2> HIDE DEF g
  <2>2. g = [modalCount |-> m.modalCount, stack |-> m.stack, handlers |-> m.handlers,
             keyFocus |-> m.keyFocus, hasModal |-> TRUE, inputMode |-> m.inputMode,
             unredirect |-> m.unredirect + 1]
    BY <2>0 DEF ModalState
  <2>3. g \in ModalState
    BY <1>1, <2>2 DEF ModalState
  <2>4. /\ g.modalCount = m.modalCount /\ g.stack = m.stack /\ g.handlers = m.handlers
        /\ g.keyFocus = m.keyFocus /\ g.hasModal /\ g.unredirect = m.unredirect + 1
    BY <2>2
  <2>5. NewRecord(g, actor) = NewRecord(m, actor)
    BY <2>4 DEF NewRecord, NewRid
  <2>6. Recorded(g, p, actor)
    BY <2>1, <2>3, <2>4, PushRecordEffect
  <2> QED BY <1>1, <1>3, <2>4, <2>5, <2>6 DEF Pushed, Recorded
<1> QED BY <1>2, <1>3

\* The new stack has the old records and the new one.
LEMMA PushedStack ==
  ASSUME NEW m, NEW p, NEW actor \in Owners, m \in ModalState, Pushed(m, p, actor)
  PROVE  LET r == NewRecord(m, actor)
             n == Len(m.stack)
         IN  /\ n \in Nat /\ DOMAIN m.stack = 1..n /\ DOMAIN p.stack = 1..(n + 1)
             /\ p.stack # <<>> /\ Len(p.stack) = n + 1
             /\ \A k \in DOMAIN m.stack : k \in DOMAIN p.stack /\ p.stack[k] = m.stack[k]
             /\ n + 1 \in DOMAIN p.stack /\ n + 1 \notin DOMAIN m.stack /\ p.stack[n + 1] = r
             /\ \A k \in DOMAIN p.stack : k \in DOMAIN m.stack \/ k = n + 1
<1> DEFINE r == NewRecord(m, actor)
           n == Len(m.stack)
<1>1. m.stack \in Seq(Record) /\ r \in Record /\ p.stack = Append(m.stack, r)
  BY StackIs DEF Pushed
<1>2. n \in Nat /\ DOMAIN m.stack = 1..n
  BY <1>1
<1> HIDE DEF r
<1>3. /\ p.stack \in Seq(Record) /\ Len(p.stack) = n + 1
      /\ \A k \in DOMAIN m.stack : k \in DOMAIN p.stack /\ p.stack[k] = m.stack[k]
      /\ p.stack[n + 1] = r
      /\ \A k \in DOMAIN p.stack : k \in DOMAIN m.stack \/ k = n + 1
  BY ONLY <1>1, AppendKeeps
<1> HIDE DEF n
<1>4. DOMAIN p.stack = 1..(n + 1) /\ p.stack # <<>>
  BY <1>2, <1>3
<1>5. n + 1 \in 1..(n + 1) /\ n + 1 \notin 1..n
  BY <1>2
<1> QED BY <1>2, <1>3, <1>4, <1>5 DEF r, n

LEMMA PushedBase ==
  ASSUME NEW m, NEW p, NEW actor \in Owners, Base(m), Pushed(m, p, actor),
         actor \in Destroyable => FindModal(m, actor) = 0
  PROVE  Base(p)
<1> DEFINE r == NewRecord(m, actor)
           n == Len(m.stack)
<1>0. m \in ModalState
  BY DEF Base
<1>1. /\ n \in Nat /\ DOMAIN m.stack = 1..n /\ DOMAIN p.stack = 1..(n + 1)
      /\ p.stack # <<>> /\ Len(p.stack) = n + 1
      /\ \A k \in DOMAIN m.stack : k \in DOMAIN p.stack /\ p.stack[k] = m.stack[k]
      /\ n + 1 \in DOMAIN p.stack /\ n + 1 \notin DOMAIN m.stack /\ p.stack[n + 1] = r
      /\ \A k \in DOMAIN p.stack : k \in DOMAIN m.stack \/ k = n + 1
  BY <1>0, PushedStack
<1>2. /\ p \in ModalState /\ p.modalCount = m.modalCount + 1
      /\ IsInjective(p.handlers)
      /\ ToSet(p.handlers) = ToSet(m.handlers) \cup {PopHandler(r)}
             \cup (IF m.keyFocus = Nobody THEN {} ELSE {FocusHandler(r)})
  BY DEF Pushed
<1>3. r.rid = NewRid(m) /\ r.actor = actor /\ r.focus = m.keyFocus
  BY DEF NewRecord
<1>4. \A k \in DOMAIN m.stack : m.stack[k].rid # r.rid
  BY <1>0, <1>3, NewRidIsNew DEF Used
<1>5. actor \in Destroyable => \A k \in DOMAIN m.stack : m.stack[k].actor # actor
  BY <1>0, FindModalFinds
<1> HIDE DEF r, n
<1>6. Counted(p) /\ IdleUngrabbed(p)
  BY <1>1, <1>2 DEF Counted, IdleUngrabbed, Base, n
<1>7. Distinct(p)
  BY <1>1, <1>4 DEF Distinct, Base
<1>8. Once(p)
  <2> SUFFICES ASSUME NEW k \in DOMAIN p.stack, NEW l \in DOMAIN p.stack,
                      p.stack[k].actor = p.stack[l].actor, p.stack[k].actor \in Destroyable
               PROVE  k = l
    BY DEF Once
  <2>1. CASE k \in DOMAIN m.stack /\ l \in DOMAIN m.stack
    BY <1>1, <2>1 DEF Once, Base
  <2>2. CASE ~(k \in DOMAIN m.stack /\ l \in DOMAIN m.stack)
    BY <1>1, <1>3, <1>5, <2>2
  <2> QED BY <2>1, <2>2
<1>9. PopConnected(p)
  BY <1>1, <1>2 DEF PopConnected, Base
<1>10. PopOnly(p)
  <2> SUFFICES ASSUME NEW h \in ToSet(p.handlers), h.kind = "pop"
               PROVE  \E k \in DOMAIN p.stack : h = PopHandler(p.stack[k])
    BY DEF PopOnly
  <2>1. FocusHandler(r).kind = "focus"
    BY DEF FocusHandler, Handler
  <2>2. h \in ToSet(m.handlers) \/ h = PopHandler(r)
    BY <1>2, <2>1
  <2> QED BY <1>1, <2>2 DEF PopOnly, Base
<1>11. Bottom(p)
  <2>1. CASE m.stack = <<>>
    <3>1. n = 0
      BY <2>1 DEF n
    <3>2. p.stack[1].focus = m.keyFocus
      BY <1>1, <1>3, <3>1
    <3> QED BY <1>1, <2>1, <3>2 DEF Bottom, Base
  <2>2. CASE m.stack # <<>>
    <3>1. 1 \in DOMAIN m.stack
      BY <1>0, <2>2, StackIs
    <3> QED BY <1>1, <2>2, <3>1 DEF Bottom, Base
  <2> QED BY <2>1, <2>2
<1> QED BY <1>2, <1>6, <1>7, <1>8, <1>9, <1>10, <1>11 DEF Base

LEMMA PushedFocus ==
  ASSUME NEW m, NEW p, NEW actor \in Owners, m \in ModalState, Pushed(m, p, actor),
         FocusGuarded(m)
  PROVE  FocusGuarded(p)
<1> DEFINE r == NewRecord(m, actor)
           n == Len(m.stack)
<1>1. /\ \A k \in DOMAIN m.stack : k \in DOMAIN p.stack /\ p.stack[k] = m.stack[k]
      /\ n + 1 \in DOMAIN p.stack /\ n + 1 \notin DOMAIN m.stack /\ p.stack[n + 1] = r
      /\ \A k \in DOMAIN p.stack : k \in DOMAIN m.stack \/ k = n + 1
  BY PushedStack
<1>2. ToSet(p.handlers) = ToSet(m.handlers) \cup {PopHandler(r)}
             \cup (IF m.keyFocus = Nobody THEN {} ELSE {FocusHandler(r)})
  BY DEF Pushed
<1>3. /\ r.focus = m.keyFocus
      /\ r.focusDestroyId = IF m.keyFocus = Nobody THEN 0 ELSE NewRid(m)
  BY DEF NewRecord
<1>4. NewRid(m) # 0 /\ \A k \in DOMAIN m.stack : m.stack[k].focusDestroyId # NewRid(m)
  BY NewRidIsNew DEF Used
<1> HIDE DEF r, n
<1>5. FocusNumbered(p)
  BY <1>1, <1>3, <1>4 DEF FocusNumbered, FocusGuarded
<1>6. FocusDistinct(p)
  <2> SUFFICES ASSUME NEW k \in DOMAIN p.stack, NEW l \in DOMAIN p.stack,
                      p.stack[k].focusDestroyId = p.stack[l].focusDestroyId,
                      p.stack[k].focusDestroyId # 0
               PROVE  k = l
    BY DEF FocusDistinct
  <2>1. CASE k \in DOMAIN m.stack /\ l \in DOMAIN m.stack
    BY <1>1, <2>1 DEF FocusDistinct, FocusGuarded
  <2>2. CASE ~(k \in DOMAIN m.stack /\ l \in DOMAIN m.stack)
    BY <1>1, <1>3, <1>4, <2>2
  <2> QED BY <2>1, <2>2
<1>7. FocusConnected(p)
  <2> SUFFICES ASSUME NEW k \in DOMAIN p.stack, p.stack[k].focus # Nobody
               PROVE  FocusHandler(p.stack[k]) \in ToSet(p.handlers)
    BY DEF FocusConnected
  <2>1. CASE k \in DOMAIN m.stack
    BY <1>1, <1>2, <2>1 DEF FocusConnected, FocusGuarded
  <2>2. CASE k = n + 1
    BY <1>1, <1>2, <1>3, <2>2
  <2> QED BY <1>1, <2>1, <2>2
<1>8. FocusOnly(p)
  <2> SUFFICES ASSUME NEW h \in ToSet(p.handlers), h.kind = "focus"
               PROVE  \E k \in DOMAIN p.stack : h = FocusHandler(p.stack[k])
    BY DEF FocusOnly
  <2>1. PopHandler(r).kind = "pop"
    BY DEF PopHandler, Handler
  <2>2. h \in ToSet(m.handlers) \/ h = FocusHandler(r)
    BY <1>2, <2>1
  <2>3. CASE h \in ToSet(m.handlers)
    <3>1. PICK k \in DOMAIN m.stack : h = FocusHandler(m.stack[k])
      BY <2>3 DEF FocusOnly, FocusGuarded
    <3> QED BY <1>1, <3>1
  <2>4. CASE h = FocusHandler(r)
    BY <1>1, <2>4
  <2> QED BY <2>2, <2>3, <2>4
<1> QED BY <1>5, <1>6, <1>7, <1>8 DEF FocusGuarded

LEMMA PushedRest ==
  ASSUME NEW m, NEW p, NEW actor \in Owners, Base(m), Pushed(m, p, actor)
  PROVE  /\ Grabbed(m) => Grabbed(p)
         /\ InputHeld(p)
         /\ \A c \in Int : Unredirected(m, c) => Unredirected(p, c)
         /\ \A al : Clear(m, al) /\ FocusAlive(m, al) => Clear(p, al)
         /\ \A al : actor \in al => FocusAlive(p, al)
         /\ \A f : BottomIs(m, f) /\ (m.stack = <<>> => f = m.keyFocus) => BottomIs(p, f)
<1> DEFINE r == NewRecord(m, actor)
           n == Len(m.stack)
<1>0. m \in ModalState /\ m.modalCount = n
  BY DEF Base, Counted
<1>1. /\ n \in Nat /\ p.stack # <<>>
      /\ \A k \in DOMAIN m.stack : k \in DOMAIN p.stack /\ p.stack[k] = m.stack[k]
      /\ n + 1 \in DOMAIN p.stack /\ n + 1 \notin DOMAIN m.stack /\ p.stack[n + 1] = r
      /\ \A k \in DOMAIN p.stack : k \in DOMAIN m.stack \/ k = n + 1
  BY <1>0, PushedStack
<1>2. /\ p.keyFocus = actor /\ p.inputMode = "fullscreen"
      /\ p.hasModal = (m.modalCount > 0 => m.hasModal)
      /\ p.unredirect = m.unredirect + (IF m.modalCount > 0 THEN 0 ELSE 1)
  BY DEF Pushed
<1>3. r.focus = m.keyFocus
  BY DEF NewRecord
<1>4. /\ m.stack = <<>> <=> ~(m.modalCount > 0)
      /\ m.stack # <<>> => 1 \in DOMAIN m.stack
      /\ m.stack = <<>> => n + 1 = 1
      /\ m.hasModal \in BOOLEAN /\ m.unredirect \in Int
  BY <1>0, StackIs
<1> HIDE DEF r, n
<1>5. (Grabbed(m) => Grabbed(p)) /\ InputHeld(p)
  BY <1>1, <1>2, <1>4 DEF Grabbed, InputHeld
<1>6. \A c \in Int : Unredirected(m, c) => Unredirected(p, c)
  BY <1>1, <1>2, <1>4 DEF Unredirected
<1>7. \A al : Clear(m, al) /\ FocusAlive(m, al) => Clear(p, al)
  BY <1>1, <1>3 DEF Clear, FocusAlive
<1>8. \A al : actor \in al => FocusAlive(p, al)
  BY <1>2 DEF FocusAlive
<1>9. \A f : BottomIs(m, f) /\ (m.stack = <<>> => f = m.keyFocus) => BottomIs(p, f)
  BY <1>1, <1>3, <1>4 DEF BottomIs
<1> QED BY <1>5, <1>6, <1>7, <1>8, <1>9


-----------------------------------------------------------------------------
(* The destruction of an actor: what its handlers do, one after the other. *)

\* One handler of the destroyed actor.
Emit(s, h, actor, sf) ==
    IF h.on = actor THEN Disconnect(RunHandler(s, h, sf), h) ELSE s

LEMMA DisconnectEffect ==
  ASSUME NEW s \in ModalState, IsInjective(s.handlers), NEW h
  PROVE  LET t == Disconnect(s, h)
         IN  /\ t \in ModalState
             /\ IsInjective(t.handlers) /\ ToSet(t.handlers) = ToSet(s.handlers) \ {h}
             /\ t.stack = s.stack /\ t.modalCount = s.modalCount /\ t.keyFocus = s.keyFocus
             /\ t.hasModal = s.hasModal /\ t.inputMode = s.inputMode
             /\ t.unredirect = s.unredirect
             /\ h \notin ToSet(s.handlers) => t = s
<1> DEFINE q == RemoveFirst(s.handlers, h)
           t == Disconnect(s, h)
<1>1. s.handlers \in Seq(Guards)
  BY StackIs
<1>2. q \in Seq(Guards) /\ IsInjective(q) /\ ToSet(q) = ToSet(s.handlers) \ {h}
  BY <1>1, RemoveFirstKeeps
<1>3. h \notin ToSet(s.handlers) => q = s.handlers
  <2>1. DOMAIN s.handlers = 1..Len(s.handlers)
    BY <1>1
  <2> QED BY <2>1 DEF RemoveFirst, ToSet
<1>4. t = [s EXCEPT !.handlers = q]
  BY DEF Disconnect, ModalState
<1> HIDE DEF q, t
<1>5. t = [modalCount |-> s.modalCount, stack |-> s.stack, handlers |-> q,
           keyFocus |-> s.keyFocus, hasModal |-> s.hasModal, inputMode |-> s.inputMode,
           unredirect |-> s.unredirect]
  BY <1>4 DEF ModalState
<1>6. t \in ModalState
  BY <1>2, <1>5 DEF ModalState, Guards
<1>7. h \notin ToSet(s.handlers) => t = s
  BY <1>3, <1>4 DEF ModalState
<1> QED BY <1>2, <1>5, <1>6, <1>7 DEF t

\* The handler of a remembered focus clears its record.
Forgotten(r) == [r EXCEPT !.focus = Nobody, !.focusDestroyId = 0]

ClearedStack(q, rid) ==
    [k \in DOMAIN q |-> IF q[k].rid = rid THEN Forgotten(q[k]) ELSE q[k]]

LEMMA ForgottenIs ==
  ASSUME NEW r \in Record
  PROVE  /\ Forgotten(r) \in Record
         /\ Forgotten(r).rid = r.rid /\ Forgotten(r).actor = r.actor
         /\ Forgotten(r).focus = Nobody /\ Forgotten(r).focusDestroyId = 0
<1> DEFINE e == Forgotten(r)
<1>1. e = [r EXCEPT !.focus = Nobody, !.focusDestroyId = 0]
  BY DEF Forgotten
<1> HIDE DEF e
<1>2. e = [rid |-> r.rid, actor |-> r.actor, focus |-> Nobody,
           pushFocus |-> r.pushFocus, focusDestroyId |-> 0]
  BY <1>1 DEF Record
<1>3. e \in Record
  BY <1>2 DEF Record
<1> QED BY <1>2, <1>3 DEF e

Cleared(s, t, h) ==
    /\ t \in ModalState
    /\ DOMAIN t.stack = DOMAIN s.stack
    /\ t.stack = <<>> <=> s.stack = <<>>
    /\ Len(t.stack) = Len(s.stack)
    /\ \A k \in DOMAIN s.stack :
          /\ t.stack[k].rid = s.stack[k].rid /\ t.stack[k].actor = s.stack[k].actor
          /\ t.stack[k].focus = IF s.stack[k].rid = h.rid THEN Nobody ELSE s.stack[k].focus
          /\ t.stack[k].focusDestroyId = IF s.stack[k].rid = h.rid THEN 0
                                         ELSE s.stack[k].focusDestroyId
    /\ IsInjective(t.handlers) /\ ToSet(t.handlers) = ToSet(s.handlers) \ {h}
    /\ t.modalCount = s.modalCount /\ t.keyFocus = s.keyFocus
    /\ t.hasModal = s.hasModal /\ t.inputMode = s.inputMode
    /\ t.unredirect = s.unredirect

LEMMA FocusHandlerEffect ==
  ASSUME NEW s \in ModalState, IsInjective(s.handlers), NEW h \in ToSet(s.handlers),
         h.kind = "focus", NEW sf
  PROVE  Cleared(s, Disconnect(RunHandler(s, h, sf), h), h)
<1> DEFINE q == ClearedStack(s.stack, h.rid)
           u == RunHandler(s, h, sf)
           t == Disconnect(u, h)
<1>1. s.stack \in Seq(Record) /\ s.handlers \in Seq(Guards)
  BY StackIs
<1>2. /\ q \in Seq(Record) /\ DOMAIN q = DOMAIN s.stack /\ Len(q) = Len(s.stack)
      /\ \A k \in DOMAIN s.stack :
            /\ q[k].rid = s.stack[k].rid /\ q[k].actor = s.stack[k].actor
            /\ q[k].focus = IF s.stack[k].rid = h.rid THEN Nobody ELSE s.stack[k].focus
            /\ q[k].focusDestroyId = IF s.stack[k].rid = h.rid THEN 0
                                     ELSE s.stack[k].focusDestroyId
  <2> DEFINE n == Len(s.stack)
  <2>1. n \in Nat /\ DOMAIN s.stack = 1..n /\ \A k \in 1..n : s.stack[k] \in Record
    BY <1>1
  <2>2. DOMAIN q = 1..n
    BY <2>1 DEF ClearedStack
  <2>3. ASSUME NEW k \in 1..n
        PROVE  /\ q[k] \in Record
               /\ q[k].rid = s.stack[k].rid /\ q[k].actor = s.stack[k].actor
               /\ q[k].focus = IF s.stack[k].rid = h.rid THEN Nobody ELSE s.stack[k].focus
               /\ q[k].focusDestroyId = IF s.stack[k].rid = h.rid THEN 0
                                        ELSE s.stack[k].focusDestroyId
    <3>1. q[k] = IF s.stack[k].rid = h.rid THEN Forgotten(s.stack[k]) ELSE s.stack[k]
      BY <2>1 DEF ClearedStack
    <3> HIDE DEF q
    <3>2. s.stack[k] \in Record
      BY <2>1
    <3> QED BY <3>1, <3>2, ForgottenIs
  <2>4. q \in [1..n -> Record]
    <3>1. q = [k \in 1..n |-> q[k]]
      BY <2>1 DEF ClearedStack
    <3> HIDE DEF q
    <3> QED BY <2>3, <3>1
  <2> HIDE DEF q
  <2>5. q \in Seq(Record) /\ Len(q) = n
    BY <2>1, <2>2, <2>4
  <2> QED BY <2>1, <2>2, <2>3, <2>5
<1>3. u = [s EXCEPT !.stack = q]
  <2>1. Contains(s.handlers, h)
    BY <1>1 DEF Contains, ToSet
  <2> QED BY <2>1 DEF RunHandler, ClearedStack, Forgotten, ModalState
<1> HIDE DEF q, u
<1>4. u = [modalCount |-> s.modalCount, stack |-> q, handlers |-> s.handlers,
           keyFocus |-> s.keyFocus, hasModal |-> s.hasModal, inputMode |-> s.inputMode,
           unredirect |-> s.unredirect]
  BY <1>3 DEF ModalState
<1>5. u \in ModalState
  BY <1>2, <1>4 DEF ModalState
<1>6. /\ t \in ModalState
      /\ IsInjective(t.handlers) /\ ToSet(t.handlers) = ToSet(u.handlers) \ {h}
      /\ t.stack = u.stack /\ t.modalCount = u.modalCount /\ t.keyFocus = u.keyFocus
      /\ t.hasModal = u.hasModal /\ t.inputMode = u.inputMode
      /\ t.unredirect = u.unredirect
  <2>1. IsInjective(u.handlers)
    BY <1>4
  <2> QED BY ONLY <1>5, <2>1, DisconnectEffect
<1> HIDE DEF t
<1>7. t.stack = <<>> <=> s.stack = <<>>
  BY <1>1, <1>2, <1>4, <1>6
<1> QED BY <1>2, <1>4, <1>6, <1>7 DEF Cleared, t, u

\* What the emission for one handler may do.
Emitted(s, t, h, actor, sf) ==
    \/ t = s /\ (h.on # actor \/ h \notin ToSet(s.handlers))
    \/ \E i \in DOMAIN s.stack : /\ s.stack[i].actor = actor /\ h = PopHandler(s.stack[i])
                                 /\ Popped(s, t, i, sf)
    \/ /\ h \in ToSet(s.handlers) /\ h.kind = "focus" /\ h.on = actor
       /\ Cleared(s, t, h)

LEMMA EmitEffect ==
  ASSUME NEW s, Base(s), NEW h \in Guards, NEW actor \in Destroyable, NEW sf \in BOOLEAN
  PROVE  Emitted(s, Emit(s, h, actor, sf), h, actor, sf)
<1> DEFINE t == Emit(s, h, actor, sf)
<1>1. s \in ModalState /\ IsInjective(s.handlers) /\ Counted(s)
  BY DEF Base
<1>2. Contains(s.handlers, h) <=> h \in ToSet(s.handlers)
  <2>1. DOMAIN s.handlers = 1..Len(s.handlers)
    BY <1>1, StackIs
  <2> QED BY <2>1 DEF Contains, ToSet
<1>3. CASE h.on # actor
  BY <1>3 DEF Emit, Emitted
<1>4. CASE h.on = actor /\ h \notin ToSet(s.handlers)
  <2>1. t = Disconnect(s, h)
    BY <1>2, <1>4 DEF Emit, RunHandler
  <2>2. t = s
    BY <1>1, <1>4, <2>1, DisconnectEffect
  <2> QED BY <1>4, <2>2 DEF Emitted
<1>5. CASE h.on = actor /\ h \in ToSet(s.handlers) /\ h.kind = "pop"
  <2> DEFINE i == FindModal(s, actor)
             p == PopModal(s, actor, sf)
  <2>1. PICK j \in DOMAIN s.stack : h = PopHandler(s.stack[j])
    BY <1>5 DEF Base, PopOnly
  <2>2. s.stack[j].actor = actor
    BY <1>5, <2>1 DEF PopHandler, Handler
  <2>3. i # 0 /\ i > 0 /\ i \in DOMAIN s.stack /\ s.stack[i].actor = actor
    BY <1>1, <2>2, FindModalFinds
  <2>4. i = j
    BY <2>2, <2>3 DEF Base, Once
  <2>5. Popped(s, p, i, sf)
    BY <1>1, <2>3, PopModalEffect
  <2>6. t = Disconnect(p, h)
    BY <1>2, <1>5, <2>3 DEF Emit, RunHandler
  <2> HIDE DEF p, i
  <2>7. p \in ModalState /\ IsInjective(p.handlers) /\ h \notin ToSet(p.handlers)
    BY <2>1, <2>4, <2>5 DEF Popped, Disconnected
  <2>8. t = p
    BY <2>6, <2>7, DisconnectEffect
  <2> QED BY <2>1, <2>2, <2>4, <2>5, <2>8 DEF Emitted
<1>6. CASE h.on = actor /\ h \in ToSet(s.handlers) /\ h.kind = "focus"
  <2>1. t = Disconnect(RunHandler(s, h, sf), h)
    BY <1>6 DEF Emit
  <2>2. Cleared(s, t, h)
    BY <1>1, <1>6, <2>1, FocusHandlerEffect
  <2> QED BY <1>6, <2>2 DEF Emitted
<1> QED BY <1>3, <1>4, <1>5, <1>6 DEF Guards

LEMMA ClearedBase ==
  ASSUME NEW s, Base(s), NEW t, NEW h, h.kind = "focus", Cleared(s, t, h)
  PROVE  Base(t)
<1>1. s \in ModalState /\ t \in ModalState
  BY DEF Base, Cleared
<1>2. /\ DOMAIN t.stack = DOMAIN s.stack
      /\ \A k \in DOMAIN s.stack :
          /\ t.stack[k].rid = s.stack[k].rid /\ t.stack[k].actor = s.stack[k].actor
          /\ t.stack[k].focus \in {Nobody, s.stack[k].focus}
      /\ IsInjective(t.handlers) /\ ToSet(t.handlers) = ToSet(s.handlers) \ {h}
  BY DEF Cleared
<1>3. Counted(t) /\ IdleUngrabbed(t)
  BY DEF Cleared, Base, Counted, IdleUngrabbed
<1>4. Distinct(t) /\ Once(t)
  BY <1>2 DEF Base, Distinct, Once
<1>5. \A k \in DOMAIN s.stack : PopHandler(t.stack[k]) = PopHandler(s.stack[k])
                                /\ PopHandler(t.stack[k]) # h
  BY <1>2 DEF PopHandler, Handler
<1>6. PopConnected(t) /\ PopOnly(t)
  BY <1>2, <1>5 DEF Base, PopConnected, PopOnly
<1>7. Bottom(t)
  <2>1. CASE s.stack = <<>>
    BY <2>1 DEF Bottom, Base, Cleared
  <2>2. CASE s.stack # <<>>
    <3>1. 1 \in DOMAIN s.stack /\ t.stack # <<>>
      BY <1>1, <2>2, StackIs DEF Cleared
    <3> QED BY <1>2, <2>2, <3>1 DEF Bottom, Base
  <2> QED BY <2>1, <2>2
<1> QED BY <1>1, <1>2, <1>3, <1>4, <1>6, <1>7 DEF Base

LEMMA EmittedBase ==
  ASSUME NEW s, NEW t, NEW h, NEW actor, NEW sf \in BOOLEAN, Base(s), Emitted(s, t, h, actor, sf)
  PROVE  Base(t)
BY PoppedBase, ClearedBase DEF Emitted


BaseStates == {m \in ModalState : Base(m)}

Unfocused(m, actor) == [m EXCEPT !.keyFocus = IF @ = actor THEN Nobody ELSE @]

\* The destruction is a sequence of emissions; the key focus goes last.
Emissions(m, tr, actor, sf) ==
    /\ tr[0] = m
    /\ \A k \in 1..Len(m.handlers) :
          Emitted(tr[k - 1], tr[k], m.handlers[k], actor, sf)
    /\ \A k \in 0..Len(m.handlers) : Base(tr[k])

LEMMA DestroySteps ==
  ASSUME NEW m, Base(m), NEW actor \in Destroyable, NEW sf \in BOOLEAN
  PROVE  \E tr : /\ Emissions(m, tr, actor, sf)
                 /\ DestroyActor(m, actor, sf) = Unfocused(tr[Len(m.handlers)], actor)
<1> DEFINE X == BaseStates
           hs == m.handlers
           n == Len(m.handlers)
           step == [p \in X \X Guards |-> Emit(p[1], p[2], actor, sf)]
           e(u, h) == Emit(u, h, actor, sf)
           Eq(jt) == jt = [t \in SUBSET (1 .. n) |->
                             IF t = {} THEN m ELSE e(jt[t \ {Max(t)}], hs[Max(t)])]
<1>0. m \in X
  BY DEF BaseStates, Base
<1>1. n \in Nat /\ hs \in [1 .. n -> Guards] /\ DOMAIN hs = 1 .. n
  <2>1. hs \in Seq(Guards)
    BY StackIs DEF Base
  <2> QED BY <2>1
<1>2. \A y \in X, h \in Guards :
         Emit(y, h, actor, sf) \in X /\ Emitted(y, Emit(y, h, actor, sf), h, actor, sf)
  <2> SUFFICES ASSUME NEW y \in X, NEW h \in Guards
               PROVE  Emit(y, h, actor, sf) \in X
                      /\ Emitted(y, Emit(y, h, actor, sf), h, actor, sf)
    OBVIOUS
  <2>1. Base(y)
    BY DEF BaseStates
  <2>2. Emitted(y, Emit(y, h, actor, sf), h, actor, sf)
    BY <2>1, EmitEffect
  <2>3. Base(Emit(y, h, actor, sf))
    BY <2>1, <2>2, EmittedBase
  <2> QED BY <2>2, <2>3 DEF BaseStates, Base
<1>3. step \in [X \X Guards -> X]
  BY <1>2
<1>4. PICK it \in [SUBSET (1 .. n) -> X] : FoldEq(it, step, m, hs, n)
  <2> HIDE DEF step, n, X, hs
  <2> QED BY <1>0, <1>1, <1>3, FoldExists
<1>5. Eq(it)
  <2>1. ASSUME NEW t \in SUBSET (1 .. n), t # {}
        PROVE  step[<<it[t \ {Max(t)}], hs[Max(t)]>>] = Emit(it[t \ {Max(t)}], hs[Max(t)], actor, sf)
    <3>1. Max(t) \in 1 .. n
      <4> HIDE DEF n
      <4> QED BY <1>1, <2>1, MaxIsLast
    <3>2. t \ {Max(t)} \in SUBSET (1 .. n)
      OBVIOUS
    <3>3. <<it[t \ {Max(t)}], hs[Max(t)]>> \in X \X Guards
      <4> HIDE DEF X, n, hs
      <4> QED BY <1>1, <1>4, <3>1, <3>2
    <3> QED BY <3>3
  <2> HIDE DEF step, hs
  <2> QED BY <1>4, <2>1 DEF FoldEq
<1> HIDE DEF step
<1>6. DestroyActor(m, actor, sf) = Unfocused((CHOOSE jt : Eq(jt))[1 .. n], actor)
  <2> DEFINE f == (CHOOSE jt : Eq(jt))[1 .. n]
  <2>1. FoldLeft(LAMBDA u, h : Emit(u, h, actor, sf), m, hs) = f
    BY <1>1 DEF FoldLeft, MapThenFoldSet
  <2>2. DestroyActor(m, actor, sf) =
          Unfocused(FoldLeft(LAMBDA u, h : Emit(u, h, actor, sf), m, hs), actor)
    BY DEF DestroyActor, Unfocused, Emit
  <2> QED BY <2>1, <2>2
<1>7. PICK jt : Eq(jt) /\ DestroyActor(m, actor, sf) = Unfocused(jt[1 .. n], actor)
  BY <1>5, <1>6
<1> DEFINE tr == [k \in 0 .. n |-> jt[1 .. k]]
<1>8. jt[{}] = m /\ \A k \in 1 .. n : jt[1 .. k] = e(jt[1 .. (k - 1)], hs[k])
  <2>1. {} \in SUBSET (1 .. n)
    OBVIOUS
  <2> HIDE DEF n
  <2>2. \A k \in 1 .. n : /\ 1 .. k \in SUBSET (1 .. n) /\ 1 .. k # {}
                          /\ Max(1 .. k) = k /\ (1 .. k) \ {k} = 1 .. (k - 1)
    BY <1>1, FoldSteps
  <2>3. Eq(jt)
    BY <1>7
  <2> HIDE DEF hs, e
  <2>4. jt[{}] = m
    BY ONLY <2>1, <2>3
  <2>5. ASSUME NEW k \in 1 .. n PROVE jt[1 .. k] = e(jt[1 .. (k - 1)], hs[k])
    <3>1. /\ 1 .. k \in SUBSET (1 .. n) /\ 1 .. k # {}
          /\ Max(1 .. k) = k /\ (1 .. k) \ {k} = 1 .. (k - 1)
      BY <2>2
    <3>2. jt[1 .. k] = e(jt[(1 .. k) \ {Max(1 .. k)}], hs[Max(1 .. k)])
      BY ONLY <2>3, <3>1
    <3> QED BY ONLY <3>1, <3>2
  <2> QED BY <2>4, <2>5
<1>9. 1 .. 0 = {} /\ 0 \in 0 .. n /\ n \in 0 .. n
      /\ \A k \in 1 .. n : k \in 0 .. n /\ k - 1 \in 0 .. n
  BY <1>1
<1>10. /\ tr[0] = m /\ DestroyActor(m, actor, sf) = Unfocused(tr[n], actor)
       /\ \A k \in 1 .. n : tr[k] = Emit(tr[k - 1], hs[k], actor, sf)
  BY <1>7, <1>8, <1>9
<1> HIDE DEF tr
<1>11. \A k \in 0 .. n : tr[k] \in X
  <2> DEFINE S == {k \in 0 .. n : tr[k] \in X}
  <2>1. 0 \in S
    BY <1>0, <1>9, <1>10
  <2>2. \A k \in 1 .. n : k - 1 \in S => k \in S
    BY <1>1, <1>2, <1>9, <1>10
  <2> HIDE DEF S, n
  <2>3. \A k \in 0 .. n : k \in S
    BY <1>1, <2>1, <2>2, StepsInduct
  <2> QED BY <2>3 DEF S
<1>12. \A k \in 1 .. n : Emitted(tr[k - 1], tr[k], hs[k], actor, sf)
  BY <1>1, <1>2, <1>9, <1>10, <1>11
<1>13. \A k \in 0 .. n : Base(tr[k])
  BY <1>11 DEF BaseStates
<1> QED BY <1>10, <1>12, <1>13 DEF Emissions

\* Emissions keep what each of them keeps.
LEMMA EmissionsKeep ==
  ASSUME NEW m, m \in ModalState, NEW tr, NEW actor, NEW sf, Emissions(m, tr, actor, sf), NEW T, m \in T,
         \A s, t, h : Base(s) /\ Base(t) /\ s \in T /\ Emitted(s, t, h, actor, sf) => t \in T
  PROVE  tr[Len(m.handlers)] \in T
<1> DEFINE n == Len(m.handlers)
           S == {k \in 0 .. n : tr[k] \in T}
<1>1. n \in Nat
  BY StackIs
<1>2. 0 \in S
  BY <1>1 DEF Emissions
<1>3. ASSUME NEW k \in 1 .. n, k - 1 \in S PROVE k \in S
  <2>1. k \in 0 .. n /\ k - 1 \in 0 .. n
    BY <1>1
  <2> QED BY <1>3, <2>1 DEF Emissions
<1> HIDE DEF S, n
<1>4. n \in S
  <2>1. \A k \in 0 .. n : k \in S
    BY <1>1, <1>2, <1>3, StepsInduct
  <2> QED BY <1>1, <2>1
<1> QED BY <1>4 DEF S, n

\* No handler of the actor is left.
LEMMA EmissionsEnd ==
  ASSUME NEW m, m \in ModalState, NEW tr, NEW actor, NEW sf, Emissions(m, tr, actor, sf)
  PROVE  LET s == tr[Len(m.handlers)]
         IN  /\ Base(s)
             /\ \A h \in ToSet(s.handlers) : h.on # actor
<1> DEFINE n == Len(m.handlers)
           hs == m.handlers
           S == {k \in 0 .. n : /\ ToSet(tr[k].handlers) \subseteq ToSet(hs)
                                /\ \A j \in 1 .. k : hs[j].on = actor => hs[j] \notin ToSet(tr[k].handlers)}
<1>1. n \in Nat /\ DOMAIN hs = 1 .. n
  BY StackIs
<1>2. 0 \in S
  BY <1>1 DEF Emissions
<1>3. ASSUME NEW k \in 1 .. n, k - 1 \in S PROVE k \in S
  <2>1. k \in 0 .. n /\ \A j \in 1 .. k : j = k \/ j \in 1 .. (k - 1)
    BY <1>1
  <2>2. Emitted(tr[k - 1], tr[k], hs[k], actor, sf)
    BY DEF Emissions
  <2>3. /\ ToSet(tr[k].handlers) \subseteq ToSet(tr[k - 1].handlers)
        /\ hs[k].on = actor => hs[k] \notin ToSet(tr[k].handlers)
    BY <2>2 DEF Emitted, Popped, Disconnected, Cleared
  <2>4. ToSet(tr[k].handlers) \subseteq ToSet(hs)
    BY <1>3, <2>3
  <2>5. \A j \in 1 .. k : hs[j].on = actor => hs[j] \notin ToSet(tr[k].handlers)
    BY <1>3, <2>1, <2>3
  <2> QED BY <2>1, <2>4, <2>5
<1> HIDE DEF S, n, hs
<1>4. n \in S
  <2>1. \A k \in 0 .. n : k \in S
    BY <1>1, <1>2, <1>3, StepsInduct
  <2> QED BY <1>1, <2>1
<1>5. \A h \in ToSet(tr[n].handlers) : h.on # actor
  BY <1>1, <1>4 DEF S, ToSet
<1>6. Base(tr[n])
  BY <1>1 DEF Emissions, n
<1> QED BY <1>5, <1>6 DEF n


-----------------------------------------------------------------------------
(* How often an actor is on the stack. *)

Positions(m, a) == {i \in DOMAIN m.stack : m.stack[i].actor = a}
Times(m, a) == Cardinality(Positions(m, a))

LEMMA PositionsFinite ==
  ASSUME NEW m \in ModalState, NEW a
  PROVE  IsFiniteSet(Positions(m, a)) /\ Times(m, a) \in Nat
<1> DEFINE n == Len(m.stack)
<1>1. n \in Nat /\ DOMAIN m.stack = 1..n
  BY StackIs
<1> HIDE DEF n
<1>2. Positions(m, a) \in SUBSET (1..n)
  BY <1>1 DEF Positions
<1>3. IsFiniteSet(Positions(m, a))
  BY <1>1, <1>2, FS_Interval, FS_Subset
<1> QED BY <1>3, FS_CardinalityType DEF Times

LEMMA PushedTimes ==
  ASSUME NEW m, NEW p, NEW actor \in Owners, m \in ModalState, Pushed(m, p, actor), NEW b
  PROVE  Times(p, b) = Times(m, b) + (IF b = actor THEN 1 ELSE 0)
<1> DEFINE n == Len(m.stack)
<1>1. /\ n \in Nat /\ DOMAIN m.stack = 1..n /\ DOMAIN p.stack = 1..(n + 1)
      /\ \A k \in 1..n : p.stack[k] = m.stack[k]
      /\ p.stack[n + 1] = NewRecord(m, actor)
  BY PushedStack
<1> HIDE DEF n
<1>0. p.stack[n + 1].actor = actor
  BY <1>1 DEF NewRecord
<1>2. IsFiniteSet(Positions(m, b)) /\ Times(m, b) \in Nat
  BY PositionsFinite
<1>3. CASE b = actor
  <2>1. Positions(p, b) = Positions(m, b) \cup {n + 1} /\ n + 1 \notin Positions(m, b)
    BY <1>0, <1>1, <1>3 DEF Positions
  <2>2. Cardinality(Positions(m, b) \cup {n + 1}) = Cardinality(Positions(m, b)) + 1
    BY <1>2, <2>1, FS_AddElement
  <2> QED BY <1>3, <2>1, <2>2 DEF Times
<1>4. CASE b # actor
  <2>1. Positions(p, b) = Positions(m, b)
    BY <1>0, <1>1, <1>4 DEF Positions
  <2> QED BY <1>2, <1>4, <2>1 DEF Times
<1> QED BY <1>3, <1>4

LEMMA PoppedTimes ==
  ASSUME NEW m \in ModalState, NEW p, NEW i \in DOMAIN m.stack, NEW sf, Popped(m, p, i, sf), NEW b
  PROVE  Times(p, b) = Times(m, b) - (IF b = m.stack[i].actor THEN 1 ELSE 0)
<1> DEFINE P == Positions(p, b)
           Q == Positions(m, b) \ {i}
           f == [k \in P |-> Skip(i, k)]
<1>1. /\ p \in ModalState
      /\ \A k \in DOMAIN p.stack :
            /\ Skip(i, k) \in DOMAIN m.stack \ {i}
            /\ p.stack[k].actor = m.stack[Skip(i, k)].actor
      /\ \A j \in DOMAIN m.stack \ {i} : \E k \in DOMAIN p.stack : Skip(i, k) = j
      /\ \A k, l \in DOMAIN p.stack : Skip(i, k) = Skip(i, l) => k = l
  BY DEF Popped, Shifted
<1>2. IsFiniteSet(P)
  BY <1>1, PositionsFinite
<1>3. ExistsBijection(P, Q)
  <2>1. f \in [P -> Q]
    BY <1>1 DEF Positions
  <2>2. \A k, l \in P : f[k] = f[l] => k = l
    BY <1>1 DEF Positions
  <2>3. \A j \in Q : \E k \in P : f[k] = j
    <3> SUFFICES ASSUME NEW j \in Q PROVE \E k \in P : f[k] = j
      OBVIOUS
    <3>1. j \in DOMAIN m.stack \ {i} /\ m.stack[j].actor = b
      BY DEF Positions
    <3>2. PICK k \in DOMAIN p.stack : Skip(i, k) = j
      BY <1>1, <3>1
    <3>3. k \in P
      BY <1>1, <3>1, <3>2 DEF Positions
    <3> QED BY <3>2, <3>3
  <2> HIDE DEF f, P, Q
  <2>4. f \in Bijection(P, Q)
    BY <2>1, <2>2, <2>3 DEF Bijection, Injection, Surjection, IsInjective
  <2> QED BY <2>4 DEF ExistsBijection
<1> HIDE DEF P, Q, f
<1>4. Cardinality(Q) = Cardinality(P)
  BY <1>2, <1>3, FS_Bijection
<1>5. IsFiniteSet(Positions(m, b)) /\ Times(m, b) \in Nat
  BY PositionsFinite
<1>6. Cardinality(Q) = Times(m, b) - (IF b = m.stack[i].actor THEN 1 ELSE 0)
  <2> DEFINE R == Positions(m, b)
  <2>1. i \in R <=> b = m.stack[i].actor
    BY DEF Positions
  <2>2. Cardinality(R) = Times(m, b) /\ IsFiniteSet(R) /\ Q = R \ {i}
    BY <1>5 DEF Times, Q
  <2> HIDE DEF R
  <2>3. Cardinality(R \ {i}) = IF i \in R THEN Cardinality(R) - 1 ELSE Cardinality(R)
    BY <2>2, FS_RemoveElement
  <2>4. Times(m, b) - 0 = Times(m, b)
    BY <1>5
  <2> QED BY <2>1, <2>2, <2>3, <2>4
<1> QED BY <1>4, <1>6 DEF Times, P

\* An emission leaves the other owners where they are.
OthersKept(s, t, actor) ==
    Len(t.stack) <= Len(s.stack) /\ \A b : b # actor => Times(t, b) = Times(s, b)

LEMMA EmittedOthers ==
  ASSUME NEW s, NEW t, NEW h, NEW actor, NEW sf, s \in ModalState, Emitted(s, t, h, actor, sf)
  PROVE  OthersKept(s, t, actor)
<1>1. Len(s.stack) \in Nat
  BY StackIs
<1>2. CASE t = s
  BY <1>1, <1>2 DEF OthersKept
<1>3. ASSUME NEW i \in DOMAIN s.stack, s.stack[i].actor = actor, Popped(s, t, i, sf)
      PROVE  OthersKept(s, t, actor)
  <2>1. Len(t.stack) <= Len(s.stack)
    BY <1>1, <1>3 DEF Popped, Shifted
  <2>2. ASSUME NEW b, b # actor PROVE Times(t, b) = Times(s, b)
    <3>1. Times(t, b) = Times(s, b) - 0
      BY <1>3, <2>2, PoppedTimes
    <3>2. Times(s, b) \in Nat
      BY PositionsFinite
    <3> QED BY <3>1, <3>2
  <2> QED BY <2>1, <2>2 DEF OthersKept
<1>4. ASSUME Cleared(s, t, h)
      PROVE  OthersKept(s, t, actor)
  <2>1. \A b : Positions(t, b) = Positions(s, b)
    BY <1>4 DEF Cleared, Positions
  <2> QED BY <1>1, <1>4, <2>1 DEF Cleared, OthersKept, Times
<1> QED BY <1>2, <1>3, <1>4 DEF Emitted

\* Neither the grab nor the redirection is lost on the way.
LEMMA EmittedRest ==
  ASSUME NEW s, NEW t, NEW h, NEW actor, NEW sf \in BOOLEAN, Base(s), Emitted(s, t, h, actor, sf)
  PROVE  RestKept(s, t) /\ (s.stack = <<>> => t.stack = <<>>)
<1>1. CASE t = s
  BY <1>1 DEF RestKept
<1>2. ASSUME NEW i \in DOMAIN s.stack, Popped(s, t, i, sf)
      PROVE  RestKept(s, t) /\ s.stack # <<>>
  <2>1. s \in ModalState
    BY DEF Base
  <2>2. s.stack # <<>>
    BY <1>2, <2>1, StackIs
  <2> QED BY <1>2, <2>2, PoppedRest
<1>3. ASSUME Cleared(s, t, h)
      PROVE  RestKept(s, t) /\ (s.stack = <<>> => t.stack = <<>>)
  <2>1. Grabbed(s) => Grabbed(t)
    BY <1>3 DEF Cleared, Grabbed
  <2>2. InputHeld(s) => InputHeld(t)
    BY <1>3 DEF Cleared, InputHeld
  <2>3. \A c \in Int : Unredirected(s, c) => Unredirected(t, c)
    BY <1>3 DEF Cleared, Unredirected
  <2>4. \A al : Clear(s, al) /\ FocusAlive(s, al) => Clear(t, al) /\ FocusAlive(t, al)
    BY <1>3 DEF Cleared, Clear, FocusAlive
  <2>5. s.stack = <<>> => t.stack = <<>>
    BY <1>3 DEF Cleared
  <2> QED BY <2>1, <2>2, <2>3, <2>4, <2>5 DEF RestKept
<1> QED BY <1>1, <1>2, <1>3 DEF Emitted

\* Around unshifted focuses the closure of each record clears what the record
\* itself remembers.
Untangled(s, actor) ==
    /\ FocusGuarded(s)
    /\ Len(s.stack) <= 2
    /\ \A i \in DOMAIN s.stack :
          s.stack[i].focus = actor => s.stack[i].focusDestroyId = s.stack[i].rid

LEMMA EmittedUntangled ==
  ASSUME NEW s, NEW t, NEW h, NEW actor \in Destroyable, NEW sf \in BOOLEAN, Base(s),
         Emitted(s, t, h, actor, sf), Untangled(s, actor)
  PROVE  /\ Untangled(t, actor)
         /\ Cleared(s, t, h) /\ h.kind = "focus" /\ h \in ToSet(s.handlers) /\ h.on = actor =>
              \A k \in DOMAIN s.stack : s.stack[k].focus # actor =>
                 t.stack[k].focus = s.stack[k].focus
<1>0. s \in ModalState /\ Nobody # actor
  BY ModalAssumption DEF Base, Actors
<1>1. Len(s.stack) \in Nat
  BY <1>0, StackIs
<1>2. ASSUME NEW i \in DOMAIN s.stack, s.stack[i].actor = actor, Popped(s, t, i, sf)
      PROVE  Untangled(t, actor)
  <2>1. FocusGuarded(t)
    BY <1>2, PoppedFocus DEF Untangled
  <2>2. t \in ModalState /\ Len(t.stack) = Len(s.stack) - 1
    BY <1>2 DEF Popped, Shifted
  <2>3. Len(t.stack) <= 2 /\ \A k \in DOMAIN t.stack : k = 1 /\ t.stack[k].focus = s.stack[k].focus
    <3>1. DOMAIN t.stack = 1..Len(t.stack) /\ Len(t.stack) <= 1
      BY <1>1, <2>2, StackIs DEF Untangled
    <3>2. \A k \in DOMAIN t.stack : t.stack[k].focus = s.stack[k].focus
      BY <1>2 DEF Popped, Shifted
    <3> QED BY <1>1, <2>2, <3>1, <3>2
  <2>4. s.stack[1].focus \in Widgets \cup {Nobody}
    BY DEF Base, Bottom
  <2>5. actor \in Owners
    BY <1>0, <1>2, StackIs DEF Record
  <2>6. s.stack[1].focus # actor
    BY <1>0, <2>4, <2>5, ModalAssumption
  <2> QED BY <2>1, <2>3, <2>6 DEF Untangled
<1>3. ASSUME Cleared(s, t, h), h.kind = "focus", h \in ToSet(s.handlers), h.on = actor
      PROVE  /\ Untangled(t, actor)
             /\ \A k \in DOMAIN s.stack : s.stack[k].focus # actor =>
                   t.stack[k].focus = s.stack[k].focus
  <2>1. PICK i \in DOMAIN s.stack : h = FocusHandler(s.stack[i])
    BY <1>3 DEF Untangled, FocusGuarded, FocusOnly
  <2>2. s.stack[i].focus = actor /\ h.rid = s.stack[i].focusDestroyId
    BY <1>3, <2>1 DEF FocusHandler, Handler
  <2>3. h.rid = s.stack[i].rid /\ h.rid # 0
    BY <1>0, <2>2 DEF Untangled, FocusGuarded, FocusNumbered
  <2>4. \A k \in DOMAIN s.stack : s.stack[k].rid = h.rid <=> k = i
    BY <2>3 DEF Base, Distinct
  <2>5. /\ DOMAIN t.stack = DOMAIN s.stack /\ Len(t.stack) = Len(s.stack)
        /\ t.stack[i].focus = Nobody /\ t.stack[i].focusDestroyId = 0
        /\ \A k \in DOMAIN s.stack : k # i =>
              /\ t.stack[k].focus = s.stack[k].focus
              /\ t.stack[k].focusDestroyId = s.stack[k].focusDestroyId
              /\ t.stack[k].rid = s.stack[k].rid
        /\ ToSet(t.handlers) = ToSet(s.handlers) \ {h}
    BY <1>3, <2>4 DEF Cleared
  <2>6. FocusNumbered(t) /\ FocusDistinct(t)
    BY <2>5 DEF Untangled, FocusGuarded, FocusNumbered, FocusDistinct
  <2>7. \A k \in DOMAIN s.stack : k # i =>
           /\ FocusHandler(t.stack[k]) = FocusHandler(s.stack[k])
           /\ s.stack[k].focusDestroyId # 0 => FocusHandler(s.stack[k]) # h
    <3> SUFFICES ASSUME NEW k \in DOMAIN s.stack, k # i
                 PROVE  /\ FocusHandler(t.stack[k]) = FocusHandler(s.stack[k])
                        /\ s.stack[k].focusDestroyId # 0 => FocusHandler(s.stack[k]) # h
      OBVIOUS
    <3>1. FocusHandler(t.stack[k]) = FocusHandler(s.stack[k])
      BY <2>5 DEF FocusHandler
    <3>2. s.stack[k].focusDestroyId # 0 => s.stack[k].focusDestroyId # h.rid
      BY <2>2 DEF Untangled, FocusGuarded, FocusDistinct
    <3> QED BY <3>1, <3>2 DEF FocusHandler, Handler
  <2>8. FocusConnected(t)
    <3> SUFFICES ASSUME NEW k \in DOMAIN s.stack, t.stack[k].focus # Nobody
                 PROVE  FocusHandler(t.stack[k]) \in ToSet(t.handlers)
      BY <2>5 DEF FocusConnected
    <3>1. k # i /\ s.stack[k].focus # Nobody /\ s.stack[k].focusDestroyId # 0
      BY <2>5 DEF Untangled, FocusGuarded, FocusNumbered
    <3>2. FocusHandler(s.stack[k]) \in ToSet(s.handlers)
      BY <3>1 DEF Untangled, FocusGuarded, FocusConnected
    <3> QED BY <2>5, <2>7, <3>1, <3>2
  <2>9. FocusOnly(t)
    <3> SUFFICES ASSUME NEW g \in ToSet(t.handlers), g.kind = "focus"
                 PROVE  \E k \in DOMAIN t.stack : g = FocusHandler(t.stack[k])
      BY DEF FocusOnly
    <3>1. g \in ToSet(s.handlers) /\ g # h
      BY <2>5
    <3>2. PICK k \in DOMAIN s.stack : g = FocusHandler(s.stack[k])
      BY <3>1 DEF Untangled, FocusGuarded, FocusOnly
    <3>3. k # i
      BY <2>1, <3>1, <3>2
    <3> QED BY <2>5, <2>7, <3>2, <3>3
  <2>10. \A k \in DOMAIN t.stack : t.stack[k].focus = actor => t.stack[k].focusDestroyId = t.stack[k].rid
    BY <1>0, <2>5 DEF Untangled
  <2>11. Untangled(t, actor)
    BY <2>5, <2>6, <2>8, <2>9, <2>10 DEF Untangled, FocusGuarded
  <2> QED BY <2>2, <2>5, <2>11
<1> QED BY <1>2, <1>3 DEF Emitted

\* What the first record remembers, and where the focus goes with the last one.
BottomMay(s, f, actor) ==
    s.stack # <<>> => \/ s.stack[1].focus = f
                      \/ f = actor /\ s.stack[1].focus = Nobody

LastFocus(s, f, actor, sf) ==
    s.stack = <<>> => s.keyFocus = IF sf /\ f # actor THEN f ELSE Nobody

LEMMA EmittedBottom ==
  ASSUME NEW s, NEW t, NEW h, NEW actor \in Destroyable, NEW sf \in BOOLEAN, NEW f, Base(s),
         Emitted(s, t, h, actor, sf), Untangled(s, actor), BottomMay(s, f, actor)
  PROVE  /\ BottomMay(t, f, actor)
         /\ Grabbed(s) /\ LastFocus(s, f, actor, sf) => LastFocus(t, f, actor, sf)
<1>0. s \in ModalState /\ Nobody # actor
  BY ModalAssumption DEF Base, Actors
<1>1. ASSUME NEW i \in DOMAIN s.stack, s.stack[i].actor = actor, Popped(s, t, i, sf)
      PROVE  /\ BottomMay(t, f, actor)
             /\ Grabbed(s) => LastFocus(t, f, actor, sf)
  <2>1. BottomIs(s, s.stack[1].focus) /\ s.stack # <<>>
    BY <1>0, StackIs DEF BottomIs
  <2>2. /\ BottomIs(t, s.stack[1].focus)
        /\ Grabbed(s) /\ t.stack = <<>> => t.keyFocus = IF sf THEN s.stack[1].focus ELSE Nobody
    BY <1>1, <2>1, PoppedRest DEF FirstKept
  <2>3. s.stack[1].focus \in Widgets \cup {Nobody}
    BY <2>1 DEF Base, Bottom
  <2>4. actor \in Owners
    BY <1>0, <1>1, StackIs DEF Record
  <2>5. s.stack[1].focus # actor
    BY <1>0, <2>3, <2>4, ModalAssumption
  <2> QED BY <2>1, <2>2, <2>5 DEF BottomMay, BottomIs, LastFocus
<1>2. ASSUME Cleared(s, t, h), h.kind = "focus", h \in ToSet(s.handlers), h.on = actor
      PROVE  /\ BottomMay(t, f, actor)
             /\ LastFocus(s, f, actor, sf) => LastFocus(t, f, actor, sf)
  <2>1. \A k \in DOMAIN s.stack : s.stack[k].focus # actor => t.stack[k].focus = s.stack[k].focus
    BY <1>2, EmittedUntangled
  <2>2. /\ \A k \in DOMAIN s.stack : t.stack[k].focus \in {s.stack[k].focus, Nobody}
        /\ t.stack = <<>> <=> s.stack = <<>>
        /\ t.keyFocus = s.keyFocus
    BY <1>2 DEF Cleared
  <2>3. s.stack # <<>> => 1 \in DOMAIN s.stack
    BY <1>0, StackIs
  <2>4. BottomMay(t, f, actor)
    BY <2>1, <2>2, <2>3 DEF BottomMay
  <2> QED BY <2>2, <2>4 DEF LastFocus
<1> QED BY <1>1, <1>2 DEF Emitted


LEMMA UnfocusedIs ==
  ASSUME NEW s \in ModalState, NEW actor
  PROVE  LET d == Unfocused(s, actor)
         IN  /\ d \in ModalState
             /\ d.stack = s.stack /\ d.handlers = s.handlers /\ d.modalCount = s.modalCount
             /\ d.keyFocus = IF s.keyFocus = actor THEN Nobody ELSE s.keyFocus
             /\ d.hasModal = s.hasModal /\ d.inputMode = s.inputMode
             /\ d.unredirect = s.unredirect
<1> DEFINE d == Unfocused(s, actor)
           focus == IF s.keyFocus = actor THEN Nobody ELSE s.keyFocus
<1>1. d = [s EXCEPT !.keyFocus = focus]
  BY DEF Unfocused, ModalState
<1>2. focus \in Actors \cup {Nobody}
  BY StackIs
<1> HIDE DEF d, focus
<1>3. d = [modalCount |-> s.modalCount, stack |-> s.stack, handlers |-> s.handlers,
           keyFocus |-> focus, hasModal |-> s.hasModal, inputMode |-> s.inputMode,
           unredirect |-> s.unredirect]
  BY <1>1 DEF ModalState
<1>4. d \in ModalState
  BY <1>2, <1>3 DEF ModalState
<1> QED BY <1>3, <1>4 DEF d, focus

LEMMA UnfocusedBase ==
  ASSUME NEW s, Base(s), NEW actor
  PROVE  LET d == Unfocused(s, actor)
         IN  /\ Base(d)
             /\ Grabbed(s) <=> Grabbed(d)
             /\ InputHeld(s) <=> InputHeld(d)
             /\ \A c : Unredirected(s, c) <=> Unredirected(d, c)
             /\ FocusGuarded(s) <=> FocusGuarded(d)
             /\ \A al : Clear(s, al) <=> Clear(d, al)
<1> DEFINE d == Unfocused(s, actor)
<1>1. /\ d \in ModalState
      /\ d.stack = s.stack /\ d.handlers = s.handlers /\ d.modalCount = s.modalCount
      /\ d.keyFocus = IF s.keyFocus = actor THEN Nobody ELSE s.keyFocus
      /\ d.hasModal = s.hasModal /\ d.inputMode = s.inputMode
      /\ d.unredirect = s.unredirect
  BY UnfocusedIs DEF Base
<1> HIDE DEF d
<1>2. Base(d)
  <2>1. Counted(d) /\ IdleUngrabbed(d)
    BY <1>1 DEF Base, Counted, IdleUngrabbed
  <2>2. Distinct(d) /\ Once(d)
    BY <1>1 DEF Base, Distinct, Once
  <2>3. PopConnected(d) /\ PopOnly(d)
    BY <1>1 DEF Base, PopConnected, PopOnly
  <2>4. Bottom(d)
    BY <1>1 DEF Base, Bottom
  <2> QED BY <1>1, <2>1, <2>2, <2>3, <2>4 DEF Base
<1>3. (Grabbed(s) <=> Grabbed(d)) /\ (InputHeld(s) <=> InputHeld(d))
      /\ \A c : Unredirected(s, c) <=> Unredirected(d, c)
  BY <1>1 DEF Grabbed, InputHeld, Unredirected
<1>4. FocusGuarded(s) <=> FocusGuarded(d)
  BY <1>1 DEF FocusGuarded, FocusNumbered, FocusDistinct, FocusConnected, FocusOnly
<1>5. \A al : Clear(s, al) <=> Clear(d, al)
  BY <1>1 DEF Clear
<1> QED BY <1>2, <1>3, <1>4, <1>5 DEF d

\* After the destruction of an actor the stack is as sound as it was, and the
\* actor is not on it any more.
Destroyed(m, d, actor) ==
    /\ Base(d)
    /\ \A h \in ToSet(d.handlers) : h.on # actor
    /\ \A i \in DOMAIN d.stack : d.stack[i].actor # actor
    /\ Grabbed(m) => Grabbed(d)
    /\ InputHeld(m) => InputHeld(d)
    /\ \A c \in Int : Unredirected(m, c) => Unredirected(d, c)
    /\ m.stack = <<>> => d.stack = <<>>
    /\ OthersKept(m, d, actor)

LEMMA DestroyEffect ==
  ASSUME NEW m, Base(m), NEW actor \in Destroyable, NEW sf \in BOOLEAN
  PROVE  Destroyed(m, DestroyActor(m, actor, sf), actor)
<1> DEFINE d == DestroyActor(m, actor, sf)
           n == Len(m.handlers)
           T == {s \in BaseStates : /\ RestKept(m, s) /\ (m.stack = <<>> => s.stack = <<>>)
                                    /\ OthersKept(m, s, actor)}
<1>0. m \in ModalState /\ Len(m.stack) \in Nat
  BY StackIs DEF Base
<1>1. PICK tr : Emissions(m, tr, actor, sf) /\ d = Unfocused(tr[n], actor)
  BY DestroySteps
<1> DEFINE s == tr[n]
<1> HIDE DEF d
<1>2. s \in T
  <2>1. m \in T
    BY <1>0 DEF RestKept, OthersKept, BaseStates
  <2>2. ASSUME NEW u, NEW t, NEW h, Base(u), Base(t), u \in T, Emitted(u, t, h, actor, sf)
        PROVE  t \in T
    <3>1. RestKept(u, t) /\ (u.stack = <<>> => t.stack = <<>>)
      BY <2>2, EmittedRest
    <3>2. RestKept(m, u) /\ (m.stack = <<>> => u.stack = <<>>) /\ OthersKept(m, u, actor)
      BY <2>2
    <3>3. RestKept(m, t)
      BY <3>1, <3>2 DEF RestKept
    <3>4. t \in BaseStates /\ u \in ModalState /\ Len(u.stack) \in Nat /\ Len(t.stack) \in Nat
      BY <2>2, StackIs DEF BaseStates, Base
    <3>5. OthersKept(u, t, actor)
      BY <2>2, <3>4, EmittedOthers
    <3>6. OthersKept(m, t, actor)
      BY <1>0, <3>2, <3>4, <3>5 DEF OthersKept
    <3> QED BY <3>1, <3>2, <3>3, <3>4, <3>6
  <2> HIDE DEF T
  <2> QED BY <1>0, <1>1, <2>1, <2>2, EmissionsKeep
<1>3. Base(s) /\ \A h \in ToSet(s.handlers) : h.on # actor
  BY <1>0, <1>1, EmissionsEnd
<1> HIDE DEF s
<1>4. /\ d.stack = s.stack /\ d.handlers = s.handlers
      /\ Base(d)
      /\ Grabbed(s) <=> Grabbed(d)
      /\ InputHeld(s) <=> InputHeld(d)
      /\ \A c : Unredirected(s, c) <=> Unredirected(d, c)
  <2>1. d = Unfocused(s, actor) /\ s \in ModalState
    BY <1>1, <1>3 DEF s, Base
  <2> QED BY <1>3, <2>1, UnfocusedIs, UnfocusedBase
<1>5. \A i \in DOMAIN d.stack : d.stack[i].actor # actor
  <2>1. \A i \in DOMAIN d.stack : PopHandler(d.stack[i]) \in ToSet(s.handlers)
    BY <1>4 DEF Base, PopConnected
  <2>2. \A i \in DOMAIN d.stack : PopHandler(d.stack[i]).on = d.stack[i].actor
    BY DEF PopHandler, Handler
  <2> QED BY <1>3, <2>1, <2>2
<1>6. RestKept(m, s) /\ (m.stack = <<>> => s.stack = <<>>) /\ OthersKept(m, s, actor)
  BY <1>2
<1>7. OthersKept(m, d, actor)
  <2>1. \A b : Times(d, b) = Times(s, b)
    BY <1>4 DEF Times, Positions
  <2> QED BY <1>4, <1>6, <2>1 DEF OthersKept
<1> QED BY <1>3, <1>4, <1>5, <1>6, <1>7 DEF Destroyed, RestKept, d

\* Around unshifted focuses nothing remembers the actor either, and the first
\* record, or the key focus after the last one, is what it should be.
ClearedOf(m, d, actor, sf) ==
    /\ FocusGuarded(d)
    /\ \A al : Clear(m, al) /\ FocusAlive(m, al) =>
                  Clear(d, al \ {actor}) /\ FocusAlive(d, al \ {actor})
    /\ \A f : BottomIs(m, f) =>
          /\ BottomIs(d, IF f = actor THEN Nobody ELSE f)
          /\ Grabbed(m) /\ m.stack # <<>> /\ d.stack = <<>> =>
                d.keyFocus = IF sf /\ f # actor THEN f ELSE Nobody

LEMMA DestroyFocusEffect ==
  ASSUME NEW m, Base(m), NEW actor \in Destroyable, NEW sf \in BOOLEAN,
         FocusGuarded(m), Unshifted(m)
  PROVE  ClearedOf(m, DestroyActor(m, actor, sf), actor, sf)
<1> DEFINE d == DestroyActor(m, actor, sf)
           n == Len(m.handlers)
           First(u) == \A f : BottomIs(m, f) =>
              /\ BottomMay(u, f, actor)
              /\ Grabbed(m) /\ m.stack # <<>> => LastFocus(u, f, actor, sf)
           T == {u \in BaseStates : Untangled(u, actor) /\ RestKept(m, u) /\ First(u)}
<1>0. m \in ModalState /\ Nobody # actor
  BY ModalAssumption DEF Base, Actors
<1>1. PICK tr : Emissions(m, tr, actor, sf) /\ d = Unfocused(tr[n], actor)
  BY DestroySteps
<1> DEFINE s == tr[n]
<1> HIDE DEF d
<1>2. s \in T
  <2>1. m \in T
    <3>1. \A i \in DOMAIN m.stack : m.stack[i] \in ToSet(m.stack)
      BY <1>0, StackIs DEF ToSet
    <3>2. Untangled(m, actor)
      BY <1>0, <3>1 DEF Untangled, Unshifted, FocusGuarded, FocusNumbered
    <3>3. First(m)
      BY DEF BottomIs, BottomMay, LastFocus
    <3> QED BY <1>0, <3>2, <3>3 DEF RestKept, BaseStates
  <2>2. ASSUME NEW u, NEW t, NEW h, Base(u), Base(t), u \in T, Emitted(u, t, h, actor, sf)
        PROVE  t \in T
    <3>1. RestKept(u, t)
      BY <2>2, EmittedRest
    <3>2. RestKept(m, u) /\ Untangled(u, actor) /\ First(u)
      BY <2>2
    <3>3. RestKept(m, t)
      BY <3>1, <3>2 DEF RestKept
    <3>4. t \in BaseStates
      BY <2>2 DEF BaseStates, Base
    <3>5. Untangled(t, actor)
      BY <2>2, <3>2, EmittedUntangled
    <3>6. First(t)
      <4> SUFFICES ASSUME NEW f, BottomIs(m, f)
                   PROVE  /\ BottomMay(t, f, actor)
                          /\ Grabbed(m) /\ m.stack # <<>> => LastFocus(t, f, actor, sf)
        OBVIOUS
      <4>1. /\ BottomMay(u, f, actor)
            /\ Grabbed(m) /\ m.stack # <<>> => LastFocus(u, f, actor, sf)
        BY <3>2
      <4>2. Grabbed(m) => Grabbed(u)
        BY <3>2 DEF RestKept
      <4>3. /\ BottomMay(t, f, actor)
            /\ Grabbed(u) /\ LastFocus(u, f, actor, sf) => LastFocus(t, f, actor, sf)
        BY <2>2, <3>2, <4>1, EmittedBottom
      <4> QED BY <4>1, <4>2, <4>3
    <3> HIDE DEF First
    <3> QED BY <3>3, <3>4, <3>5, <3>6
  <2> HIDE DEF T
  <2> QED BY <1>0, <1>1, <2>1, <2>2, EmissionsKeep
<1>3. Base(s) /\ \A h \in ToSet(s.handlers) : h.on # actor
  BY <1>0, <1>1, EmissionsEnd
<1>4. Untangled(s, actor) /\ RestKept(m, s) /\ First(s)
  BY <1>2
<1> HIDE DEF s
<1>5. /\ d.stack = s.stack
      /\ d.keyFocus = IF s.keyFocus = actor THEN Nobody ELSE s.keyFocus
      /\ FocusGuarded(s) <=> FocusGuarded(d)
  <2>1. d = Unfocused(s, actor) /\ s \in ModalState
    BY <1>1, <1>3 DEF s, Base
  <2> QED BY <1>3, <2>1, UnfocusedIs, UnfocusedBase
<1>6. \A i \in DOMAIN s.stack : s.stack[i].focus # actor
  BY <1>0, <1>3, <1>4 DEF Untangled, FocusGuarded, FocusConnected, FocusHandler, Handler
<1>7. FocusGuarded(d)
  BY <1>4, <1>5 DEF Untangled
<1>8. ASSUME NEW al, Clear(m, al), FocusAlive(m, al)
      PROVE  Clear(d, al \ {actor}) /\ FocusAlive(d, al \ {actor})
  <2>1. Clear(s, al) /\ FocusAlive(s, al)
    BY <1>4, <1>8 DEF RestKept
  <2> QED BY <1>5, <1>6, <2>1 DEF Clear, FocusAlive
<1>9. ASSUME NEW f, BottomIs(m, f)
      PROVE  /\ BottomIs(d, IF f = actor THEN Nobody ELSE f)
             /\ Grabbed(m) /\ m.stack # <<>> /\ d.stack = <<>> =>
                   d.keyFocus = IF sf /\ f # actor THEN f ELSE Nobody
  <2>1. /\ BottomMay(s, f, actor)
        /\ Grabbed(m) /\ m.stack # <<>> => LastFocus(s, f, actor, sf)
    BY <1>4, <1>9
  <2>2. s.stack # <<>> => 1 \in DOMAIN s.stack
    BY <1>3, StackIs DEF Base
  <2>3. BottomIs(d, IF f = actor THEN Nobody ELSE f)
    BY <1>5, <1>6, <2>1, <2>2 DEF BottomIs, BottomMay
  <2>4. Grabbed(m) /\ m.stack # <<>> /\ d.stack = <<>> =>
           d.keyFocus = IF sf /\ f # actor THEN f ELSE Nobody
    BY <1>0, <1>5, <2>1 DEF LastFocus
  <2> QED BY <2>3, <2>4
<1> QED BY <1>7, <1>8, <1>9 DEF ClearedOf, d


-----------------------------------------------------------------------------
(* The invariant of the modal stack is inductive. *)

LEMMA InitStack == Init => StackInv
<1> SUFFICES ASSUME Init PROVE StackInv
  OBVIOUS
<1>1. /\ alive = Actors /\ origFocus \in Widgets \cup {Nobody} /\ stageFocused \in BOOLEAN
      /\ mispopped = FALSE /\ strayed = FALSE
      /\ modal = [modalCount |-> 0, stack |-> <<>>, handlers |-> <<>>, keyFocus |-> origFocus,
                  hasModal |-> FALSE, inputMode |-> "normal", unredirect |-> 0]
  BY DEF Init, ModalInit
<1>2. /\ <<>> \in Seq(Record) /\ <<>> \in Seq(Guards) /\ Len(<<>>) = 0
      /\ DOMAIN <<>> = {}
  OBVIOUS
<1>3. ToSet(<<>>) = {} /\ IsInjective(<<>>)
  BY <1>2 DEF ToSet, IsInjective
<1>4. modal \in ModalState
  BY <1>1, <1>2 DEF ModalState, Guards, Actors
<1>0. /\ modal.modalCount = 0 /\ modal.stack = <<>> /\ modal.handlers = <<>>
      /\ modal.keyFocus = origFocus /\ modal.hasModal = FALSE /\ modal.inputMode = "normal"
      /\ modal.unredirect = 0
  BY <1>1
<1>5. TypeInv
  <2>1. modal.modalCount <= MaxDepth
    BY <1>0, ModalAssumption
  <2> QED BY <1>1, <1>4, <2>1 DEF TypeInv, Actors
<1>6. Base(modal)
  <2>1. Counted(modal) /\ IdleUngrabbed(modal)
    BY <1>0, <1>1, <1>2 DEF Counted, IdleUngrabbed
  <2>2. Distinct(modal) /\ Once(modal)
    BY <1>0, <1>1, <1>2 DEF Distinct, Once
  <2>3. PopConnected(modal) /\ PopOnly(modal)
    BY <1>0, <1>2, <1>3 DEF PopConnected, PopOnly
  <2>4. Bottom(modal)
    BY <1>0, <1>1 DEF Bottom
  <2> QED BY <1>0, <1>3, <1>4, <2>1, <2>2, <2>3, <2>4 DEF Base
<1>7. FocusGuarded(modal)
  BY <1>0, <1>2, <1>3 DEF FocusGuarded, FocusNumbered, FocusDistinct, FocusConnected, FocusOnly
<1>8. Clear(modal, alive) /\ FocusAlive(modal, alive) /\ BottomIs(modal, Restored(origFocus, alive))
  BY <1>0, <1>1, <1>2 DEF Clear, FocusAlive, BottomIs, Actors
<1>9. Unredirected(modal, 0) /\ Grabbed(modal) /\ InputHeld(modal)
  <2>1. (modal.stack # <<>>) = FALSE
    BY <1>0
  <2>2. Unredirected(modal, 0)
    BY <1>0 DEF Unredirected
  <2>3. Grabbed(modal)
    BY <1>0, <2>1 DEF Grabbed
  <2>4. InputHeld(modal)
    BY <1>0 DEF InputHeld
  <2> QED BY <2>2, <2>3, <2>4
<1> QED BY <1>0, <1>5, <1>6, <1>7, <1>8, <1>9 DEF StackInv

LEMMA PushOwnerStep ==
  ASSUME StackInv, NEW a \in Owners, a \in Destroyable => FindModal(modal, a) = 0, PushOwner(a)
  PROVE  StackInv'
<1>1. PICK granted \in BOOLEAN : modal' = PushModal(modal, a, granted)
  BY DEF PushOwner
<1>2. UNCHANGED <<alive, stageFocused, origFocus, mispopped, strayed>> /\ a \in alive
      /\ modal.modalCount < MaxDepth
  BY DEF PushOwner
<1>3. Base(modal) /\ TypeInv /\ modal \in ModalState /\ modal.modalCount \in Nat
  BY StackIs DEF StackInv, Base
<1>4. CASE ~PushSucceeds(modal, granted)
  <2>1. UNCHANGED modalVars
    BY <1>1, <1>2, <1>4 DEF PushModal, modalVars
  <2> QED BY <2>1 DEF StackInv, TypeInv, modalVars
<1>5. CASE PushSucceeds(modal, granted)
  <2>1. Pushed(modal, modal', a)
    BY <1>1, <1>3, <1>5, PushModalEffect DEF Base
  <2>2. Base(modal')
    BY <1>3, <2>1, PushedBase
  <2>3. /\ Grabbed(modal) => Grabbed(modal')
        /\ InputHeld(modal')
        /\ \A c \in Int : Unredirected(modal, c) => Unredirected(modal', c)
        /\ \A al : Clear(modal, al) /\ FocusAlive(modal, al) => Clear(modal', al)
        /\ \A al : a \in al => FocusAlive(modal', al)
        /\ \A f : BottomIs(modal, f) /\ (modal.stack = <<>> => f = modal.keyFocus)
                    => BottomIs(modal', f)
    BY <1>3, <2>1, PushedRest
  <2>4. modal'.modalCount <= MaxDepth /\ modal'.stack # <<>>
    <3>1. modal'.modalCount = modal.modalCount + 1
      BY <2>1 DEF Pushed
    <3>2. modal'.stack # <<>>
      BY <1>3, <2>1, PushedStack
    <3> QED BY <1>2, <1>3, <3>1, <3>2, ModalAssumption
  <2>5. TypeInv'
    BY <1>2, <1>3, <2>2, <2>4 DEF TypeInv, Base
  <2>6. ASSUME ~strayed
        PROVE  /\ FocusGuarded(modal')
               /\ Clear(modal', alive) /\ FocusAlive(modal', alive)
               /\ BottomIs(modal', Restored(origFocus, alive))
    <3>1. /\ FocusGuarded(modal)
          /\ Clear(modal, alive) /\ FocusAlive(modal, alive)
          /\ BottomIs(modal, Restored(origFocus, alive))
      BY <2>6 DEF StackInv
    <3>2. FocusGuarded(modal')
      BY <1>3, <2>1, <3>1, PushedFocus
    <3>3. modal.stack = <<>> => Restored(origFocus, alive) = modal.keyFocus
      BY <3>1 DEF StackInv, FocusAlive, Restored
    <3> QED BY <1>2, <2>3, <3>1, <3>2, <3>3
  <2>7. Unredirected(modal', 0) /\ (~mispopped => Grabbed(modal') /\ InputHeld(modal'))
    BY <2>3 DEF StackInv
  <2> QED BY <1>2, <2>2, <2>4, <2>5, <2>6, <2>7 DEF StackInv
<1> QED BY <1>4, <1>5

\* origFocus stays what TrackFocus says it is.
LEMMA TrackKept ==
  ASSUME TypeInv, Base(modal'), TrackFocus
  PROVE  /\ origFocus' \in Widgets \cup {Nobody}
         /\ modal'.stack = <<>> => origFocus' = modal'.keyFocus
         /\ modal'.stack # <<>> => origFocus' = origFocus
BY DEF TypeInv, TrackFocus, Base, Bottom

LEMMA PopStep ==
  ASSUME StackInv, NEW a \in Owners, Pop(a)
  PROVE  StackInv'
<1> DEFINE i == FindModal(modal, a)
<1>1. /\ i > 0 /\ modal' = PopModal(modal, a, stageFocused) /\ TrackFocus
      /\ UNCHANGED <<alive, stageFocused, mispopped, strayed>>
  BY DEF Pop
<1>2. Base(modal) /\ TypeInv /\ modal \in ModalState /\ stageFocused \in BOOLEAN
      /\ modal.modalCount \in Nat
  BY StackIs DEF StackInv, Base, TypeInv
<1>3. i \in DOMAIN modal.stack /\ Popped(modal, modal', i, stageFocused)
  <2>1. i # 0
    BY <1>1
  <2> QED BY <1>1, <1>2, <2>1, PopModalEffect DEF Base
<1> HIDE DEF i
<1>4. Base(modal')
  BY <1>2, <1>3, PoppedBase
<1>5. RestKept(modal, modal') /\ FirstKept(modal, modal', stageFocused)
  BY <1>2, <1>3, PoppedRest
<1>6. /\ origFocus' \in Widgets \cup {Nobody}
      /\ modal'.stack = <<>> => origFocus' = modal'.keyFocus
      /\ modal'.stack # <<>> => origFocus' = origFocus
  BY <1>1, <1>2, <1>4, TrackKept
<1>7. TypeInv'
  <2>1. modal'.modalCount <= MaxDepth
    <3>1. modal'.modalCount = modal.modalCount - 1
      BY <1>3 DEF Popped
    <3> QED BY <1>2, <3>1, ModalAssumption DEF TypeInv
  <2> QED BY <1>1, <1>2, <1>4, <1>6, <2>1 DEF TypeInv, Base
<1>8. ASSUME ~strayed
      PROVE  /\ FocusGuarded(modal')
             /\ Clear(modal', alive) /\ FocusAlive(modal', alive)
             /\ BottomIs(modal', Restored(origFocus', alive))
  <2>1. /\ FocusGuarded(modal)
        /\ Clear(modal, alive) /\ FocusAlive(modal, alive)
        /\ BottomIs(modal, Restored(origFocus, alive))
    BY <1>8 DEF StackInv
  <2>2. FocusGuarded(modal')
    BY <1>2, <1>3, <2>1, PoppedFocus
  <2>3. BottomIs(modal', Restored(origFocus, alive))
    BY <1>5, <2>1 DEF FirstKept
  <2>4. BottomIs(modal', Restored(origFocus', alive))
    BY <1>6, <2>3 DEF BottomIs
  <2> QED BY <1>5, <2>1, <2>2, <2>4 DEF RestKept
<1>9. Unredirected(modal', 0) /\ (~mispopped => Grabbed(modal') /\ InputHeld(modal'))
  BY <1>5 DEF StackInv, RestKept
<1> QED BY <1>1, <1>4, <1>6, <1>7, <1>8, <1>9 DEF StackInv

\* "incorrect pop"
LEMMA IncorrectPopEffect ==
  ASSUME NEW m \in ModalState, NEW sf \in BOOLEAN
  PROVE  LET p == IncorrectPop(m, sf)
         IN  /\ p \in ModalState
             /\ p.stack = m.stack /\ p.handlers = m.handlers /\ p.modalCount = m.modalCount
             /\ p.keyFocus = Nobody /\ ~p.hasModal /\ p.inputMode = "normal"
             /\ p.unredirect = m.unredirect
<1> DEFINE p == IncorrectPop(m, sf)
<1>1. p = [m EXCEPT !.keyFocus = Nobody, !.hasModal = FALSE, !.inputMode = "normal"]
  <2>1. m.hasModal \in BOOLEAN
    BY StackIs
  <2>2. CASE m.hasModal
    BY <2>2 DEF IncorrectPop, EndModal, ModalState
  <2>3. CASE ~m.hasModal
    BY <2>1, <2>3 DEF IncorrectPop, EndModal, ModalState
  <2> QED BY <2>2, <2>3
<1> HIDE DEF p
<1>2. p = [modalCount |-> m.modalCount, stack |-> m.stack, handlers |-> m.handlers,
           keyFocus |-> Nobody, hasModal |-> FALSE, inputMode |-> "normal",
           unredirect |-> m.unredirect]
  BY <1>1 DEF ModalState
<1>3. p \in ModalState
  BY <1>2 DEF ModalState
<1> QED BY <1>2, <1>3 DEF p

\* A state with the same records and handlers, and another focus.
LEMMA SameStack ==
  ASSUME NEW m, NEW p, Base(m), p \in ModalState,
         p.stack = m.stack, p.handlers = m.handlers, p.modalCount = m.modalCount,
         p.keyFocus \in Widgets \cup {Nobody, m.keyFocus}, IdleUngrabbed(p)
  PROVE  /\ Base(p)
         /\ FocusGuarded(m) => FocusGuarded(p)
         /\ \A al : Clear(m, al) => Clear(p, al)
         /\ \A f : BottomIs(m, f) => BottomIs(p, f)
         /\ p.hasModal = m.hasModal /\ Grabbed(m) => Grabbed(p)
         /\ p.inputMode = m.inputMode /\ InputHeld(m) => InputHeld(p)
         /\ \A c : p.unredirect = m.unredirect /\ Unredirected(m, c) => Unredirected(p, c)
<1>1. Counted(p) /\ Distinct(p) /\ Once(p)
  BY DEF Base, Counted, Distinct, Once
<1>2. PopConnected(p) /\ PopOnly(p)
  BY DEF Base, PopConnected, PopOnly
<1>3. Bottom(p)
  BY DEF Base, Bottom
<1>4. FocusGuarded(m) => FocusGuarded(p)
  BY DEF FocusGuarded, FocusNumbered, FocusDistinct, FocusConnected, FocusOnly
<1>5. /\ \A al : Clear(m, al) => Clear(p, al)
      /\ \A f : BottomIs(m, f) => BottomIs(p, f)
      /\ p.hasModal = m.hasModal /\ Grabbed(m) => Grabbed(p)
      /\ p.inputMode = m.inputMode /\ InputHeld(m) => InputHeld(p)
      /\ \A c : p.unredirect = m.unredirect /\ Unredirected(m, c) => Unredirected(p, c)
  BY DEF Clear, BottomIs, Grabbed, InputHeld, Unredirected
<1> QED BY <1>1, <1>2, <1>3, <1>4, <1>5 DEF Base

LEMMA PopUnpushedStep ==
  ASSUME StackInv, NEW a \in Owners, PopUnpushed(a)
  PROVE  StackInv'
<1>1. /\ FindModal(modal, a) = 0 /\ modal' = PopModal(modal, a, stageFocused) /\ TrackFocus
      /\ UNCHANGED <<alive, stageFocused, strayed>> /\ mispopped' = TRUE
  BY DEF PopUnpushed
<1>2. Base(modal) /\ TypeInv /\ modal \in ModalState /\ stageFocused \in BOOLEAN
  BY DEF StackInv, Base, TypeInv
<1>3. /\ modal' \in ModalState
      /\ modal'.stack = modal.stack /\ modal'.handlers = modal.handlers
      /\ modal'.modalCount = modal.modalCount
      /\ modal'.keyFocus = Nobody /\ ~modal'.hasModal /\ modal'.inputMode = "normal"
      /\ modal'.unredirect = modal.unredirect
  <2>1. modal' = IncorrectPop(modal, stageFocused)
    BY <1>1 DEF PopModal
  <2> QED BY <1>2, <2>1, IncorrectPopEffect
<1>4. IdleUngrabbed(modal')
  BY <1>3 DEF IdleUngrabbed
<1>5. /\ Base(modal')
      /\ FocusGuarded(modal) => FocusGuarded(modal')
      /\ \A al : Clear(modal, al) => Clear(modal', al)
      /\ \A f : BottomIs(modal, f) => BottomIs(modal', f)
      /\ Unredirected(modal, 0) => Unredirected(modal', 0)
  BY <1>2, <1>3, <1>4, SameStack
<1>6. /\ origFocus' \in Widgets \cup {Nobody}
      /\ modal'.stack = <<>> => origFocus' = modal'.keyFocus
      /\ modal'.stack # <<>> => origFocus' = origFocus
  BY <1>1, <1>2, <1>5, TrackKept
<1>7. TypeInv'
  BY <1>1, <1>2, <1>3, <1>6 DEF TypeInv
<1>8. FocusAlive(modal', alive)
  BY <1>3 DEF FocusAlive
<1>9. ~strayed => BottomIs(modal', Restored(origFocus', alive))
  BY <1>5, <1>6 DEF StackInv, BottomIs
<1> QED BY <1>1, <1>5, <1>6, <1>7, <1>8, <1>9 DEF StackInv

LEMMA DestroyStep ==
  ASSUME StackInv, NEW a \in Actors, Destroy(a)
  PROVE  StackInv'
<1>1. /\ a \in Destroyable /\ alive' = alive \ {a}
      /\ modal' = DestroyActor(modal, a, stageFocused) /\ TrackFocus
      /\ strayed' = (strayed \/ ~Unshifted(modal))
      /\ UNCHANGED <<stageFocused, mispopped>>
  BY DEF Destroy
<1>2. Base(modal) /\ TypeInv /\ modal \in ModalState /\ stageFocused \in BOOLEAN
  BY DEF StackInv, Base, TypeInv
<1>3. Destroyed(modal, modal', a)
  BY <1>1, <1>2, DestroyEffect
<1>4. Base(modal')
  BY <1>3 DEF Destroyed
<1>5. /\ origFocus' \in Widgets \cup {Nobody}
      /\ modal'.stack = <<>> => origFocus' = modal'.keyFocus
      /\ modal'.stack # <<>> => origFocus' = origFocus
  BY <1>1, <1>2, <1>4, TrackKept
<1>6. ASSUME ~strayed'
      PROVE  /\ FocusGuarded(modal')
             /\ Clear(modal', alive') /\ FocusAlive(modal', alive')
             /\ BottomIs(modal', Restored(origFocus', alive'))
  <2>1. ~strayed /\ Unshifted(modal)
    BY <1>1, <1>6
  <2>2. /\ FocusGuarded(modal)
        /\ Clear(modal, alive) /\ FocusAlive(modal, alive)
        /\ BottomIs(modal, Restored(origFocus, alive))
    BY <2>1 DEF StackInv
  <2>3. ClearedOf(modal, modal', a, stageFocused)
    BY <1>1, <1>2, <2>1, <2>2, DestroyFocusEffect
  <2> DEFINE f == Restored(origFocus, alive)
  <2>4. BottomIs(modal', IF f = a THEN Nobody ELSE f)
    BY <2>2, <2>3 DEF ClearedOf
  <2>5. (IF f = a THEN Nobody ELSE f) = Restored(origFocus, alive')
    BY <1>1, ModalAssumption DEF Restored, Actors
  <2>6. BottomIs(modal', Restored(origFocus', alive'))
    BY <1>5, <2>4, <2>5 DEF BottomIs
  <2> QED BY <1>1, <2>2, <2>3, <2>6 DEF ClearedOf
<1>7. TypeInv'
  <2>1. modal'.modalCount <= MaxDepth
    <3>1. Len(modal'.stack) <= Len(modal.stack)
      BY <1>3 DEF Destroyed, OthersKept
    <3>2. modal'.modalCount = Len(modal'.stack) /\ modal.modalCount = Len(modal.stack)
      BY <1>2, <1>4 DEF Base, Counted
    <3>3. modal'.modalCount \in Nat /\ modal.modalCount \in Nat
      BY <1>2, <1>4, StackIs DEF Base
    <3> QED BY <1>2, <3>1, <3>2, <3>3, ModalAssumption DEF TypeInv
  <2> QED BY <1>1, <1>2, <1>4, <1>5, <2>1 DEF TypeInv, Base
<1>8. Unredirected(modal', 0) /\ (~mispopped => Grabbed(modal') /\ InputHeld(modal'))
  BY <1>3 DEF StackInv, Destroyed
<1> QED BY <1>1, <1>4, <1>5, <1>6, <1>7, <1>8 DEF StackInv

LEMMA MoveFocusStep ==
  ASSUME StackInv, NEW w \in Widgets \cup {Nobody}, MoveFocus(w)
  PROVE  StackInv'
<1>1. /\ w \in (Widgets \cap alive) \cup {Nobody}
      /\ modal' = [modal EXCEPT !.keyFocus = w] /\ TrackFocus
      /\ UNCHANGED <<alive, stageFocused, mispopped, strayed>>
  BY DEF MoveFocus
<1>2. Base(modal) /\ TypeInv /\ modal \in ModalState
  BY DEF StackInv, Base
<1>3. /\ modal' \in ModalState
      /\ modal'.stack = modal.stack /\ modal'.handlers = modal.handlers
      /\ modal'.modalCount = modal.modalCount
      /\ modal'.keyFocus = w /\ modal'.hasModal = modal.hasModal
      /\ modal'.inputMode = modal.inputMode /\ modal'.unredirect = modal.unredirect
  BY <1>1, <1>2 DEF ModalState, Actors
<1>4. IdleUngrabbed(modal')
  BY <1>2, <1>3 DEF IdleUngrabbed, Base
<1>5. /\ Base(modal')
      /\ FocusGuarded(modal) => FocusGuarded(modal')
      /\ \A al : Clear(modal, al) => Clear(modal', al)
      /\ \A f : BottomIs(modal, f) => BottomIs(modal', f)
      /\ Unredirected(modal, 0) => Unredirected(modal', 0)
      /\ Grabbed(modal) => Grabbed(modal')
      /\ InputHeld(modal) => InputHeld(modal')
  BY <1>2, <1>3, <1>4, SameStack
<1>6. /\ origFocus' \in Widgets \cup {Nobody}
      /\ modal'.stack = <<>> => origFocus' = modal'.keyFocus
      /\ modal'.stack # <<>> => origFocus' = origFocus
  BY <1>1, <1>2, <1>5, TrackKept
<1>7. TypeInv'
  BY <1>1, <1>2, <1>3, <1>6 DEF TypeInv
<1>8. FocusAlive(modal', alive)
  BY <1>1, <1>3 DEF FocusAlive
<1>9. ~strayed => BottomIs(modal', Restored(origFocus', alive))
  BY <1>5, <1>6 DEF StackInv, BottomIs
<1> QED BY <1>1, <1>5, <1>6, <1>7, <1>8, <1>9 DEF StackInv

LEMMA NextStack == StackInv /\ [Next]_modalVars => StackInv'
<1> SUFFICES ASSUME StackInv, [Next]_modalVars PROVE StackInv'
  OBVIOUS
<1>1. ASSUME NEW a \in Owners, Push(a) PROVE StackInv'
  BY <1>1, PushOwnerStep DEF Push
<1>2. ASSUME NEW a \in Owners, PushAgain(a) PROVE StackInv'
  BY <1>2, PushOwnerStep DEF PushAgain
<1>3. ASSUME NEW a \in Owners, Pop(a) PROVE StackInv'
  BY <1>3, PopStep
<1>4. ASSUME NEW a \in Owners, PopUnpushed(a) PROVE StackInv'
  BY <1>4, PopUnpushedStep
<1>5. ASSUME NEW a \in Actors, Destroy(a) PROVE StackInv'
  BY <1>5, DestroyStep
<1>6. ASSUME NEW w \in Widgets \cup {Nobody}, MoveFocus(w) PROVE StackInv'
  BY <1>6, MoveFocusStep
<1>7. CASE FocusStage
  BY <1>7 DEF FocusStage, StackInv, TypeInv
<1>8. CASE UNCHANGED modalVars
  BY <1>8 DEF StackInv, TypeInv, modalVars
<1> QED BY <1>1, <1>2, <1>3, <1>4, <1>5, <1>6, <1>7, <1>8 DEF Next


-----------------------------------------------------------------------------
(* The theorems of the modal stack. *)

\* The invariant holds in every state.
THEOREM StackInvAlways == Spec => []StackInv
<1>1. StackInv /\ [Next]_modalVars => StackInv'
  BY NextStack
<1> QED BY InitStack, <1>1, PTL DEF Spec

\* As long as every component pops only what it pushed, the compositor's grab
\* and the input mode are on exactly while something is on the stack, however
\* deep it is and whoever is destroyed (pushModal and popModal of main.js).
THEOREM GrabFollowsStackAlways == Spec => []GrabFollowsStack
<1>1. StackInv => GrabFollowsStack
  BY DEF StackInv, Grabbed, InputHeld, GrabFollowsStack
<1> QED BY StackInvAlways, <1>1, PTL

LEMMA StackInvSound == StackInv => RecordsSound
<1> SUFFICES ASSUME StackInv PROVE RecordsSound
  OBVIOUS
<1>1. modal \in ModalState /\ Base(modal)
  BY DEF StackInv, Base
<1>2. NoDanglingFocus
  BY DEF StackInv, Clear, NoDanglingFocus
<1>3. NoLeakedHandler
  <2> SUFFICES ASSUME ~strayed, NEW h \in ToSet(modal.handlers)
               PROVE  \E r \in ToSet(modal.stack) :
                         \/ h = Handler(r.actor, "pop", r.rid)
                         \/ h = Handler(r.focus, "focus", r.focusDestroyId)
    BY DEF NoLeakedHandler
  <2>1. h.kind \in {"pop", "focus"}
    BY <1>1, StackIs DEF Guards
  <2>2. \E i \in DOMAIN modal.stack : h = PopHandler(modal.stack[i]) \/ h = FocusHandler(modal.stack[i])
    BY <1>1, <2>1 DEF StackInv, Base, FocusGuarded, PopOnly, FocusOnly
  <2> QED BY <2>2 DEF ToSet, PopHandler, FocusHandler
<1>4. NoGrabWithoutOwner
  <2>1. modal.modalCount = Len(modal.stack)
    BY <1>1 DEF Base, Counted
  <2>2. modal.stack = <<>> => ~modal.hasModal /\ modal.inputMode = "normal"
    BY <1>1 DEF Base, IdleUngrabbed
  <2>3. modal.unredirect = (IF modal.stack = <<>> THEN 0 ELSE 1)
    BY DEF StackInv, Unredirected
  <2> QED BY <2>1, <2>2, <2>3 DEF NoGrabWithoutOwner
<1> QED BY <1>2, <1>3, <1>4 DEF StackInv, RecordsSound

\* The records, the handlers that guard them, the counters and the grab belong
\* together in every state: no record remembers a destroyed actor and no handler
\* outlives its record (but for destructions around shifted focuses), and
\* nothing is counted or held that is not on the stack.
THEOREM RecordsSoundAlways == Spec => []RecordsSound
<1> QED BY StackInvAlways, StackInvSound, PTL

\* What one step may do to the focus when it empties the stack.
FocusRestored ==
    modal.stack # <<>> /\ modal'.stack = <<>> /\ ~mispopped /\ ~strayed' =>
        modal'.keyFocus = IF stageFocused /\ origFocus \in alive' THEN origFocus ELSE Nobody

LEMMA NextRestores == StackInv /\ [Next]_modalVars => [FocusRestored]_modalVars
<1> SUFFICES ASSUME StackInv, Next, modal.stack # <<>>, modal'.stack = <<>>, ~mispopped, ~strayed'
             PROVE  modal'.keyFocus = IF stageFocused /\ origFocus \in alive' THEN origFocus
                                      ELSE Nobody
  BY DEF FocusRestored
<1>1. /\ Base(modal) /\ TypeInv /\ modal \in ModalState /\ stageFocused \in BOOLEAN
      /\ Grabbed(modal)
  BY DEF StackInv, Base, TypeInv
<1>2. ASSUME NEW a \in Owners, PushOwner(a) PROVE FALSE
  <2>1. PICK granted \in BOOLEAN : modal' = PushModal(modal, a, granted)
    BY <1>2 DEF PushOwner
  <2>2. CASE ~PushSucceeds(modal, granted)
    BY <2>1, <2>2 DEF PushModal
  <2>3. CASE PushSucceeds(modal, granted)
    <3>1. Pushed(modal, modal', a)
      BY <1>1, <2>1, <2>3, PushModalEffect DEF Base
    <3> QED BY <1>1, <3>1, PushedStack
  <2> QED BY <2>2, <2>3
<1>3. ASSUME NEW a \in Owners, Pop(a)
      PROVE  modal'.keyFocus = IF stageFocused /\ origFocus \in alive' THEN origFocus ELSE Nobody
  <2> DEFINE i == FindModal(modal, a)
  <2>1. i > 0 /\ modal' = PopModal(modal, a, stageFocused) /\ UNCHANGED <<alive, strayed>>
    BY <1>3 DEF Pop
  <2>2. i # 0
    BY <2>1
  <2>3. i \in DOMAIN modal.stack /\ Popped(modal, modal', i, stageFocused)
    BY <1>1, <2>1, <2>2, PopModalEffect DEF Base
  <2> HIDE DEF i
  <2>4. FirstKept(modal, modal', stageFocused)
    BY <1>1, <2>3, PoppedRest
  <2>5. BottomIs(modal, Restored(origFocus, alive))
    BY <2>1 DEF StackInv
  <2>6. modal'.keyFocus = IF stageFocused THEN Restored(origFocus, alive) ELSE Nobody
    BY <1>1, <2>4, <2>5 DEF FirstKept
  <2> QED BY <2>1, <2>6 DEF Restored
<1>4. ASSUME NEW a \in Owners, PopUnpushed(a) PROVE FALSE
  <2>1. modal' = IncorrectPop(modal, stageFocused)
    BY <1>4 DEF PopUnpushed, PopModal
  <2> QED BY <1>1, <2>1, IncorrectPopEffect
<1>5. ASSUME NEW a \in Actors, Destroy(a)
      PROVE  modal'.keyFocus = IF stageFocused /\ origFocus \in alive' THEN origFocus ELSE Nobody
  <2>1. /\ a \in Destroyable /\ alive' = alive \ {a}
        /\ modal' = DestroyActor(modal, a, stageFocused)
        /\ ~strayed /\ Unshifted(modal)
    BY <1>5 DEF Destroy
  <2>2. FocusGuarded(modal) /\ BottomIs(modal, Restored(origFocus, alive))
    BY <2>1 DEF StackInv
  <2>3. ClearedOf(modal, modal', a, stageFocused)
    BY <1>1, <2>1, <2>2, DestroyFocusEffect
  <2> DEFINE f == Restored(origFocus, alive)
  <2>4. modal'.keyFocus = IF stageFocused /\ f # a THEN f ELSE Nobody
    BY <1>1, <2>2, <2>3 DEF ClearedOf
  <2> QED BY <2>1, <2>4 DEF Restored
<1>6. ASSUME NEW w, MoveFocus(w) PROVE FALSE
  <2>1. modal' = [modal EXCEPT !.keyFocus = w]
    BY <1>6 DEF MoveFocus
  <2> QED BY <1>1, <2>1 DEF ModalState
<1>7. CASE FocusStage
  BY <1>7 DEF FocusStage
<1> QED BY <1>2, <1>3, <1>4, <1>5, <1>6, <1>7 DEF Next, Push, PushAgain

\* The pop or the destruction that empties the stack gives the key focus back to
\* the actor that had it before the first push, whatever was popped in between
\* and in which order (popModal's shift of the remembered focuses), unless that
\* actor is gone or the stage has lost the X focus.
THEOREM EmptyStackRestoresFocusAlways == Spec => EmptyStackRestoresFocus
<1>1. StackInv /\ [Next]_modalVars => [FocusRestored]_modalVars
  BY NextRestores
<1>2. Spec => [][FocusRestored]_modalVars
  BY StackInvAlways, <1>1, PTL DEF Spec
<1> QED BY <1>2 DEF EmptyStackRestoresFocus, FocusRestored


-----------------------------------------------------------------------------
(* The invariant of the overview and the expo on the modal stack.          *)

Shows(c) == IF c.visible THEN 1 ELSE 0

\* The fields of Main.overview: visible is exactly _modal, the overview is on the
\* stack for as long, and no show animation runs without it.
OverviewRecord == [shown : BOOLEAN, hasModal : BOOLEAN, visible : BOOLEAN,
                   animation : {"none", "show", "hide"}, panels : BOOLEAN]

\* k of the overview's records are not its own any more.
GroupHeld(m, o, k) ==
    /\ o.shown => o.hasModal
    /\ Times(m, Group) = (IF o.hasModal THEN 1 ELSE 0) + k

OverviewKnown(o) ==
    /\ o.visible = o.hasModal
    /\ o.animation = "none" => o.visible = o.shown
    /\ o.animation # "none" => o.visible

\* The fields of Main.expo.
ExpoRecord == [shown : BOOLEAN, hasModal : BOOLEAN, visible : BOOLEAN,
               animation : {"none", "show", "hide"}, group : Groups \cup {Nobody}]

\* The group of the expo is on the stack for as long as the expo believes so,
\* and no other one is unless it was replaced.
GroupHere(m, e) ==
    /\ e.shown => e.hasModal
    /\ e.visible => e.group \in Groups
    /\ e.group \in Groups => Times(m, e.group) = IF e.hasModal THEN 1 ELSE 0

GroupLeft(m, e) == \A a \in Groups : Times(m, a) = IF a = e.group /\ e.hasModal THEN 1 ELSE 0

ExpoKnown(e) ==
    /\ e.visible = e.hasModal
    /\ e.hasModal => e.group \in Groups
    /\ e.animation = "none" => e.visible = e.shown
    /\ e.animation # "none" => e.visible
    /\ e.animation = "hide" => ~e.shown

\* The animation in progress is the only one whose end is still to come.
PendingKnown(p, e) ==
    p = [show |-> IF e.animation = "show" THEN 1 ELSE 0,
         hide |-> IF e.animation = "hide" THEN 1 ELSE 0]

\* The panels are away only while one of the two is there and stays.
Stays(c) == c.visible /\ c.animation # "hide"
PanelsKnown(o, e) == o.panels \/ Stays(o) \/ Stays(e)

\* What holds as long as no expo was replaced.
Orderly(m, o, e, p) ==
    /\ Unredirected(m, Shows(o) + Shows(e))
    /\ GroupLeft(m, e) /\ ExpoKnown(e) /\ PendingKnown(p, e)
    /\ PanelsKnown(o, e)

ExpoInv ==
    /\ stageFocused \in BOOLEAN
    /\ replaced \in BOOLEAN /\ leftover \in Nat
    /\ overview \in OverviewRecord /\ expo \in ExpoRecord
    /\ Base(modal) /\ Grabbed(modal)
    /\ GroupHeld(modal, overview, leftover) /\ OverviewKnown(overview)
    /\ GroupHere(modal, expo)
    /\ replaced \/ Orderly(modal, overview, expo, pending)

-----------------------------------------------------------------------------
(* What the two do to the modal stack. *)

Held(m, n) == Base(m) /\ Grabbed(m) /\ Unredirected(m, n)

\* From m to p the stack has changed for the actor alone.
SameTimes(m, p, actor) == \A b : b # actor => Times(p, b) = Times(m, b)

\* FindModal finds what is there.
LEMMA FoundIsThere ==
  ASSUME NEW m \in ModalState, NEW a
  PROVE  FindModal(m, a) = 0 <=> Times(m, a) = 0
<1>1. IsFiniteSet(Positions(m, a))
  BY PositionsFinite
<1>2. Times(m, a) = 0 <=> Positions(m, a) = {}
  BY <1>1, FS_EmptySet DEF Times
<1>3. FindModal(m, a) = 0 <=> Positions(m, a) = {}
  BY FindModalFinds DEF Positions
<1> QED BY <1>2, <1>3

LEMMA HeldPush ==
  ASSUME NEW m, NEW n \in Int, Held(m, n), NEW actor \in Owners, NEW granted \in BOOLEAN,
         PushSucceeds(m, granted), actor \in Destroyable => Times(m, actor) = 0
  PROVE  LET p == PushModal(m, actor, granted)
         IN  /\ Held(p, n) /\ SameTimes(m, p, actor)
             /\ Times(p, actor) = Times(m, actor) + 1
<1> DEFINE p == PushModal(m, actor, granted)
<1>1. m \in ModalState /\ Base(m)
  BY DEF Held, Base
<1>2. Pushed(m, p, actor)
  BY <1>1, PushModalEffect DEF Base
<1> HIDE DEF p
<1>3. Base(p)
  BY <1>1, <1>2, PushedBase, FoundIsThere
<1>4. Grabbed(p) /\ Unredirected(p, n)
  BY <1>1, <1>2, PushedRest DEF Held
<1>5. \A b : Times(p, b) = Times(m, b) + (IF b = actor THEN 1 ELSE 0)
  BY <1>1, <1>2, PushedTimes
<1>6. \A b : Times(m, b) \in Nat
  BY <1>1, PositionsFinite
<1>7. SameTimes(m, p, actor)
  BY <1>5, <1>6 DEF SameTimes
<1> QED BY <1>3, <1>4, <1>5, <1>7 DEF Held, p

LEMMA HeldPop ==
  ASSUME NEW m, NEW n \in Int, Held(m, n), NEW actor, NEW sf \in BOOLEAN, Times(m, actor) # 0
  PROVE  LET p == PopModal(m, actor, sf)
         IN  /\ Held(p, n) /\ SameTimes(m, p, actor)
             /\ Times(p, actor) = Times(m, actor) - 1
<1> DEFINE p == PopModal(m, actor, sf)
           i == FindModal(m, actor)
<1>1. m \in ModalState /\ Base(m)
  BY DEF Held, Base
<1>2. i \in DOMAIN m.stack /\ m.stack[i].actor = actor /\ Popped(m, p, i, sf)
  BY <1>1, FoundIsThere, PopModalEffect DEF Base
<1> HIDE DEF p, i
<1>3. Base(p)
  BY <1>1, <1>2, PoppedBase
<1>4. Grabbed(p) /\ Unredirected(p, n)
  BY <1>1, <1>2, PoppedRest DEF Held, RestKept
<1>5. \A b : Times(p, b) = Times(m, b) - (IF b = actor THEN 1 ELSE 0)
  BY <1>1, <1>2, PoppedTimes
<1>6. \A b : Times(m, b) \in Nat
  BY <1>1, PositionsFinite
<1>7. SameTimes(m, p, actor)
  BY <1>5, <1>6 DEF SameTimes
<1> QED BY <1>3, <1>4, <1>5, <1>7 DEF Held, p

LEMMA HeldDestroy ==
  ASSUME NEW m, NEW n \in Int, Held(m, n), NEW actor \in Destroyable, NEW sf \in BOOLEAN
  PROVE  LET p == DestroyActor(m, actor, sf)
         IN  Held(p, n) /\ SameTimes(m, p, actor) /\ Times(p, actor) = 0
<1> DEFINE p == DestroyActor(m, actor, sf)
<1>1. Destroyed(m, p, actor)
  BY DestroyEffect DEF Held
<1> HIDE DEF p
<1>2. Held(p, n) /\ SameTimes(m, p, actor)
  BY <1>1 DEF Destroyed, Held, OthersKept, SameTimes
<1>3. Positions(p, actor) = {}
  BY <1>1 DEF Destroyed, Positions
<1>4. Times(p, actor) = 0
  BY <1>3, FS_EmptySet DEF Times
<1> QED BY <1>2, <1>4 DEF p

\* A state of the stack with another input mode and count of unredirection.
Touched(m, p, c) ==
    /\ p \in ModalState
    /\ p.stack = m.stack /\ p.handlers = m.handlers /\ p.modalCount = m.modalCount
    /\ p.keyFocus = m.keyFocus /\ p.hasModal = m.hasModal
    /\ p.inputMode \in {m.inputMode, "normal"}
    /\ p.unredirect = m.unredirect + c

LEMMA TouchedIs ==
  ASSUME NEW m \in ModalState, NEW c \in Int
  PROVE  /\ Touched(m, [m EXCEPT !.inputMode = "normal"], 0)
         /\ Touched(m, [m EXCEPT !.unredirect = m.unredirect + c], c)
<1>1. /\ m.inputMode \in {"normal", "fullscreen"} /\ m.unredirect \in Int
  BY StackIs
<1>2. Touched(m, [m EXCEPT !.inputMode = "normal"], 0)
  <2> DEFINE p == [m EXCEPT !.inputMode = "normal"]
  <2>1. p = [modalCount |-> m.modalCount, stack |-> m.stack, handlers |-> m.handlers,
             keyFocus |-> m.keyFocus, hasModal |-> m.hasModal, inputMode |-> "normal",
             unredirect |-> m.unredirect]
    BY DEF ModalState
  <2> HIDE DEF p
  <2>2. p \in ModalState
    BY <2>1 DEF ModalState
  <2>3. p.unredirect = m.unredirect + 0
    BY <1>1, <2>1
  <2> QED BY <2>1, <2>2, <2>3 DEF Touched, p
<1>3. Touched(m, [m EXCEPT !.unredirect = m.unredirect + c], c)
  <2> DEFINE u == m.unredirect + c
             p == [m EXCEPT !.unredirect = u]
  <2>0. u \in Int
    BY <1>1
  <2> HIDE DEF u
  <2>1. p = [modalCount |-> m.modalCount, stack |-> m.stack, handlers |-> m.handlers,
             keyFocus |-> m.keyFocus, hasModal |-> m.hasModal, inputMode |-> m.inputMode,
             unredirect |-> u]
    BY DEF ModalState
  <2> HIDE DEF p
  <2>2. p \in ModalState
    BY <2>0, <2>1 DEF ModalState
  <2> QED BY <2>1, <2>2 DEF Touched, p, u
<1> QED BY <1>2, <1>3

LEMMA HeldTouch ==
  ASSUME NEW m, NEW p, NEW n \in Int, NEW c \in Int, Held(m, n), Touched(m, p, c)
  PROVE  Held(p, n + c) /\ \A b : Times(p, b) = Times(m, b)
<1>1. m \in ModalState /\ Base(m) /\ p \in ModalState /\ m.unredirect \in Int
  BY StackIs DEF Held, Base, Touched
<1>2. IdleUngrabbed(p)
  BY <1>1 DEF Base, IdleUngrabbed, Touched
<1>3. Base(p)
  BY <1>1, <1>2, SameStack DEF Touched
<1>4. Grabbed(p) /\ Unredirected(p, n + c)
  BY <1>1 DEF Held, Grabbed, Unredirected, Touched
<1>5. \A b : Times(p, b) = Times(m, b)
  BY DEF Touched, Times, Positions
<1> QED BY <1>3, <1>4, <1>5 DEF Held

-----------------------------------------------------------------------------
(* The methods of the overview, on the states they go through. *)

Ov(shown, hasModal, visible, animation, panels) ==
    [shown |-> shown, hasModal |-> hasModal, visible |-> visible,
     animation |-> animation, panels |-> panels]

OvStates == [m : ModalState, o : OverviewRecord, f : BOOLEAN]

OvSound(s, n, k) == s \in OvStates /\ Held(s.m, n + Shows(s.o)) /\ GroupHeld(s.m, s.o, k)

OvMoved(s, t, n, k, o) ==
    OvSound(t, n, k) /\ t.o = o /\ t.f = s.f /\ SameTimes(s.m, t.m, Group)

LEMMA OvIs ==
  ASSUME NEW s \in OvStates
  PROVE  /\ s.o = Ov(s.o.shown, s.o.hasModal, s.o.visible, s.o.animation, s.o.panels)
         /\ s.o.shown \in BOOLEAN /\ s.o.hasModal \in BOOLEAN /\ s.o.visible \in BOOLEAN
         /\ s.o.animation \in {"none", "show", "hide"} /\ s.o.panels \in BOOLEAN
         /\ s.f \in BOOLEAN /\ s.m \in ModalState
BY DEF OvStates, OverviewRecord, Ov

\* t is s with another stack and other fields of the overview.
OvPut(s, t, m, o) == t = [s EXCEPT !.m = m, !.o = o]

LEMMA OvPutIs ==
  ASSUME NEW s \in OvStates, NEW m, NEW o, NEW t, OvPut(s, t, m, o)
  PROVE  t.m = m /\ t.o = o /\ t.f = s.f
         /\ (m \in ModalState /\ o \in OverviewRecord => t \in OvStates)
<1>1. t = [m |-> m, o |-> o, f |-> s.f]
  BY DEF OvPut, OvStates
<1>2. m \in ModalState /\ o \in OverviewRecord => t \in OvStates
  BY <1>1, OvIs DEF OvStates
<1> QED BY <1>1, <1>2

\* A state with other fields of the overview, and the stack touched or not.
LEMMA OvSet ==
  ASSUME NEW s, NEW n \in Int, NEW k \in Nat, OvSound(s, n, k), NEW m, NEW o, NEW c \in Int,
         NEW t, OvPut(s, t, m, o),
         (m = s.m /\ c = 0) \/ Touched(s.m, m, c),
         NEW q \in OverviewRecord, o = q, Shows(q) = Shows(s.o) + c, GroupHeld(s.m, q, k)
  PROVE  OvMoved(s, t, n, k, q)
<1>0. s \in OvStates
  BY DEF OvSound
<1>1. Shows(s.o) \in Int /\ Shows(q) \in Int /\ n + Shows(s.o) \in Int
      /\ (n + Shows(s.o)) + c = n + Shows(q)
  BY DEF Shows
<1>2. Held(m, n + Shows(q)) /\ \A b : Times(m, b) = Times(s.m, b)
  <2>1. CASE m = s.m /\ c = 0
    BY <1>1, <2>1 DEF OvSound
  <2>2. CASE Touched(s.m, m, c)
    <3> DEFINE l == n + Shows(s.o)
    <3>1. l \in Int /\ l + c = n + Shows(q) /\ Held(s.m, l)
      BY <1>1 DEF OvSound
    <3> HIDE DEF l
    <3>2. Held(m, l + c) /\ \A b : Times(m, b) = Times(s.m, b)
      BY <2>2, <3>1, HeldTouch
    <3> QED BY <3>1, <3>2
  <2> QED BY <2>1, <2>2
<1>3. GroupHeld(m, q, k)
  BY <1>2 DEF GroupHeld
<1>4. t.m = m /\ t.o = q /\ t.f = s.f /\ t \in OvStates
  BY <1>0, <1>2, OvPutIs DEF Held, Base
<1> QED BY <1>2, <1>3, <1>4 DEF OvSound, OvMoved, SameTimes

\* The parts of the methods that only set fields.
LEMMA OvBeginHide ==
  ASSUME NEW s, NEW n \in Int, NEW k \in Nat, OvSound(s, n, k)
  PROVE  OvMoved(s, BeginHide(s), n, k, Ov(s.o.shown, s.o.hasModal, s.o.visible, "hide", TRUE))
<1> DEFINE q == Ov(s.o.shown, s.o.hasModal, s.o.visible, "hide", TRUE)
           o == [s.o EXCEPT !.animation = "hide", !.panels = TRUE]
           t == BeginHide(s)
<1>0. s \in OvStates /\ s.o \in OverviewRecord
  BY DEF OvSound, OvStates
<1>1. q \in OverviewRecord /\ Shows(q) = Shows(s.o) + 0 /\ GroupHeld(s.m, q, k)
  BY <1>0, OvIs DEF Ov, OverviewRecord, Shows, GroupHeld, OvSound
<1>2. o = [s.o EXCEPT !.animation = "hide", !.panels = TRUE]
  OBVIOUS
<1>3. OvPut(s, t, s.m, o)
  BY <1>0 DEF BeginHide, OvPut, OvStates
<1> HIDE DEF o
<1>4. o = q
  BY <1>0, <1>2 DEF OverviewRecord, Ov
<1> HIDE DEF q, t
<1>5. OvMoved(s, t, n, k, q)
  BY <1>1, <1>3, <1>4, OvSet
<1> QED BY <1>5 DEF q, t

LEMMA OvBeginShow ==
  ASSUME NEW s, NEW n \in Int, NEW k \in Nat, OvSound(s, n, k), ~s.o.visible
  PROVE  OvMoved(s, BeginShow(s), n, k, Ov(s.o.shown, s.o.hasModal, TRUE, "show", FALSE))
<1> DEFINE q == Ov(s.o.shown, s.o.hasModal, TRUE, "show", FALSE)
           o == [s.o EXCEPT !.visible = TRUE, !.animation = "show", !.panels = FALSE]
           m == [s.m EXCEPT !.unredirect = s.m.unredirect + 1]
           t == BeginShow(s)
<1>0. s \in OvStates /\ s.o \in OverviewRecord /\ s.m \in ModalState
  BY DEF OvSound, OvStates
<1>1. q \in OverviewRecord /\ Shows(q) = Shows(s.o) + 1 /\ GroupHeld(s.m, q, k)
  BY <1>0, OvIs DEF Ov, OverviewRecord, Shows, GroupHeld, OvSound
<1>2. o = [s.o EXCEPT !.visible = TRUE, !.animation = "show", !.panels = FALSE]
  OBVIOUS
<1>3. OvPut(s, t, m, o)
  BY <1>0 DEF BeginShow, OvPut, OvStates
<1> HIDE DEF o
<1>4. o = q
  BY <1>0, <1>2 DEF OverviewRecord, Ov
<1>5. Touched(s.m, m, 1)
  <2>1. \A c \in Int : Touched(s.m, [s.m EXCEPT !.unredirect = s.m.unredirect + c], c)
    BY <1>0, TouchedIs
  <2> QED BY <2>1
<1> HIDE DEF q, t, m
<1>6. OvMoved(s, t, n, k, q)
  BY <1>1, <1>3, <1>4, <1>5, OvSet
<1> QED BY <1>6 DEF q, t

LEMMA OvHidden ==
  ASSUME NEW s, NEW n \in Int, NEW k \in Nat, OvSound(s, n, k), s.o.visible
  PROVE  OvMoved(s, Hidden(s), n, k, Ov(s.o.shown, s.o.hasModal, FALSE, "none", s.o.panels))
<1> DEFINE q == Ov(s.o.shown, s.o.hasModal, FALSE, "none", s.o.panels)
           o == [s.o EXCEPT !.visible = FALSE, !.animation = "none"]
           m == [s.m EXCEPT !.unredirect = s.m.unredirect - 1]
           t == Hidden(s)
<1>0. s \in OvStates /\ s.o \in OverviewRecord /\ s.m \in ModalState
  BY DEF OvSound, OvStates
<1>1. q \in OverviewRecord /\ Shows(q) = Shows(s.o) + (-1) /\ GroupHeld(s.m, q, k)
  BY <1>0, OvIs DEF Ov, OverviewRecord, Shows, GroupHeld, OvSound
<1>2. o = [s.o EXCEPT !.visible = FALSE, !.animation = "none"]
  OBVIOUS
<1>3. OvPut(s, t, m, o)
  BY <1>0 DEF Hidden, OvPut, OvStates
<1> HIDE DEF o
<1>4. o = q
  BY <1>0, <1>2 DEF OverviewRecord, Ov
<1>5. Touched(s.m, m, -1)
  <2>1. Touched(s.m, [s.m EXCEPT !.unredirect = s.m.unredirect + (-1)], -1)
    <3>1. \A c \in Int : Touched(s.m, [s.m EXCEPT !.unredirect = s.m.unredirect + c], c)
      BY <1>0, TouchedIs
    <3>2. -1 \in Int
      OBVIOUS
    <3> QED BY ONLY <3>1, <3>2
  <2>2. s.m.unredirect + (-1) = s.m.unredirect - 1
    BY <1>0, StackIs
  <2> QED BY <2>1, <2>2
<1> HIDE DEF q, t, m
<1>6. OvMoved(s, t, n, k, q)
  BY <1>1, <1>3, <1>4, <1>5, OvSet
<1> QED BY <1>6 DEF q, t

LEMMA OvUnshown ==
  ASSUME NEW s, NEW n \in Int, NEW k \in Nat, OvSound(s, n, k)
  PROVE  OvMoved(s, [s EXCEPT !.o.shown = FALSE], n, k,
                 Ov(FALSE, s.o.hasModal, s.o.visible, s.o.animation, s.o.panels))
<1> DEFINE q == Ov(FALSE, s.o.hasModal, s.o.visible, s.o.animation, s.o.panels)
           o == [s.o EXCEPT !.shown = FALSE]
           t == [s EXCEPT !.o.shown = FALSE]
<1>0. s \in OvStates /\ s.o \in OverviewRecord
  BY DEF OvSound, OvStates
<1>1. q \in OverviewRecord /\ Shows(q) = Shows(s.o) + 0 /\ GroupHeld(s.m, q, k)
  BY <1>0, OvIs DEF Ov, OverviewRecord, Shows, GroupHeld, OvSound
<1>2. o = [s.o EXCEPT !.shown = FALSE]
  OBVIOUS
<1>3. OvPut(s, t, s.m, o)
  BY <1>0 DEF OvPut, OvStates
<1> HIDE DEF o
<1>4. o = q
  BY <1>0, <1>2 DEF OverviewRecord, Ov
<1> HIDE DEF q, t
<1>5. OvMoved(s, t, n, k, q)
  BY <1>1, <1>3, <1>4, OvSet
<1> QED BY <1>5 DEF q, t

LEMMA OvStopped ==
  ASSUME NEW s, NEW n \in Int, NEW k \in Nat, OvSound(s, n, k)
  PROVE  OvMoved(s, [s EXCEPT !.o.animation = "none"], n, k,
                 Ov(s.o.shown, s.o.hasModal, s.o.visible, "none", s.o.panels))
<1> DEFINE q == Ov(s.o.shown, s.o.hasModal, s.o.visible, "none", s.o.panels)
           o == [s.o EXCEPT !.animation = "none"]
           t == [s EXCEPT !.o.animation = "none"]
<1>0. s \in OvStates /\ s.o \in OverviewRecord
  BY DEF OvSound, OvStates
<1>1. q \in OverviewRecord /\ Shows(q) = Shows(s.o) + 0 /\ GroupHeld(s.m, q, k)
  BY <1>0, OvIs DEF Ov, OverviewRecord, Shows, GroupHeld, OvSound
<1>2. o = [s.o EXCEPT !.animation = "none"]
  OBVIOUS
<1>3. OvPut(s, t, s.m, o)
  BY <1>0 DEF OvPut, OvStates
<1> HIDE DEF o
<1>4. o = q
  BY <1>0, <1>2 DEF OverviewRecord, Ov
<1> HIDE DEF q, t
<1>5. OvMoved(s, t, n, k, q)
  BY <1>1, <1>3, <1>4, OvSet
<1> QED BY <1>5 DEF q, t

\* _syncInputMode
LEMMA OvSync ==
  ASSUME NEW s, NEW n \in Int, NEW k \in Nat, OvSound(s, n, k)
  PROVE  OvMoved(s, SyncInputMode(s), n, k,
                 Ov(s.o.shown, s.o.hasModal /\ (s.o.shown \/ s.o.animation # "none"),
                    s.o.visible, s.o.animation, s.o.panels))
<1> DEFINE t == SyncInputMode(s)
           q == Ov(s.o.shown, FALSE, s.o.visible, s.o.animation, s.o.panels)
<1>0. s \in OvStates /\ s.o \in OverviewRecord /\ s.m \in ModalState /\ s.f \in BOOLEAN
  BY DEF OvSound, OvStates
<1>1. CASE Animating(s) \/ s.o.shown
  <2>1. t = s /\ s.o = Ov(s.o.shown, s.o.hasModal, s.o.visible, s.o.animation, s.o.panels)
    BY <1>0, <1>1, OvIs DEF SyncInputMode
  <2>2. s.o.hasModal = (s.o.hasModal /\ (s.o.shown \/ s.o.animation # "none"))
    BY <1>0, <1>1, OvIs DEF Animating
  <2>3. OvMoved(s, s, n, k, s.o)
    BY DEF OvMoved, SameTimes
  <2> QED BY <2>1, <2>2, <2>3
<1>2. CASE ~(Animating(s) \/ s.o.shown)
  <2>0. (s.o.hasModal /\ (s.o.shown \/ s.o.animation # "none")) = FALSE
    BY <1>2 DEF Animating
  <2>1. q \in OverviewRecord /\ Shows(q) = Shows(s.o)
    BY <1>0, OvIs DEF Ov, OverviewRecord, Shows
  <2>2. Shows(s.o) \in Int /\ n + Shows(s.o) \in Int /\ Shows(s.o) + 0 = Shows(s.o)
    BY DEF Shows
  <2>3. CASE s.o.hasModal
    <3> DEFINE p == PopModal(s.m, Group, s.f)
               o == [s.o EXCEPT !.hasModal = FALSE]
    <3>1. OvPut(s, t, p, o)
      <4>1. t = ReleaseModal(s)
        BY <1>2, <2>3 DEF SyncInputMode
      <4> QED BY <1>0, <4>1 DEF ReleaseModal, OvPut, OvStates
    <3>2. Times(s.m, Group) # 0
      BY <2>3 DEF OvSound, GroupHeld
    <3>3. /\ Held(p, n + Shows(s.o)) /\ SameTimes(s.m, p, Group)
          /\ Times(p, Group) = Times(s.m, Group) - 1
      BY <1>0, <2>2, <3>2, HeldPop DEF OvSound
    <3>4. GroupHeld(p, q, k)
      BY <1>2, <2>3, <3>3 DEF GroupHeld, Ov, OvSound
    <3>5. o = [s.o EXCEPT !.hasModal = FALSE]
      OBVIOUS
    <3> HIDE DEF p, o
    <3>6. o = q
      BY <1>0, <3>5 DEF OverviewRecord, Ov
    <3> HIDE DEF q, t
    <3>7. t.m = p /\ t.o = q /\ t.f = s.f /\ t \in OvStates
      BY <1>0, <2>1, <3>1, <3>3, <3>6, OvPutIs DEF Held, Base
    <3>8. OvMoved(s, t, n, k, q)
      BY <2>1, <3>3, <3>4, <3>7 DEF OvMoved, OvSound
    <3> QED BY <2>0, <3>8 DEF q, t
  <2>4. CASE ~s.o.hasModal
    <3> DEFINE m == [s.m EXCEPT !.inputMode = "normal"]
    <3>1. s.o = q
      BY <1>0, <2>4, OvIs DEF Ov
    <3>2. OvPut(s, t, m, s.o)
      <4>1. t = [s EXCEPT !.m.inputMode = "normal"]
        BY <1>2, <2>4 DEF SyncInputMode
      <4> QED BY <1>0, <4>1 DEF OvPut, OvStates
    <3>3. Touched(s.m, m, 0)
      <4>1. 0 \in Int
        OBVIOUS
      <4> QED BY <1>0, <4>1, TouchedIs
    <3>4. GroupHeld(s.m, s.o, k)
      BY DEF OvSound
    <3> HIDE DEF m, t, q
    <3>5. OvMoved(s, t, n, k, s.o)
      BY <1>0, <2>2, <3>2, <3>3, <3>4, OvSet
    <3> QED BY <2>0, <3>1, <3>5 DEF q, t
  <2> QED BY <1>0, <2>3, <2>4, OvIs
<1> QED BY <1>1, <1>2

\* _animateNotVisible, called for an overview that is to be hidden
LEMMA OvAnimateNotVisible ==
  ASSUME NEW s, NEW n \in Int, NEW k \in Nat, OvSound(s, n, k), NEW d \in BOOLEAN,
         s.o.visible, ~s.o.shown, s.o.animation = "none"
  PROVE  OvMoved(s, AnimateNotVisible(s, d), n, k,
                 IF d THEN Ov(FALSE, s.o.hasModal, TRUE, "hide", TRUE)
                 ELSE Ov(FALSE, FALSE, FALSE, "none", TRUE))
<1> DEFINE b == BeginHide(s)
           h == Hidden(b)
           t == SyncInputMode(h)
<1>0. s \in OvStates /\ s.o.visible = TRUE /\ s.o.shown = FALSE
  BY OvIs DEF OvSound
<1>1. AnimateNotVisible(s, d) = IF d THEN b ELSE t
  BY DEF AnimateNotVisible, Animating
<1>2. OvMoved(s, b, n, k, Ov(FALSE, s.o.hasModal, TRUE, "hide", TRUE))
  BY <1>0, OvBeginHide
<1> HIDE DEF b
<1>3. /\ OvSound(b, n, k) /\ b.o.visible = TRUE /\ b.o.shown = FALSE
      /\ b.o.hasModal = s.o.hasModal /\ b.o.panels = TRUE
  BY <1>2 DEF OvMoved, Ov
<1>4. OvMoved(b, h, n, k, Ov(FALSE, s.o.hasModal, FALSE, "none", TRUE))
  BY <1>3, OvHidden
<1> HIDE DEF h
<1>5. /\ OvSound(h, n, k) /\ h.o.visible = FALSE /\ h.o.shown = FALSE
      /\ h.o.animation = "none" /\ h.o.panels = TRUE
  BY <1>4 DEF OvMoved, Ov
<1>6. (h.o.hasModal /\ (h.o.shown \/ h.o.animation # "none")) = FALSE
  BY <1>5
<1>7. OvMoved(h, t, n, k, Ov(FALSE, FALSE, FALSE, "none", TRUE))
  BY <1>5, <1>6, OvSync
<1> HIDE DEF t
<1>8. OvMoved(s, t, n, k, Ov(FALSE, FALSE, FALSE, "none", TRUE))
  BY ONLY <1>2, <1>4, <1>7 DEF OvMoved, SameTimes
<1> QED BY <1>1, <1>2, <1>8

\* _showDone
LEMMA OvShowDone ==
  ASSUME NEW s, NEW n \in Int, NEW k \in Nat, OvSound(s, n, k), NEW d \in BOOLEAN, s.o.visible
  PROVE  OvMoved(s, ShowDone(s, d), n, k,
                 IF s.o.shown THEN Ov(TRUE, s.o.hasModal, TRUE, "none", s.o.panels)
                 ELSE IF d THEN Ov(FALSE, s.o.hasModal, TRUE, "hide", TRUE)
                 ELSE Ov(FALSE, FALSE, FALSE, "none", TRUE))
<1> DEFINE z == [s EXCEPT !.o.animation = "none"]
           a == AnimateNotVisible(z, d)
           x == IF s.o.shown THEN z ELSE a
           t == SyncInputMode(x)
<1>0. s \in OvStates /\ s.o.visible = TRUE /\ s.o.shown \in BOOLEAN
  BY OvIs DEF OvSound
<1>1. ShowDone(s, d) = t
  BY DEF ShowDone
<1>2. OvMoved(s, z, n, k, Ov(s.o.shown, s.o.hasModal, TRUE, "none", s.o.panels))
  BY <1>0, OvStopped
<1> HIDE DEF z
<1>3. /\ OvSound(z, n, k) /\ z.o.visible = TRUE /\ z.o.shown = s.o.shown
      /\ z.o.hasModal = s.o.hasModal /\ z.o.animation = "none" /\ z.o.panels = s.o.panels
  BY <1>2 DEF OvMoved, Ov
<1>4. CASE s.o.shown
  <2>1. x = z /\ z.o.shown = TRUE
    BY <1>0, <1>3, <1>4
  <2>2. (z.o.hasModal /\ (z.o.shown \/ z.o.animation # "none")) = s.o.hasModal
    <3>1. s.o.hasModal \in BOOLEAN
      BY <1>0, OvIs
    <3> QED BY <1>3, <2>1, <3>1
  <2>3. OvMoved(z, t, n, k, Ov(TRUE, s.o.hasModal, TRUE, "none", s.o.panels))
    BY <1>3, <2>1, <2>2, OvSync
  <2> HIDE DEF t
  <2>4. OvMoved(s, t, n, k, Ov(TRUE, s.o.hasModal, TRUE, "none", s.o.panels))
    BY ONLY <1>2, <2>3 DEF OvMoved, SameTimes
  <2> QED BY <1>1, <1>4, <2>4
<1>5. CASE ~s.o.shown
  <2> DEFINE o == IF d THEN Ov(FALSE, s.o.hasModal, TRUE, "hide", TRUE)
                  ELSE Ov(FALSE, FALSE, FALSE, "none", TRUE)
  <2>1. OvMoved(z, a, n, k, o)
    BY <1>3, <1>5, OvAnimateNotVisible
  <2> HIDE DEF a
  <2>2. OvSound(a, n, k) /\ a.o = o /\ x = a
    BY <1>5, <2>1 DEF OvMoved
  <2>3. Ov(a.o.shown, a.o.hasModal /\ (a.o.shown \/ a.o.animation # "none"),
           a.o.visible, a.o.animation, a.o.panels) = o
    <3>1. s.o.hasModal \in BOOLEAN
      BY <1>0, OvIs
    <3>2. CASE d
      <4>1. o = Ov(FALSE, s.o.hasModal, TRUE, "hide", TRUE)
        BY <3>2
      <4> HIDE DEF o
      <4>2. /\ a.o.shown = FALSE /\ a.o.hasModal = s.o.hasModal /\ a.o.visible = TRUE
            /\ a.o.animation = "hide" /\ a.o.panels = TRUE
        BY <2>2, <4>1 DEF Ov
      <4>3. (a.o.hasModal /\ (a.o.shown \/ a.o.animation # "none")) = s.o.hasModal
        BY <3>1, <4>2
      <4> QED BY <4>1, <4>2, <4>3
    <3>3. CASE ~d
      <4>1. o = Ov(FALSE, FALSE, FALSE, "none", TRUE)
        BY <3>3
      <4> HIDE DEF o
      <4>2. /\ a.o.shown = FALSE /\ a.o.hasModal = FALSE /\ a.o.visible = FALSE
            /\ a.o.animation = "none" /\ a.o.panels = TRUE
        BY <2>2, <4>1 DEF Ov
      <4>3. (a.o.hasModal /\ (a.o.shown \/ a.o.animation # "none")) = FALSE
        BY <4>2
      <4> QED BY <4>1, <4>2, <4>3
    <3> QED BY <3>2, <3>3
  <2> HIDE DEF o
  <2>4. OvMoved(a, t, n, k, o)
    BY <2>2, <2>3, OvSync
  <2> HIDE DEF t
  <2>5. OvMoved(s, t, n, k, o)
    BY ONLY <1>2, <2>1, <2>4 DEF OvMoved, SameTimes
  <2> QED BY <1>1, <1>5, <2>5 DEF o
<1> QED BY <1>4, <1>5

\* _animateVisible of an overview that is not visible
LEMMA OvAnimateVisible ==
  ASSUME NEW s, NEW n \in Int, NEW k \in Nat, OvSound(s, n, k), NEW d \in BOOLEAN,
         s.o.shown, ~s.o.visible, s.o.animation = "none"
  PROVE  OvMoved(s, AnimateVisible(s, d), n, k,
                 IF d THEN Ov(TRUE, s.o.hasModal, TRUE, "show", FALSE)
                 ELSE Ov(TRUE, s.o.hasModal, TRUE, "none", FALSE))
<1> DEFINE b == BeginShow(s)
           t == ShowDone(b, d)
<1>0. s \in OvStates /\ s.o.shown = TRUE
  BY OvIs DEF OvSound
<1>1. AnimateVisible(s, d) = IF d THEN b ELSE t
  BY DEF AnimateVisible, Animating
<1>2. OvMoved(s, b, n, k, Ov(TRUE, s.o.hasModal, TRUE, "show", FALSE))
  BY <1>0, OvBeginShow
<1> HIDE DEF b
<1>3. /\ OvSound(b, n, k) /\ b.o.visible = TRUE /\ b.o.shown = TRUE
      /\ b.o.hasModal = s.o.hasModal /\ b.o.panels = FALSE
  BY <1>2 DEF OvMoved, Ov
<1>4. OvMoved(b, t, n, k, Ov(TRUE, s.o.hasModal, TRUE, "none", FALSE))
  BY <1>3, OvShowDone
<1> HIDE DEF t
<1>5. OvMoved(s, t, n, k, Ov(TRUE, s.o.hasModal, TRUE, "none", FALSE))
  BY ONLY <1>2, <1>4 DEF OvMoved, SameTimes
<1> QED BY <1>1, <1>2, <1>5

\* _hideDone
LEMMA OvHideDone ==
  ASSUME NEW s, NEW n \in Int, NEW k \in Nat, OvSound(s, n, k), NEW d \in BOOLEAN, s.o.visible
  PROVE  OvMoved(s, HideDone(s, d), n, k,
                 IF ~s.o.shown THEN Ov(FALSE, FALSE, FALSE, "none", s.o.panels)
                 ELSE IF d THEN Ov(TRUE, s.o.hasModal, TRUE, "show", FALSE)
                 ELSE Ov(TRUE, s.o.hasModal, TRUE, "none", FALSE))
<1> DEFINE h == Hidden(s)
           a == AnimateVisible(h, d)
           x == IF s.o.shown THEN a ELSE h
           t == SyncInputMode(x)
<1>0. s \in OvStates /\ s.o.shown \in BOOLEAN /\ s.o.hasModal \in BOOLEAN
  BY OvIs DEF OvSound
<1>1. HideDone(s, d) = t
  BY DEF HideDone
<1>2. OvMoved(s, h, n, k, Ov(s.o.shown, s.o.hasModal, FALSE, "none", s.o.panels))
  BY OvHidden
<1> HIDE DEF h
<1>3. /\ OvSound(h, n, k) /\ h.o.visible = FALSE /\ h.o.shown = s.o.shown
      /\ h.o.hasModal = s.o.hasModal /\ h.o.animation = "none" /\ h.o.panels = s.o.panels
  BY <1>2 DEF OvMoved, Ov
<1>4. CASE ~s.o.shown
  <2>1. x = h /\ h.o.shown = FALSE
    BY <1>0, <1>3, <1>4
  <2>2. (h.o.hasModal /\ (h.o.shown \/ h.o.animation # "none")) = FALSE
    BY <1>3, <2>1
  <2>3. OvMoved(h, t, n, k, Ov(FALSE, FALSE, FALSE, "none", s.o.panels))
    BY <1>3, <2>1, <2>2, OvSync
  <2> HIDE DEF t
  <2>4. OvMoved(s, t, n, k, Ov(FALSE, FALSE, FALSE, "none", s.o.panels))
    BY ONLY <1>2, <2>3 DEF OvMoved, SameTimes
  <2> QED BY <1>1, <1>4, <2>4
<1>5. CASE s.o.shown
  <2> DEFINE v == IF d THEN "show" ELSE "none"
             o == Ov(TRUE, s.o.hasModal, TRUE, v, FALSE)
  <2>1. OvMoved(h, a, n, k, o)
    BY <1>3, <1>5, OvAnimateVisible
  <2> HIDE DEF a, v
  <2>2. /\ OvSound(a, n, k) /\ x = a
        /\ a.o.shown = TRUE /\ a.o.hasModal = s.o.hasModal /\ a.o.visible = TRUE
        /\ a.o.animation = v /\ a.o.panels = FALSE
    BY <1>5, <2>1 DEF OvMoved, Ov
  <2>3. (a.o.hasModal /\ (a.o.shown \/ a.o.animation # "none")) = s.o.hasModal
    BY <1>0, <2>2
  <2>4. OvMoved(a, t, n, k, o)
    BY <2>2, <2>3, OvSync
  <2> HIDE DEF t
  <2>5. OvMoved(s, t, n, k, o)
    BY ONLY <1>2, <2>1, <2>4 DEF OvMoved, SameTimes
  <2> QED BY <1>1, <1>5, <2>5 DEF v
<1> QED BY <1>4, <1>5

\* hide()
LEMMA OvHide ==
  ASSUME NEW s, NEW n \in Int, NEW k \in Nat, OvSound(s, n, k), NEW d \in BOOLEAN, s.o.shown, s.o.visible
  PROVE  OvMoved(s, HideOverview(s, d), n, k,
                 IF s.o.animation # "none"
                 THEN Ov(FALSE, s.o.hasModal, TRUE, s.o.animation, s.o.panels)
                 ELSE IF d THEN Ov(FALSE, s.o.hasModal, TRUE, "hide", TRUE)
                 ELSE Ov(FALSE, FALSE, FALSE, "none", TRUE))
<1> DEFINE z == [s EXCEPT !.o.shown = FALSE]
           a == AnimateNotVisible(z, d)
           t == SyncInputMode(a)
<1>0. s \in OvStates /\ s.o.visible = TRUE /\ s.o.hasModal \in BOOLEAN
  BY OvIs DEF OvSound
<1>1. HideOverview(s, d) = t
  BY DEF HideOverview
<1>2. OvMoved(s, z, n, k, Ov(FALSE, s.o.hasModal, TRUE, s.o.animation, s.o.panels))
  BY <1>0, OvUnshown
<1> HIDE DEF z
<1>3. /\ OvSound(z, n, k) /\ z.o.visible = TRUE /\ z.o.shown = FALSE
      /\ z.o.hasModal = s.o.hasModal /\ z.o.animation = s.o.animation /\ z.o.panels = s.o.panels
  BY <1>2 DEF OvMoved, Ov
<1>4. CASE s.o.animation # "none"
  <2>1. a = z
    BY <1>3, <1>4 DEF AnimateNotVisible, Animating
  <2>2. (z.o.hasModal /\ (z.o.shown \/ z.o.animation # "none")) = s.o.hasModal
    BY <1>0, <1>3, <1>4
  <2>3. OvMoved(z, t, n, k, Ov(FALSE, s.o.hasModal, TRUE, s.o.animation, s.o.panels))
    BY <1>3, <2>1, <2>2, OvSync
  <2> HIDE DEF t
  <2>4. OvMoved(s, t, n, k, Ov(FALSE, s.o.hasModal, TRUE, s.o.animation, s.o.panels))
    BY ONLY <1>2, <2>3 DEF OvMoved, SameTimes
  <2> QED BY <1>1, <1>4, <2>4
<1>5. CASE s.o.animation = "none" /\ d
  <2> DEFINE o == Ov(FALSE, s.o.hasModal, TRUE, "hide", TRUE)
  <2>1. OvMoved(z, a, n, k, o)
    BY <1>3, <1>5, OvAnimateNotVisible
  <2> HIDE DEF a
  <2>2. /\ OvSound(a, n, k)
        /\ a.o.shown = FALSE /\ a.o.hasModal = s.o.hasModal /\ a.o.visible = TRUE
        /\ a.o.animation = "hide" /\ a.o.panels = TRUE
    BY <2>1 DEF OvMoved, Ov
  <2>3. (a.o.hasModal /\ (a.o.shown \/ a.o.animation # "none")) = s.o.hasModal
    BY <1>0, <2>2
  <2>4. OvMoved(a, t, n, k, o)
    BY <2>2, <2>3, OvSync
  <2> HIDE DEF t
  <2>5. OvMoved(s, t, n, k, o)
    BY ONLY <1>2, <2>1, <2>4 DEF OvMoved, SameTimes
  <2> QED BY <1>1, <1>5, <2>5
<1>6. CASE s.o.animation = "none" /\ ~d
  <2> DEFINE o == Ov(FALSE, FALSE, FALSE, "none", TRUE)
  <2>1. OvMoved(z, a, n, k, o)
    BY <1>3, <1>6, OvAnimateNotVisible
  <2> HIDE DEF a
  <2>2. /\ OvSound(a, n, k)
        /\ a.o.shown = FALSE /\ a.o.hasModal = FALSE /\ a.o.visible = FALSE
        /\ a.o.animation = "none" /\ a.o.panels = TRUE
    BY <2>1 DEF OvMoved, Ov
  <2>3. (a.o.hasModal /\ (a.o.shown \/ a.o.animation # "none")) = FALSE
    BY <2>2
  <2>4. OvMoved(a, t, n, k, o)
    BY <2>2, <2>3, OvSync
  <2> HIDE DEF t
  <2>5. OvMoved(s, t, n, k, o)
    BY ONLY <1>2, <2>1, <2>4 DEF OvMoved, SameTimes
  <2> QED BY <1>1, <1>6, <2>5
<1> QED BY <1>4, <1>5, <1>6

\* show(), with the push
LEMMA OvShow ==
  ASSUME NEW s, NEW n \in Int, NEW k \in Nat, OvSound(s, n, k),
         NEW d \in BOOLEAN, NEW granted \in BOOLEAN,
         PushSucceeds(s.m, granted), ~s.o.shown, ~s.o.visible => s.o.animation = "none",
         NEW j \in Nat, j = IF s.o.hasModal THEN k + 1 ELSE k
  PROVE  OvMoved(s, ShowOverview(s, granted, d), n, j,
                 IF s.o.visible THEN Ov(TRUE, TRUE, TRUE, s.o.animation, s.o.panels)
                 ELSE IF d THEN Ov(TRUE, TRUE, TRUE, "show", FALSE)
                 ELSE Ov(TRUE, TRUE, TRUE, "none", FALSE))
<1> DEFINE p == PushModal(s.m, Group, granted)
           o == [s.o EXCEPT !.hasModal = TRUE, !.shown = TRUE]
           q == Ov(TRUE, TRUE, s.o.visible, s.o.animation, s.o.panels)
           z == [s EXCEPT !.m = p, !.o.hasModal = TRUE, !.o.shown = TRUE]
           t == AnimateVisible(z, d)
<1>0. s \in OvStates /\ s.o \in OverviewRecord /\ s.m \in ModalState /\ s.o.visible \in BOOLEAN
  BY OvIs DEF OvSound, OvStates
<1>1. ShowOverview(s, granted, d) = t
  BY DEF ShowOverview
<1>2. OvMoved(s, z, n, j, q)
  <2>1. q \in OverviewRecord /\ Shows(q) = Shows(s.o)
    BY <1>0, OvIs DEF Ov, OverviewRecord, Shows
  <2>2. Shows(s.o) \in Int /\ n + Shows(s.o) \in Int
    BY DEF Shows
  <2>3. Group \in Owners /\ Group \notin Destroyable
    BY OverviewAssumption
  <2>4. Held(p, n + Shows(s.o)) /\ SameTimes(s.m, p, Group) /\ Times(p, Group) = Times(s.m, Group) + 1
    BY <2>2, <2>3, HeldPush DEF OvSound
  <2>5. Times(s.m, Group) \in Nat
    BY <1>0, PositionsFinite
  <2>6. GroupHeld(p, q, j)
    <3>1. Times(s.m, Group) = (IF s.o.hasModal THEN 1 ELSE 0) + k
      BY DEF OvSound, GroupHeld
    <3>2. Times(p, Group) = 1 + j
      BY <2>4, <2>5, <3>1
    <3> QED BY <3>2 DEF GroupHeld, Ov
  <2>7. o = [s.o EXCEPT !.hasModal = TRUE, !.shown = TRUE]
    OBVIOUS
  <2> HIDE DEF p
  <2>8. OvPut(s, z, p, o)
    BY <1>0 DEF OvPut, OvStates
  <2> HIDE DEF o
  <2>9. o = q
    BY <1>0, <2>7 DEF OverviewRecord, Ov
  <2> HIDE DEF q, z
  <2>10. z.m = p /\ z.o = q /\ z.f = s.f /\ z \in OvStates
    BY <1>0, <2>1, <2>4, <2>8, <2>9, OvPutIs DEF Held, Base
  <2> QED BY <2>1, <2>4, <2>6, <2>10 DEF OvMoved, OvSound
<1> HIDE DEF z, o, p
<1>3. /\ OvSound(z, n, j) /\ z.o.shown = TRUE /\ z.o.hasModal = TRUE
      /\ z.o.visible = s.o.visible /\ z.o.animation = s.o.animation
  BY <1>2 DEF OvMoved, Ov
<1>4. CASE s.o.visible
  <2>1. t = z
    BY <1>3, <1>4 DEF AnimateVisible
  <2> HIDE DEF t
  <2>2. s.o.visible = TRUE
    BY <1>0, <1>4
  <2> QED BY <1>1, <1>2, <1>4, <2>1, <2>2
<1>5. CASE ~s.o.visible
  <2> DEFINE r == IF d THEN Ov(TRUE, TRUE, TRUE, "show", FALSE)
                  ELSE Ov(TRUE, TRUE, TRUE, "none", FALSE)
  <2>1. OvMoved(z, t, n, j, r)
    BY <1>3, <1>5, OvAnimateVisible
  <2> HIDE DEF t, r
  <2>2. OvMoved(s, t, n, j, r)
    BY ONLY <1>2, <2>1 DEF OvMoved, SameTimes
  <2> QED BY <1>1, <1>5, <2>2 DEF r
<1> QED BY <1>4, <1>5

\* The overview is in a state of its methods, with whatever the others count.
LEMMA StateSound ==
  ASSUME ExpoInv
  PROVE  /\ State.m = modal /\ State.o = overview /\ State.f = stageFocused
         /\ \E n \in Int : /\ OvSound(State, n, leftover)
                           /\ replaced \/ n = Shows(expo)
<1> DEFINE c == IF modal.stack = <<>> THEN 0 ELSE 1
           n == (modal.unredirect - c) - Shows(overview)
<1>1. State.m = modal /\ State.o = overview /\ State.f = stageFocused
      /\ State \in OvStates
  BY DEF State, OvStates, ExpoInv, Base
<1>2. modal.unredirect \in Int /\ c \in Int /\ Shows(overview) \in Int /\ Shows(expo) \in Int
  BY StackIs DEF ExpoInv, Base, Shows
<1>3. n \in Int /\ modal.unredirect = (n + Shows(overview)) + c
  <2> HIDE DEF c
  <2> QED BY <1>2
<1>4. Unredirected(modal, n + Shows(overview))
  BY <1>3 DEF Unredirected
<1>5. replaced \/ n = Shows(expo)
  <2> SUFFICES ASSUME ~replaced PROVE n = Shows(expo)
    OBVIOUS
  <2>1. modal.unredirect = (Shows(overview) + Shows(expo)) + c
    BY DEF ExpoInv, Orderly, Unredirected
  <2> HIDE DEF c
  <2> QED BY <1>2, <2>1
<1> HIDE DEF n, c
<1>6. OvSound(State, n, leftover)
  BY <1>1, <1>4 DEF OvSound, ExpoInv, Held
<1> QED BY <1>1, <1>3, <1>5, <1>6

\* Whatever the overview does, it stays right with the expo.
LEMMA OverviewMoves ==
  ASSUME ExpoInv, NEW n \in Int, replaced \/ n = Shows(expo),
         leftover' \in Nat, NEW t, NEW o, OvMoved(State, t, n, leftover', o),
         modal' = t.m, overview' = t.o,
         UNCHANGED <<expo, pending, replaced, stageFocused>>,
         OverviewKnown(o), PanelsKnown(overview, expo) => PanelsKnown(o, expo)
  PROVE  ExpoInv'
<1>1. /\ t \in OvStates /\ t.o = o /\ t.f \in BOOLEAN
      /\ Held(modal', n + Shows(overview')) /\ GroupHeld(modal', overview', leftover')
      /\ SameTimes(modal, modal', Group)
  BY DEF OvMoved, OvSound, State, OvStates
<1>2. overview' \in OverviewRecord /\ expo' = expo /\ replaced' = replaced
  BY <1>1 DEF OvStates
<1>3. Base(modal') /\ Grabbed(modal') /\ Unredirected(modal', n + Shows(overview'))
  BY <1>1 DEF Held
<1>4. \A a \in Groups : Times(modal', a) = Times(modal, a)
  BY <1>1, ExpoAssumption DEF SameTimes
<1>5. GroupHere(modal', expo')
  BY <1>2, <1>4 DEF ExpoInv, GroupHere
<1>6. ~replaced => Orderly(modal', overview', expo', pending')
  <2> SUFFICES ASSUME ~replaced PROVE Orderly(modal', overview', expo', pending')
    OBVIOUS
  <2>1. Orderly(modal, overview, expo, pending)
    BY DEF ExpoInv
  <2>2. GroupLeft(modal', expo')
    BY <1>2, <1>4, <2>1 DEF Orderly, GroupLeft
  <2>3. Unredirected(modal', Shows(overview') + Shows(expo'))
    <3>1. n = Shows(expo)
      OBVIOUS
    <3>2. n + Shows(overview') = Shows(overview') + Shows(expo')
      BY <1>2, <3>1 DEF Shows
    <3> QED BY <1>3, <3>2
  <2>4. PanelsKnown(overview', expo')
    BY <1>1, <1>2, <2>1 DEF Orderly
  <2> QED BY <1>2, <2>1, <2>2, <2>3, <2>4 DEF Orderly
<1>7. OverviewKnown(overview')
  BY <1>1
<1> QED BY <1>1, <1>2, <1>3, <1>5, <1>6, <1>7 DEF ExpoInv

LEMMA OverviewStepKeeps ==
  ASSUME ExpoInv, OverviewStep
  PROVE  ExpoInv'
<1>0. PICK n \in Int : OvSound(State, n, leftover) /\ (replaced \/ n = Shows(expo))
  BY StateSound
<1>1. /\ OvSound(State, n, leftover) /\ leftover \in Nat
      /\ State.m = modal /\ State.o = overview /\ State.f = stageFocused
  BY <1>0, StateSound DEF ExpoInv
<1>2. /\ overview.shown \in BOOLEAN /\ overview.hasModal \in BOOLEAN
      /\ overview.visible \in BOOLEAN /\ overview.panels \in BOOLEAN
      /\ overview.animation \in {"none", "show", "hide"}
      /\ overview = Ov(overview.shown, overview.hasModal, overview.visible,
                        overview.animation, overview.panels)
  BY DEF ExpoInv, OverviewRecord, Ov
<1>3. OverviewKnown(overview) /\ GroupHeld(modal, overview, leftover)
      /\ UNCHANGED <<expo, pending, replaced>>
  BY DEF ExpoInv, OverviewStep
<1>4. CASE Show
  <2>1. PICK granted \in BOOLEAN, animated \in BOOLEAN :
          Becomes(ShowOverview(State, granted, animated))
    BY <1>4 DEF Show
  <2> DEFINE t == ShowOverview(State, granted, animated)
  <2>2. /\ modal' = t.m /\ overview' = t.o /\ UNCHANGED stageFocused
        /\ ~overview.shown
        /\ leftover' = IF overview.hasModal THEN leftover + 1 ELSE leftover
    BY <1>4, <2>1 DEF Show, Becomes
  <2>0. leftover' \in Nat
    BY <1>1, <2>2
  <2>3. CASE ~PushSucceeds(modal, granted)
    <3>1. t = State
      BY <1>1, <2>3 DEF ShowOverview
    <3>2. ~overview.hasModal
      <4>1. modal.modalCount = 0 /\ modal.modalCount = Len(modal.stack)
            /\ modal.stack \in Seq(Record)
        BY <2>3 DEF PushSucceeds, ExpoInv, Base, Counted, ModalState
      <4>2. Positions(modal, Group) = {}
        BY <4>1 DEF Positions
      <4>3. Times(modal, Group) = 0
        BY <4>2, FS_EmptySet DEF Times
      <4> QED BY <1>1, <1>3, <4>3 DEF GroupHeld
    <3>3. leftover' = leftover
      BY <2>2, <3>2
    <3>4. OvMoved(State, t, n, leftover', overview)
      BY <1>0, <1>1, <3>1, <3>3 DEF OvMoved, SameTimes
    <3> HIDE DEF t
    <3> QED BY <1>0, <1>3, <2>0, <2>2, <3>4, OverviewMoves
  <2>4. CASE PushSucceeds(modal, granted)
    <3> DEFINE o == IF overview.visible
                    THEN Ov(TRUE, TRUE, TRUE, overview.animation, overview.panels)
                    ELSE IF animated THEN Ov(TRUE, TRUE, TRUE, "show", FALSE)
                    ELSE Ov(TRUE, TRUE, TRUE, "none", FALSE)
    <3>1. ~overview.visible => overview.animation = "none"
      BY <1>2, <1>3, <2>2 DEF OverviewKnown
    <3> DEFINE j == leftover'
    <3>5. j \in Nat /\ j = IF State.o.hasModal THEN leftover + 1 ELSE leftover
      BY <1>1, <2>0, <2>2
    <3> HIDE DEF j
    <3>6. OvMoved(State, t, n, j, o)
      BY <1>0, <1>1, <1>2, <2>1, <2>2, <2>4, <3>1, <3>5, OvShow
    <3>2. OvMoved(State, t, n, leftover', o)
      BY <3>6 DEF j
    <3>3. OverviewKnown(o)
      BY <1>2, <1>3, <2>2 DEF OverviewKnown, Ov
    <3>4. PanelsKnown(overview, expo) => PanelsKnown(o, expo)
      BY <1>2, <1>3, <2>2 DEF PanelsKnown, Stays, Ov
    <3> HIDE DEF t, o
    <3> QED BY <1>0, <1>3, <2>0, <2>2, <3>2, <3>3, <3>4, OverviewMoves
  <2> QED BY <2>3, <2>4
<1>5. CASE Hide
  <2>0. PICK animated \in BOOLEAN : Becomes(HideOverview(State, animated))
    BY <1>5 DEF Hide
  <2> DEFINE t == HideOverview(State, animated)
             o == IF overview.animation # "none"
                  THEN Ov(FALSE, overview.hasModal, TRUE, overview.animation, overview.panels)
                  ELSE IF animated THEN Ov(FALSE, overview.hasModal, TRUE, "hide", TRUE)
                  ELSE Ov(FALSE, FALSE, FALSE, "none", TRUE)
  <2>1. /\ modal' = t.m /\ overview' = t.o /\ UNCHANGED stageFocused
        /\ leftover' = leftover /\ leftover' \in Nat
        /\ overview.shown
    BY <1>1, <1>5, <2>0 DEF Hide, Becomes
  <2>2. overview.visible = TRUE /\ overview.hasModal = TRUE
    BY <1>2, <1>3, <2>1 DEF OverviewKnown, GroupHeld
  <2>3. OvMoved(State, t, n, leftover, o)
    BY <1>0, <1>1, <1>2, <2>0, <2>1, <2>2, OvHide
  <2>4. OverviewKnown(o)
    BY <1>2, <1>3, <2>1, <2>2 DEF OverviewKnown, Ov
  <2>5. PanelsKnown(overview, expo) => PanelsKnown(o, expo)
    BY <1>2, <1>3, <2>1, <2>2 DEF PanelsKnown, Stays, Ov
  <2> HIDE DEF t, o
  <2>6. OvMoved(State, t, n, leftover', o)
    BY <2>1, <2>3
  <2> QED BY <1>0, <1>3, <2>1, <2>4, <2>5, <2>6, OverviewMoves
<1>6. CASE ShowAnimationEnds
  <2>0. PICK animated \in BOOLEAN : Becomes(ShowDone(State, animated))
    BY <1>6 DEF ShowAnimationEnds
  <2> DEFINE t == ShowDone(State, animated)
             o == IF overview.shown THEN Ov(TRUE, overview.hasModal, TRUE, "none", overview.panels)
                  ELSE IF animated THEN Ov(FALSE, overview.hasModal, TRUE, "hide", TRUE)
                  ELSE Ov(FALSE, FALSE, FALSE, "none", TRUE)
  <2>1. /\ modal' = t.m /\ overview' = t.o /\ UNCHANGED stageFocused
        /\ leftover' = leftover /\ leftover' \in Nat
        /\ overview.animation = "show"
    BY <1>1, <1>6, <2>0 DEF ShowAnimationEnds, Becomes
  <2>2. overview.visible = TRUE /\ overview.hasModal = TRUE
    BY <1>2, <1>3, <2>1 DEF OverviewKnown
  <2>3. OvMoved(State, t, n, leftover, o)
    BY <1>0, <1>1, <1>2, <2>0, <2>2, OvShowDone
  <2>4. OverviewKnown(o)
    BY <1>2, <1>3, <2>1, <2>2 DEF OverviewKnown, Ov
  <2>5. PanelsKnown(overview, expo) => PanelsKnown(o, expo)
    BY <1>2, <1>3, <2>1, <2>2 DEF PanelsKnown, Stays, Ov
  <2> HIDE DEF t, o
  <2>6. OvMoved(State, t, n, leftover', o)
    BY <2>1, <2>3
  <2> QED BY <1>0, <1>3, <2>1, <2>4, <2>5, <2>6, OverviewMoves
<1>7. CASE HideAnimationEnds
  <2>0. PICK animated \in BOOLEAN : Becomes(HideDone(State, animated))
    BY <1>7 DEF HideAnimationEnds
  <2> DEFINE t == HideDone(State, animated)
             o == IF ~overview.shown THEN Ov(FALSE, FALSE, FALSE, "none", overview.panels)
                  ELSE IF animated THEN Ov(TRUE, overview.hasModal, TRUE, "show", FALSE)
                  ELSE Ov(TRUE, overview.hasModal, TRUE, "none", FALSE)
  <2>1. /\ modal' = t.m /\ overview' = t.o /\ UNCHANGED stageFocused
        /\ leftover' = leftover /\ leftover' \in Nat
        /\ overview.animation = "hide"
    BY <1>1, <1>7, <2>0 DEF HideAnimationEnds, Becomes
  <2>2. overview.visible = TRUE /\ overview.hasModal = TRUE
    BY <1>2, <1>3, <2>1 DEF OverviewKnown
  <2>3. OvMoved(State, t, n, leftover, o)
    BY <1>0, <1>1, <1>2, <2>0, <2>2, OvHideDone
  <2>4. OverviewKnown(o)
    BY <1>2, <1>3, <2>1, <2>2 DEF OverviewKnown, Ov
  <2>5. PanelsKnown(overview, expo) => PanelsKnown(o, expo)
    BY <1>2, <1>3, <2>1, <2>2 DEF PanelsKnown, Stays, Ov
  <2> HIDE DEF t, o
  <2>6. OvMoved(State, t, n, leftover', o)
    BY <2>1, <2>3
  <2> QED BY <1>0, <1>3, <2>1, <2>4, <2>5, <2>6, OverviewMoves
<1> QED BY <1>4, <1>5, <1>6, <1>7 DEF OverviewStep

-----------------------------------------------------------------------------
(* The methods of the expo. *)

Ex(shown, hasModal, visible, animation, group) ==
    [shown |-> shown, hasModal |-> hasModal, visible |-> visible,
     animation |-> animation, group |-> group]

WithPanels(o, panels) == Ov(o.shown, o.hasModal, o.visible, o.animation, panels)

ExStates == [m : ModalState, o : OverviewRecord, e : ExpoRecord, f : BOOLEAN]

ExSound(s, n) == s \in ExStates /\ Held(s.m, n + Shows(s.e)) /\ GroupLeft(s.m, s.e)

OthersSame(m, p) == \A b : b \notin Groups => Times(p, b) = Times(m, b)

ExMoved(s, t, n, e, panels) ==
    /\ ExSound(t, n) /\ t.e = e /\ t.f = s.f /\ OthersSame(s.m, t.m)
    /\ t.o = WithPanels(s.o, panels)

LEMMA ExIs ==
  ASSUME NEW s \in ExStates
  PROVE  /\ s.e = Ex(s.e.shown, s.e.hasModal, s.e.visible, s.e.animation, s.e.group)
         /\ s.e.shown \in BOOLEAN /\ s.e.hasModal \in BOOLEAN /\ s.e.visible \in BOOLEAN
         /\ s.e.animation \in {"none", "show", "hide"} /\ s.e.group \in Groups \cup {Nobody}
         /\ s.o = WithPanels(s.o, s.o.panels) /\ s.o.panels \in BOOLEAN
         /\ \A p \in BOOLEAN : WithPanels(s.o, p) \in OverviewRecord
         /\ s.f \in BOOLEAN /\ s.m \in ModalState
         /\ s.o \in OverviewRecord /\ s.e \in ExpoRecord
<1>1. s.o \in OverviewRecord /\ s.e \in ExpoRecord /\ s.f \in BOOLEAN /\ s.m \in ModalState
  BY DEF ExStates
<1>2. /\ s.o = WithPanels(s.o, s.o.panels) /\ s.o.panels \in BOOLEAN
      /\ \A p \in BOOLEAN : WithPanels(s.o, p) \in OverviewRecord
  BY <1>1 DEF OverviewRecord, WithPanels, Ov
<1> QED BY <1>1, <1>2 DEF ExpoRecord, Ex

\* t is s with another stack and other fields of the overview and the expo.
ExPut(s, t, m, o, e) == t = [s EXCEPT !.m = m, !.o = o, !.e = e]

LEMMA ExPutIs ==
  ASSUME NEW s \in ExStates, NEW m, NEW o, NEW e, NEW t, ExPut(s, t, m, o, e)
  PROVE  t.m = m /\ t.o = o /\ t.e = e /\ t.f = s.f
         /\ (m \in ModalState /\ o \in OverviewRecord /\ e \in ExpoRecord => t \in ExStates)
<1>1. t = [m |-> m, o |-> o, e |-> e, f |-> s.f]
  BY DEF ExPut, ExStates
<1>2. m \in ModalState /\ o \in OverviewRecord /\ e \in ExpoRecord => t \in ExStates
  BY <1>1, ExIs DEF ExStates
<1> QED BY <1>1, <1>2

LEMMA ExSet ==
  ASSUME NEW s, NEW n \in Int, ExSound(s, n), NEW m, NEW o, NEW e, NEW c \in Int,
         NEW t, ExPut(s, t, m, o, e),
         (m = s.m /\ c = 0) \/ Touched(s.m, m, c),
         NEW q \in ExpoRecord, e = q, Shows(q) = Shows(s.e) + c, GroupLeft(s.m, q),
         NEW p \in BOOLEAN, o = WithPanels(s.o, p)
  PROVE  ExMoved(s, t, n, q, p)
<1>0. s \in ExStates
  BY DEF ExSound
<1>1. Shows(s.e) \in Int /\ Shows(q) \in Int /\ n + Shows(s.e) \in Int
      /\ (n + Shows(s.e)) + c = n + Shows(q)
  BY DEF Shows
<1>2. Held(m, n + Shows(q)) /\ \A b : Times(m, b) = Times(s.m, b)
  <2>1. CASE m = s.m /\ c = 0
    BY <1>1, <2>1 DEF ExSound
  <2>2. CASE Touched(s.m, m, c)
    <3> DEFINE k == n + Shows(s.e)
    <3>1. k \in Int /\ k + c = n + Shows(q) /\ Held(s.m, k)
      BY <1>1 DEF ExSound
    <3> HIDE DEF k
    <3>2. Held(m, k + c) /\ \A b : Times(m, b) = Times(s.m, b)
      BY <2>2, <3>1, HeldTouch
    <3> QED BY <3>1, <3>2
  <2> QED BY <2>1, <2>2
<1>3. GroupLeft(m, q)
  BY <1>2 DEF GroupLeft
<1>4. o \in OverviewRecord
  BY <1>0, ExIs
<1>5. t.m = m /\ t.o = o /\ t.e = q /\ t.f = s.f /\ t \in ExStates
  BY <1>0, <1>2, <1>4, ExPutIs DEF Held, Base
<1> QED BY <1>2, <1>3, <1>5 DEF ExSound, ExMoved, OthersSame

\* As long as no expo was replaced: the parts of the methods that only set fields.
LEMMA ExUnshown ==
  ASSUME NEW s, NEW n \in Int, ExSound(s, n)
  PROVE  ExMoved(s, [s EXCEPT !.e.shown = FALSE], n,
                 Ex(FALSE, s.e.hasModal, s.e.visible, s.e.animation, s.e.group), s.o.panels)
<1> DEFINE q == Ex(FALSE, s.e.hasModal, s.e.visible, s.e.animation, s.e.group)
           e == [s.e EXCEPT !.shown = FALSE]
           o == s.o
           t == [s EXCEPT !.e.shown = FALSE]
<1>0. s \in ExStates /\ s.o \in OverviewRecord /\ s.e \in ExpoRecord /\ s.m \in ModalState
  BY ExIs DEF ExSound
<1>1. q \in ExpoRecord /\ Shows(q) = Shows(s.e) + 0 /\ GroupLeft(s.m, q)
  BY <1>0, ExIs DEF Ex, ExpoRecord, Shows, GroupLeft, ExSound
<1>2. e = [s.e EXCEPT !.shown = FALSE]
  OBVIOUS
<1>3. ExPut(s, t, s.m, o, e)
  BY <1>0 DEF ExPut, ExStates
<1>4. s.o.panels \in BOOLEAN /\ o = WithPanels(s.o, s.o.panels)
  BY <1>0, ExIs
<1> HIDE DEF e, o
<1>5. e = q
  BY <1>0, <1>2 DEF ExpoRecord, Ex
<1> HIDE DEF q, t
<1> DEFINE p == s.o.panels
<1>8. p \in BOOLEAN /\ o = WithPanels(s.o, p)
  BY <1>4
<1> HIDE DEF p
<1>9. ExMoved(s, t, n, q, p)
  BY <1>1, <1>3, <1>5, <1>8, ExSet
<1> QED BY <1>9 DEF q, t, p

LEMMA ExStopped ==
  ASSUME NEW s, NEW n \in Int, ExSound(s, n)
  PROVE  ExMoved(s, [s EXCEPT !.e.animation = "none"], n,
                 Ex(s.e.shown, s.e.hasModal, s.e.visible, "none", s.e.group), s.o.panels)
<1> DEFINE q == Ex(s.e.shown, s.e.hasModal, s.e.visible, "none", s.e.group)
           e == [s.e EXCEPT !.animation = "none"]
           o == s.o
           t == [s EXCEPT !.e.animation = "none"]
<1>0. s \in ExStates /\ s.o \in OverviewRecord /\ s.e \in ExpoRecord /\ s.m \in ModalState
  BY ExIs DEF ExSound
<1>1. q \in ExpoRecord /\ Shows(q) = Shows(s.e) + 0 /\ GroupLeft(s.m, q)
  BY <1>0, ExIs DEF Ex, ExpoRecord, Shows, GroupLeft, ExSound
<1>2. e = [s.e EXCEPT !.animation = "none"]
  OBVIOUS
<1>3. ExPut(s, t, s.m, o, e)
  BY <1>0 DEF ExPut, ExStates
<1>4. s.o.panels \in BOOLEAN /\ o = WithPanels(s.o, s.o.panels)
  BY <1>0, ExIs
<1> HIDE DEF e, o
<1>5. e = q
  BY <1>0, <1>2 DEF ExpoRecord, Ex
<1> HIDE DEF q, t
<1> DEFINE p == s.o.panels
<1>8. p \in BOOLEAN /\ o = WithPanels(s.o, p)
  BY <1>4
<1> HIDE DEF p
<1>9. ExMoved(s, t, n, q, p)
  BY <1>1, <1>3, <1>5, <1>8, ExSet
<1> QED BY <1>9 DEF q, t, p

LEMMA ExBeginHide ==
  ASSUME NEW s, NEW n \in Int, ExSound(s, n)
  PROVE  ExMoved(s, [s EXCEPT !.e.animation = "hide"], n,
                 Ex(s.e.shown, s.e.hasModal, s.e.visible, "hide", s.e.group), s.o.panels)
<1> DEFINE q == Ex(s.e.shown, s.e.hasModal, s.e.visible, "hide", s.e.group)
           e == [s.e EXCEPT !.animation = "hide"]
           o == s.o
           t == [s EXCEPT !.e.animation = "hide"]
<1>0. s \in ExStates /\ s.o \in OverviewRecord /\ s.e \in ExpoRecord /\ s.m \in ModalState
  BY ExIs DEF ExSound
<1>1. q \in ExpoRecord /\ Shows(q) = Shows(s.e) + 0 /\ GroupLeft(s.m, q)
  BY <1>0, ExIs DEF Ex, ExpoRecord, Shows, GroupLeft, ExSound
<1>2. e = [s.e EXCEPT !.animation = "hide"]
  OBVIOUS
<1>3. ExPut(s, t, s.m, o, e)
  BY <1>0 DEF ExPut, ExStates
<1>4. s.o.panels \in BOOLEAN /\ o = WithPanels(s.o, s.o.panels)
  BY <1>0, ExIs
<1> HIDE DEF e, o
<1>5. e = q
  BY <1>0, <1>2 DEF ExpoRecord, Ex
<1> HIDE DEF q, t
<1> DEFINE p == s.o.panels
<1>8. p \in BOOLEAN /\ o = WithPanels(s.o, p)
  BY <1>4
<1> HIDE DEF p
<1>9. ExMoved(s, t, n, q, p)
  BY <1>1, <1>3, <1>5, <1>8, ExSet
<1> QED BY <1>9 DEF q, t, p

LEMMA ExHidden ==
  ASSUME NEW s, NEW n \in Int, ExSound(s, n), s.e.visible
  PROVE  ExMoved(s, [s EXCEPT !.m.unredirect = @ - 1,
                             !.e.visible = FALSE, !.e.animation = "none"], n,
                 Ex(s.e.shown, s.e.hasModal, FALSE, "none", s.e.group), s.o.panels)
<1> DEFINE q == Ex(s.e.shown, s.e.hasModal, FALSE, "none", s.e.group)
           e == [s.e EXCEPT !.visible = FALSE, !.animation = "none"]
           o == s.o
           m == [s.m EXCEPT !.unredirect = s.m.unredirect - 1]
           t == [s EXCEPT !.m.unredirect = @ - 1,
                             !.e.visible = FALSE, !.e.animation = "none"]
<1>0. s \in ExStates /\ s.o \in OverviewRecord /\ s.e \in ExpoRecord /\ s.m \in ModalState
  BY ExIs DEF ExSound
<1>1. q \in ExpoRecord /\ Shows(q) = Shows(s.e) + (-1) /\ GroupLeft(s.m, q)
  BY <1>0, ExIs DEF Ex, ExpoRecord, Shows, GroupLeft, ExSound
<1>2. e = [s.e EXCEPT !.visible = FALSE, !.animation = "none"]
  OBVIOUS
<1>3. ExPut(s, t, m, o, e)
  BY <1>0 DEF ExPut, ExStates
<1>4. s.o.panels \in BOOLEAN /\ o = WithPanels(s.o, s.o.panels)
  BY <1>0, ExIs
<1> HIDE DEF e, o
<1>5. e = q
  BY <1>0, <1>2 DEF ExpoRecord, Ex
<1>6. Touched(s.m, m, -1)
  <2>1. Touched(s.m, [s.m EXCEPT !.unredirect = s.m.unredirect + (-1)], -1)
    <3>1. \A c \in Int : Touched(s.m, [s.m EXCEPT !.unredirect = s.m.unredirect + c], c)
      BY <1>0, TouchedIs
    <3>2. -1 \in Int
      OBVIOUS
    <3> QED BY ONLY <3>1, <3>2
  <2>2. s.m.unredirect + (-1) = s.m.unredirect - 1
    BY <1>0, StackIs
  <2> QED BY <2>1, <2>2
<1> HIDE DEF q, t, m
<1> DEFINE p == s.o.panels
<1>8. p \in BOOLEAN /\ o = WithPanels(s.o, p)
  BY <1>4
<1> HIDE DEF p
<1>9. ExMoved(s, t, n, q, p)
  BY <1>1, <1>3, <1>5, <1>8, <1>6, ExSet
<1> QED BY <1>9 DEF q, t, p

LEMMA ExAnimateVisible ==
  ASSUME NEW s, NEW n \in Int, ExSound(s, n), ~s.e.visible
  PROVE  ExMoved(s, ExpoAnimateVisible(s), n,
                 Ex(s.e.shown, s.e.hasModal, TRUE, "show", s.e.group), FALSE)
<1> DEFINE q == Ex(s.e.shown, s.e.hasModal, TRUE, "show", s.e.group)
           e == [s.e EXCEPT !.visible = TRUE, !.animation = "show"]
           o == [s.o EXCEPT !.panels = FALSE]
           m == [s.m EXCEPT !.unredirect = s.m.unredirect + 1]
           t == ExpoAnimateVisible(s)
<1>0. s \in ExStates /\ s.o \in OverviewRecord /\ s.e \in ExpoRecord /\ s.m \in ModalState
  BY ExIs DEF ExSound
<1>1. q \in ExpoRecord /\ Shows(q) = Shows(s.e) + 1 /\ GroupLeft(s.m, q)
  BY <1>0, ExIs DEF Ex, ExpoRecord, Shows, GroupLeft, ExSound
<1>2. e = [s.e EXCEPT !.visible = TRUE, !.animation = "show"]
  OBVIOUS
<1>3. ExPut(s, t, m, o, e)
  BY <1>0 DEF ExPut, ExStates, ExpoAnimateVisible
<1> DEFINE p == FALSE
<1>4. o = [s.o EXCEPT !.panels = FALSE]
  OBVIOUS
<1> HIDE DEF e, o
<1>8. p \in BOOLEAN /\ o = WithPanels(s.o, p)
  BY <1>0, <1>4 DEF WithPanels, Ov, OverviewRecord
<1> HIDE DEF p
<1>5. e = q
  BY <1>0, <1>2 DEF ExpoRecord, Ex
<1>6. Touched(s.m, m, 1)
  <2>1. \A c \in Int : Touched(s.m, [s.m EXCEPT !.unredirect = s.m.unredirect + c], c)
    BY <1>0, TouchedIs
  <2> QED BY <2>1
<1> HIDE DEF q, t, m
<1>9. ExMoved(s, t, n, q, p)
  BY <1>1, <1>3, <1>8, <1>5, <1>6, ExSet
<1> QED BY <1>9 DEF q, t, p

\* The panels come back.
LEMMA ExPanels ==
  ASSUME NEW s, NEW n \in Int, ExSound(s, n)
  PROVE  ExMoved(s, [s EXCEPT !.o.panels = TRUE], n, s.e, TRUE)
<1> DEFINE o == [s.o EXCEPT !.panels = TRUE]
           t == [s EXCEPT !.o.panels = TRUE]
<1>0. s \in ExStates /\ s.o \in OverviewRecord /\ s.e \in ExpoRecord
  BY ExIs DEF ExSound
<1>1. Shows(s.e) = Shows(s.e) + 0 /\ GroupLeft(s.m, s.e)
  BY DEF Shows, ExSound
<1>2. ExPut(s, t, s.m, o, s.e)
  BY <1>0 DEF ExPut, ExStates
<1>3. o = [s.o EXCEPT !.panels = TRUE]
  OBVIOUS
<1> DEFINE p == TRUE
           q == s.e
           e == s.e
<1> HIDE DEF o
<1>4. p \in BOOLEAN /\ o = WithPanels(s.o, p)
  BY <1>0, <1>3 DEF WithPanels, Ov, OverviewRecord
<1>5. q \in ExpoRecord /\ e = q /\ ExPut(s, t, s.m, o, e) /\ Shows(q) = Shows(s.e) + 0 /\ GroupLeft(s.m, q)
  BY <1>0, <1>1, <1>2
<1> HIDE DEF t, p, q, e
<1>6. ExMoved(s, t, n, q, p)
  BY <1>4, <1>5, ExSet
<1> QED BY <1>6 DEF t, p, q

\* Nothing has changed.
LEMMA ExStays ==
  ASSUME NEW s, NEW n \in Int, ExSound(s, n)
  PROVE  ExMoved(s, s, n, s.e, s.o.panels)
<1>1. s.o = WithPanels(s.o, s.o.panels)
  BY ExIs DEF ExSound
<1> QED BY <1>1 DEF ExMoved, OthersSame

\* The destruction of the group, whatever is left of it on the stack.
LEMMA ExDestroyed ==
  ASSUME NEW s, NEW n \in Int, ExSound(s, n), s.e.group \in Groups
  PROVE  ExMoved(s, [s EXCEPT !.m = DestroyActor(@, s.e.group, s.f), !.e.group = Nobody], n,
                 Ex(s.e.shown, s.e.hasModal, s.e.visible, s.e.animation, Nobody), s.o.panels)
<1> DEFINE g == s.e.group
           p == DestroyActor(s.m, g, s.f)
           e == [s.e EXCEPT !.group = Nobody]
           q == Ex(s.e.shown, s.e.hasModal, s.e.visible, s.e.animation, Nobody)
           t == [s EXCEPT !.m = DestroyActor(@, s.e.group, s.f), !.e.group = Nobody]
<1>0. /\ s \in ExStates /\ s.o \in OverviewRecord /\ s.e \in ExpoRecord /\ s.m \in ModalState
      /\ s.f \in BOOLEAN
  BY ExIs DEF ExSound
<1>1. q \in ExpoRecord /\ Shows(q) = Shows(s.e) /\ q.group = Nobody
  BY <1>0, ExIs DEF Ex, ExpoRecord, Shows
<1>2. g \in Destroyable /\ Nobody \notin Groups
  BY ExpoAssumption, ModalAssumption
<1>3. Shows(s.e) \in Int /\ n + Shows(s.e) \in Int
  BY DEF Shows
<1>4. Held(p, n + Shows(s.e)) /\ SameTimes(s.m, p, g) /\ Times(p, g) = 0
  BY <1>0, <1>2, <1>3, HeldDestroy DEF ExSound
<1>5. ExPut(s, t, p, s.o, e)
  BY <1>0 DEF ExPut, ExStates
<1>6. e = [s.e EXCEPT !.group = Nobody]
  OBVIOUS
<1> HIDE DEF e, p
<1>7. e = q
  BY <1>0, <1>6 DEF ExpoRecord, Ex
<1>8. GroupLeft(p, q)
  <2> SUFFICES ASSUME NEW a \in Groups
               PROVE  Times(p, a) = 0
    BY <1>1, <1>2 DEF GroupLeft
  <2>1. CASE a = g
    BY <1>4, <2>1
  <2>2. CASE a # g
    BY <1>4, <2>2 DEF SameTimes, ExSound, GroupLeft
  <2> QED BY <2>1, <2>2
<1>9. OthersSame(s.m, p)
  BY <1>4 DEF OthersSame, SameTimes
<1> HIDE DEF g, q, t
<1>10. t.m = p /\ t.o = s.o /\ t.e = q /\ t.f = s.f /\ t \in ExStates
  BY <1>0, <1>1, <1>4, <1>5, <1>7, ExPutIs DEF Held, Base
<1>11. ExMoved(s, t, n, q, s.o.panels)
  <2>1. s.o = WithPanels(s.o, s.o.panels)
    BY <1>0, ExIs
  <2> QED BY <1>1, <1>4, <1>8, <1>9, <1>10, <2>1 DEF ExMoved, ExSound
<1> QED BY <1>11 DEF q, t

\* _syncInputMode of the expo
LEMMA ExSync ==
  ASSUME NEW s, NEW n \in Int, ExSound(s, n)
  PROVE  ExMoved(s, ExpoSync(s), n,
                 Ex(s.e.shown, s.e.hasModal /\ (s.e.shown \/ s.e.animation # "none"),
                    s.e.visible, s.e.animation, s.e.group), s.o.panels)
<1> DEFINE t == ExpoSync(s)
           q == Ex(s.e.shown, FALSE, s.e.visible, s.e.animation, s.e.group)
<1>0. /\ s \in ExStates /\ s.o \in OverviewRecord /\ s.e \in ExpoRecord /\ s.m \in ModalState
      /\ s.f \in BOOLEAN /\ s.e.hasModal \in BOOLEAN /\ s.o = WithPanels(s.o, s.o.panels)
      /\ s.o.panels \in BOOLEAN /\ Nobody \notin Groups
  BY ExIs, ExpoAssumption, ModalAssumption DEF ExSound
<1>1. CASE ExpoAnimating(s) \/ s.e.shown
  <2>1. t = s /\ s.e = Ex(s.e.shown, s.e.hasModal, s.e.visible, s.e.animation, s.e.group)
    BY <1>0, <1>1, ExIs DEF ExpoSync
  <2>2. s.e.hasModal = (s.e.hasModal /\ (s.e.shown \/ s.e.animation # "none"))
    BY <1>0, <1>1, ExIs DEF ExpoAnimating
  <2>3. ExMoved(s, s, n, s.e, s.o.panels)
    BY ExStays
  <2> QED BY <2>1, <2>2, <2>3
<1>2. CASE ~(ExpoAnimating(s) \/ s.e.shown)
  <2>0. (s.e.hasModal /\ (s.e.shown \/ s.e.animation # "none")) = FALSE
    BY <1>2 DEF ExpoAnimating
  <2>1. q \in ExpoRecord /\ Shows(q) = Shows(s.e)
    BY <1>0, ExIs DEF Ex, ExpoRecord, Shows
  <2>2. Shows(s.e) \in Int /\ n + Shows(s.e) \in Int /\ Shows(s.e) + 0 = Shows(s.e)
    BY DEF Shows
  <2>3. CASE s.e.hasModal
    <3> DEFINE g == s.e.group
               p == IF g = Nobody THEN s.m ELSE PopModal(s.m, g, s.f)
               e == [s.e EXCEPT !.hasModal = FALSE]
    <3>1. ExPut(s, t, p, s.o, e)
      <4>1. t = [s EXCEPT !.m = IF s.e.group = Nobody THEN @
                                ELSE PopModal(@, s.e.group, s.f),
                          !.e.hasModal = FALSE]
        BY <1>2, <2>3 DEF ExpoSync
      <4> QED BY <1>0, <4>1 DEF ExPut, ExStates
    <3>2. Held(p, n + Shows(s.e)) /\ OthersSame(s.m, p) /\ GroupLeft(p, q)
      <4>1. CASE g = Nobody
        BY <1>0, <2>3, <4>1 DEF ExSound, OthersSame, GroupLeft, Ex
      <4>2. CASE g # Nobody
        <5>1. g \in Groups /\ Times(s.m, g) = 1
          BY <1>0, <2>3, <4>2, ExIs DEF ExSound, GroupLeft
        <5>2. /\ Held(PopModal(s.m, g, s.f), n + Shows(s.e))
              /\ SameTimes(s.m, PopModal(s.m, g, s.f), g)
              /\ Times(PopModal(s.m, g, s.f), g) = 0
          BY <1>0, <2>2, <5>1, HeldPop DEF ExSound
        <5>3. Held(p, n + Shows(s.e)) /\ SameTimes(s.m, p, g) /\ Times(p, g) = 0
          BY <4>2, <5>2
        <5> HIDE DEF p
        <5>4. OthersSame(s.m, p)
          BY <5>1, <5>3 DEF OthersSame, SameTimes
        <5>5. GroupLeft(p, q)
          <6> SUFFICES ASSUME NEW a \in Groups
                       PROVE  Times(p, a) = 0
            BY DEF GroupLeft, Ex
          <6>1. a # g => Times(s.m, a) = 0
            BY DEF ExSound, GroupLeft
          <6> QED BY <5>3, <6>1 DEF SameTimes
        <5> QED BY <5>3, <5>4, <5>5
      <4> QED BY <4>1, <4>2
    <3>3. e = [s.e EXCEPT !.hasModal = FALSE]
      OBVIOUS
    <3> HIDE DEF p, e
    <3>4. e = q
      BY <1>0, <3>3 DEF ExpoRecord, Ex
    <3> HIDE DEF q, t
    <3>5. t.m = p /\ t.o = s.o /\ t.e = q /\ t.f = s.f /\ t \in ExStates
      BY <1>0, <2>1, <3>1, <3>2, <3>4, ExPutIs DEF Held, Base
    <3>6. ExMoved(s, t, n, q, s.o.panels)
      BY <1>0, <2>1, <3>2, <3>5 DEF ExMoved, ExSound
    <3> QED BY <2>0, <3>6 DEF q, t
  <2>4. CASE ~s.e.hasModal
    <3> DEFINE m == [s.m EXCEPT !.inputMode = "normal"]
               e == s.e
               o == s.o
               p == s.o.panels
    <3>1. s.e = q
      BY <1>0, <2>4, ExIs DEF Ex
    <3>2. ExPut(s, t, m, o, e)
      <4>1. t = [s EXCEPT !.m.inputMode = "normal"]
        BY <1>2, <2>4 DEF ExpoSync
      <4> QED BY <1>0, <4>1 DEF ExPut, ExStates
    <3>3. Touched(s.m, m, 0)
      <4>1. 0 \in Int
        OBVIOUS
      <4> QED BY <1>0, <4>1, TouchedIs
    <3>4. GroupLeft(s.m, q) /\ e = q /\ p \in BOOLEAN /\ o = WithPanels(s.o, p)
      BY <1>0, <3>1 DEF ExSound
    <3>5. Shows(q) = Shows(s.e) + 0
      BY <2>1, <2>2
    <3> HIDE DEF m, t, q, e, o, p
    <3>6. ExMoved(s, t, n, q, p)
      BY <2>1, <3>2, <3>3, <3>4, <3>5, ExSet
    <3> QED BY <2>0, <3>6 DEF q, t, p
  <2> QED BY <1>0, <2>3, <2>4
<1> QED BY <1>1, <1>2

\* _hideDone of the expo
LEMMA ExHideDone ==
  ASSUME NEW s, NEW n \in Int, ExSound(s, n), s.e.visible, s.e.group \in Groups, s.e.hasModal
  PROVE  ExMoved(s, ExpoHideDone(s), n,
                 Ex(s.e.shown, s.e.shown, FALSE, "none", Nobody), s.o.panels)
<1> DEFINE h == [s EXCEPT !.m.unredirect = @ - 1,
                          !.e.visible = FALSE, !.e.animation = "none"]
           y == ExpoSync(h)
           t == [y EXCEPT !.m = DestroyActor(@, y.e.group, y.f), !.e.group = Nobody]
<1>0. s \in ExStates /\ s.e.shown \in BOOLEAN /\ s.e.hasModal = TRUE
  BY ExIs DEF ExSound
<1>1. ExMoved(s, h, n, Ex(s.e.shown, TRUE, FALSE, "none", s.e.group), s.o.panels)
  BY <1>0, ExHidden
<1> HIDE DEF h
<1>2. /\ ExSound(h, n) /\ h.e.shown = s.e.shown /\ h.e.hasModal = TRUE /\ h.e.visible = FALSE
      /\ h.e.animation = "none" /\ h.e.group = s.e.group /\ h.f = s.f
      /\ h.o.panels = s.o.panels
  BY <1>1 DEF ExMoved, Ex, WithPanels, Ov
<1>3. (h.e.hasModal /\ (h.e.shown \/ h.e.animation # "none")) = s.e.shown
  BY <1>0, <1>2
<1>4. ExMoved(h, y, n, Ex(s.e.shown, s.e.shown, FALSE, "none", s.e.group), s.o.panels)
  BY <1>2, <1>3, ExSync
<1> HIDE DEF y
<1>5. /\ ExSound(y, n) /\ y.e.shown = s.e.shown /\ y.e.hasModal = s.e.shown
      /\ y.e.visible = FALSE /\ y.e.animation = "none" /\ y.e.group = s.e.group
      /\ y.f = s.f /\ y.o.panels = s.o.panels
  BY <1>2, <1>4 DEF ExMoved, Ex, WithPanels, Ov
<1>6. ExMoved(y, t, n, Ex(s.e.shown, s.e.shown, FALSE, "none", Nobody), s.o.panels)
  BY <1>5, ExDestroyed
<1>7. ExpoHideDone(s) = t
  <2>1. ExpoHideDone(s) = [y EXCEPT !.m = DestroyActor(@, s.e.group, s.f), !.e.group = Nobody]
    BY DEF ExpoHideDone, y, h
  <2> QED BY <1>5, <2>1
<1> HIDE DEF t
<1>8. ExMoved(s, t, n, Ex(s.e.shown, s.e.shown, FALSE, "none", Nobody), s.o.panels)
  BY ONLY <1>1, <1>4, <1>6 DEF ExMoved, OthersSame, WithPanels, Ov
<1> QED BY <1>7, <1>8

\* _animateNotVisible of the expo
LEMMA ExAnimateNotVisible ==
  ASSUME NEW s, NEW n \in Int, ExSound(s, n), NEW d \in BOOLEAN,
         s.e.visible, s.e.animation = "none", s.e.group \in Groups, s.e.hasModal
  PROVE  ExMoved(s, ExpoAnimateNotVisible(s, d), n,
                 IF d THEN Ex(s.e.shown, TRUE, TRUE, "hide", s.e.group)
                 ELSE Ex(s.e.shown, s.e.shown, FALSE, "none", Nobody), TRUE)
<1> DEFINE b == [s EXCEPT !.o.panels = TRUE]
           h == [b EXCEPT !.e.animation = "hide"]
           t == ExpoHideDone(b)
           p == TRUE
<1>0. s \in ExStates /\ s.e.visible = TRUE /\ s.e.hasModal = TRUE
  BY ExIs DEF ExSound
<1>1. ExpoAnimateNotVisible(s, d) = IF d THEN h ELSE t
  BY DEF ExpoAnimateNotVisible, ExpoAnimating
<1>2. ExMoved(s, b, n, s.e, p)
  BY ExPanels
<1> HIDE DEF b, p
<1>3. ExSound(b, n) /\ b.e = s.e /\ b.f = s.f /\ b.o.panels = p
  BY <1>2 DEF ExMoved, WithPanels, Ov
<1>4. ExMoved(b, h, n, Ex(s.e.shown, TRUE, TRUE, "hide", s.e.group), p)
  BY <1>0, <1>3, ExBeginHide
<1>5. ExMoved(b, t, n, Ex(s.e.shown, s.e.shown, FALSE, "none", Nobody), p)
  BY <1>0, <1>3, ExHideDone
<1> HIDE DEF h, t
<1>6. ExMoved(s, h, n, Ex(s.e.shown, TRUE, TRUE, "hide", s.e.group), p)
  BY ONLY <1>2, <1>4 DEF ExMoved, OthersSame, WithPanels, Ov
<1>7. ExMoved(s, t, n, Ex(s.e.shown, s.e.shown, FALSE, "none", Nobody), p)
  BY ONLY <1>2, <1>5 DEF ExMoved, OthersSame, WithPanels, Ov
<1> QED BY <1>1, <1>6, <1>7 DEF p

\* _showDone of the expo
LEMMA ExShowDone ==
  ASSUME NEW s, NEW n \in Int, ExSound(s, n), NEW d \in BOOLEAN,
         s.e.visible, s.e.group \in Groups, s.e.hasModal
  PROVE  ExMoved(s, ExpoShowDone(s, d), n,
                 IF s.e.shown THEN Ex(TRUE, TRUE, TRUE, "none", s.e.group)
                 ELSE IF d THEN Ex(FALSE, TRUE, TRUE, "hide", s.e.group)
                 ELSE Ex(FALSE, FALSE, FALSE, "none", Nobody),
                 IF s.e.shown THEN s.o.panels ELSE TRUE)
<1> DEFINE z == [s EXCEPT !.e.animation = "none"]
           a == ExpoAnimateNotVisible(z, d)
           x == IF s.e.shown THEN z ELSE a
           t == ExpoSync(x)
<1>0. s \in ExStates /\ s.e.visible = TRUE /\ s.e.hasModal = TRUE /\ s.e.shown \in BOOLEAN
  BY ExIs DEF ExSound
<1>1. ExpoShowDone(s, d) = t
  BY DEF ExpoShowDone
<1>2. ExMoved(s, z, n, Ex(s.e.shown, TRUE, TRUE, "none", s.e.group), s.o.panels)
  BY <1>0, ExStopped
<1> HIDE DEF z
<1>3. /\ ExSound(z, n) /\ z.e.visible = TRUE /\ z.e.shown = s.e.shown
      /\ z.e.hasModal = TRUE /\ z.e.animation = "none" /\ z.e.group = s.e.group
      /\ z.o.panels = s.o.panels
  BY <1>2 DEF ExMoved, Ex, WithPanels, Ov
<1>4. CASE s.e.shown
  <2>1. x = z /\ z.e.shown = TRUE
    BY <1>0, <1>3, <1>4
  <2>2. (z.e.hasModal /\ (z.e.shown \/ z.e.animation # "none")) = TRUE
    BY <1>3, <2>1
  <2>3. ExMoved(z, t, n, Ex(TRUE, TRUE, TRUE, "none", s.e.group), s.o.panels)
    BY <1>3, <2>1, <2>2, ExSync
  <2> HIDE DEF t
  <2>4. ExMoved(s, t, n, Ex(TRUE, TRUE, TRUE, "none", s.e.group), s.o.panels)
    BY ONLY <1>2, <2>3 DEF ExMoved, OthersSame, WithPanels, Ov
  <2> QED BY <1>1, <1>4, <2>4
<1>5. CASE ~s.e.shown
  <2> DEFINE e == IF d THEN Ex(FALSE, TRUE, TRUE, "hide", s.e.group)
                  ELSE Ex(FALSE, FALSE, FALSE, "none", Nobody)
             p == TRUE
  <2>0. z.e.shown = FALSE
    BY <1>0, <1>3, <1>5
  <2>1. ExMoved(z, a, n, e, p)
    BY <1>3, <2>0, ExAnimateNotVisible
  <2> HIDE DEF a, p
  <2>2. ExSound(a, n) /\ a.e = e /\ x = a /\ a.o.panels = p
    BY <1>5, <2>1 DEF ExMoved, WithPanels, Ov
  <2>3. Ex(a.e.shown, a.e.hasModal /\ (a.e.shown \/ a.e.animation # "none"),
           a.e.visible, a.e.animation, a.e.group) = e
    <3>1. CASE d
      <4>1. e = Ex(FALSE, TRUE, TRUE, "hide", s.e.group)
        BY <3>1
      <4> HIDE DEF e
      <4>2. /\ a.e.shown = FALSE /\ a.e.hasModal = TRUE /\ a.e.visible = TRUE
            /\ a.e.animation = "hide" /\ a.e.group = s.e.group
        BY <2>2, <4>1 DEF Ex
      <4>3. (a.e.hasModal /\ (a.e.shown \/ a.e.animation # "none")) = TRUE
        BY <4>2
      <4> QED BY <4>1, <4>2, <4>3
    <3>2. CASE ~d
      <4>1. e = Ex(FALSE, FALSE, FALSE, "none", Nobody)
        BY <3>2
      <4> HIDE DEF e
      <4>2. /\ a.e.shown = FALSE /\ a.e.hasModal = FALSE /\ a.e.visible = FALSE
            /\ a.e.animation = "none" /\ a.e.group = Nobody
        BY <2>2, <4>1 DEF Ex
      <4>3. (a.e.hasModal /\ (a.e.shown \/ a.e.animation # "none")) = FALSE
        BY <4>2
      <4> QED BY <4>1, <4>2, <4>3
    <3> QED BY <3>1, <3>2
  <2> HIDE DEF e
  <2>4. ExMoved(a, t, n, e, p)
    BY <2>2, <2>3, ExSync
  <2> HIDE DEF t
  <2>5. ExMoved(s, t, n, e, p)
    BY ONLY <1>2, <2>1, <2>4 DEF ExMoved, OthersSame, WithPanels, Ov
  <2> QED BY <1>1, <1>5, <2>5 DEF e, p
<1> QED BY <1>4, <1>5

\* hide() of the expo
LEMMA ExHide ==
  ASSUME NEW s, NEW n \in Int, ExSound(s, n), NEW d \in BOOLEAN,
         s.e.shown, s.e.visible, s.e.group \in Groups, s.e.hasModal
  PROVE  ExMoved(s, ExpoHideMethod(s, d), n,
                 IF s.e.animation # "none" THEN Ex(FALSE, TRUE, TRUE, s.e.animation, s.e.group)
                 ELSE IF d THEN Ex(FALSE, TRUE, TRUE, "hide", s.e.group)
                 ELSE Ex(FALSE, FALSE, FALSE, "none", Nobody),
                 IF s.e.animation # "none" THEN s.o.panels ELSE TRUE)
<1> DEFINE a == ExpoAnimateNotVisible(s, d)
           z == [a EXCEPT !.e.shown = FALSE]
           t == ExpoSync(z)
           hid == s.e.animation = "none" /\ ~d
           v == IF s.e.animation # "none" THEN s.e.animation ELSE IF d THEN "hide" ELSE "none"
           g == IF hid THEN Nobody ELSE s.e.group
           p == IF s.e.animation # "none" THEN s.o.panels ELSE TRUE
           w == IF hid THEN FALSE ELSE TRUE
<1>0. /\ s \in ExStates /\ s.e.visible = TRUE /\ s.e.hasModal = TRUE /\ s.e.shown = TRUE
      /\ s.e.animation \in {"none", "show", "hide"}
      /\ s.e = Ex(TRUE, TRUE, TRUE, s.e.animation, s.e.group)
  BY ExIs DEF ExSound
<1>1. ExpoHideMethod(s, d) = t
  BY <1>0 DEF ExpoHideMethod
<1>2. ExMoved(s, a, n, Ex(TRUE, TRUE, w, v, g), p)
  <2>1. CASE s.e.animation # "none"
    <3>1. a = s
      BY <2>1 DEF ExpoAnimateNotVisible, ExpoAnimating
    <3>2. ExMoved(s, s, n, s.e, s.o.panels)
      BY ExStays
    <3> QED BY <1>0, <2>1, <3>1, <3>2
  <2>2. CASE s.e.animation = "none"
    <3>1. ExMoved(s, a, n, IF d THEN Ex(TRUE, TRUE, TRUE, "hide", s.e.group)
                           ELSE Ex(TRUE, TRUE, FALSE, "none", Nobody), TRUE)
      BY <1>0, <2>2, ExAnimateNotVisible
    <3> HIDE DEF a
    <3> QED BY <2>2, <3>1
  <2> QED BY <2>1, <2>2
<1> HIDE DEF a, p
<1>3. /\ ExSound(a, n) /\ a.e.shown = TRUE /\ a.e.hasModal = TRUE /\ a.e.visible = w
      /\ a.e.animation = v /\ a.e.group = g /\ a.o.panels = p
  BY <1>2 DEF ExMoved, Ex, WithPanels, Ov
<1>4. ExMoved(a, z, n, Ex(FALSE, TRUE, w, v, g), p)
  BY <1>3, ExUnshown
<1> HIDE DEF z
<1>5. /\ ExSound(z, n) /\ z.e.shown = FALSE /\ z.e.hasModal = TRUE /\ z.e.visible = w
      /\ z.e.animation = v /\ z.e.group = g /\ z.o.panels = p
  BY <1>4 DEF ExMoved, Ex, WithPanels, Ov
<1>6. (z.e.hasModal /\ (z.e.shown \/ z.e.animation # "none")) = w
  BY <1>0, <1>5
<1>7. ExMoved(z, t, n, Ex(FALSE, w, w, v, g), p)
  BY <1>5, <1>6, ExSync
<1> HIDE DEF t, v, g, w, hid
<1>8. ExMoved(s, t, n, Ex(FALSE, w, w, v, g), p)
  BY ONLY <1>2, <1>4, <1>7 DEF ExMoved, OthersSame, WithPanels, Ov
<1>9. CASE s.e.animation # "none"
  BY <1>1, <1>8, <1>9 DEF v, g, w, hid, p
<1>10. CASE s.e.animation = "none" /\ d
  BY <1>1, <1>8, <1>10 DEF v, g, w, hid, p
<1>11. CASE s.e.animation = "none" /\ ~d
  BY <1>1, <1>8, <1>11 DEF v, g, w, hid, p
<1> QED BY <1>9, <1>10, <1>11

\* show() of the expo, with the push
LEMMA ExShow ==
  ASSUME NEW s, NEW n \in Int, ExSound(s, n), NEW g \in Groups, NEW granted \in BOOLEAN,
         PushSucceeds(s.m, granted), ~s.e.shown, ~s.e.visible, ~s.e.hasModal
  PROVE  ExMoved(s, ExpoShowMethod(s, g, granted), n, Ex(TRUE, TRUE, TRUE, "show", g), FALSE)
<1> DEFINE p == PushModal(s.m, g, granted)
           e == [ExpoInit EXCEPT !.hasModal = TRUE, !.shown = TRUE, !.group = g]
           q == Ex(TRUE, TRUE, FALSE, "none", g)
           z == [s EXCEPT !.m = PushModal(@, g, granted),
                          !.e = [ExpoInit EXCEPT !.hasModal = TRUE, !.shown = TRUE,
                                                 !.group = g]]
           t == ExpoAnimateVisible(z)
<1>0. /\ s \in ExStates /\ s.o \in OverviewRecord /\ s.m \in ModalState /\ s.f \in BOOLEAN
      /\ s.o = WithPanels(s.o, s.o.panels) /\ s.o.panels \in BOOLEAN
  BY ExIs DEF ExSound
<1>1. ExpoShowMethod(s, g, granted) = t
  BY DEF ExpoShowMethod
<1>2. ExMoved(s, z, n, q, s.o.panels)
  <2>1. q \in ExpoRecord /\ Shows(q) = Shows(s.e)
    BY DEF Ex, ExpoRecord, Shows
  <2>2. Shows(s.e) \in Int /\ n + Shows(s.e) \in Int
    BY DEF Shows
  <2>3. g \in Owners /\ Nobody \notin Groups
    BY ExpoAssumption, ModalAssumption
  <2>4. \A a \in Groups : Times(s.m, a) = 0
    BY DEF ExSound, GroupLeft
  <2>5. Held(p, n + Shows(s.e)) /\ SameTimes(s.m, p, g) /\ Times(p, g) = 1
    BY <2>2, <2>3, <2>4, HeldPush DEF ExSound
  <2>6. ExPut(s, z, p, s.o, e)
    BY <1>0 DEF ExPut, ExStates
  <2>7. e = q
    <3> DEFINE i == ExpoInit
    <3>1. i \in ExpoRecord /\ i.visible = FALSE /\ i.animation = "none"
      BY DEF ExpoInit, ExpoRecord
    <3>2. e = [i EXCEPT !.hasModal = TRUE, !.shown = TRUE, !.group = g]
      OBVIOUS
    <3> HIDE DEF e, i
    <3> QED BY <3>1, <3>2 DEF ExpoRecord, Ex
  <2> HIDE DEF p, e
  <2>8. GroupLeft(p, q) /\ OthersSame(s.m, p)
    BY <2>4, <2>5 DEF GroupLeft, OthersSame, SameTimes, Ex
  <2> HIDE DEF q, z
  <2>9. z.m = p /\ z.o = s.o /\ z.e = q /\ z.f = s.f /\ z \in ExStates
    BY <1>0, <2>1, <2>5, <2>6, <2>7, ExPutIs DEF Held, Base
  <2> QED BY <1>0, <2>1, <2>5, <2>8, <2>9 DEF ExMoved, ExSound
<1> HIDE DEF z
<1>3. /\ ExSound(z, n) /\ z.e.shown = TRUE /\ z.e.hasModal = TRUE
      /\ z.e.visible = FALSE /\ z.e.group = g
  BY <1>2 DEF ExMoved, Ex
<1> DEFINE b == FALSE
<1>4. ExMoved(z, t, n, Ex(TRUE, TRUE, TRUE, "show", g), b)
  BY <1>3, ExAnimateVisible
<1> HIDE DEF t, b
<1>5. ExMoved(s, t, n, Ex(TRUE, TRUE, TRUE, "show", g), b)
  BY ONLY <1>2, <1>4 DEF ExMoved, OthersSame, WithPanels, Ov
<1> QED BY <1>1, <1>5 DEF b

\* show() of the expo whose push is refused
LEMMA ExRefused ==
  ASSUME NEW s, NEW n \in Int, ExSound(s, n), NEW g \in Groups, NEW granted \in BOOLEAN,
         ~PushSucceeds(s.m, granted), ~s.e.shown, ~s.e.visible, ~s.e.hasModal
  PROVE  ExMoved(s, ExpoShowMethod(s, g, granted), n, Ex(FALSE, FALSE, FALSE, "none", g),
                 s.o.panels)
<1> DEFINE e == [ExpoInit EXCEPT !.group = g]
           q == Ex(FALSE, FALSE, FALSE, "none", g)
           t == ExpoShowMethod(s, g, granted)
           m == s.m
           o == s.o
           p == s.o.panels
<1>0. /\ s \in ExStates /\ s.o \in OverviewRecord
      /\ s.o = WithPanels(s.o, s.o.panels) /\ s.o.panels \in BOOLEAN
  BY ExIs DEF ExSound
<1>1. q \in ExpoRecord /\ Shows(q) = Shows(s.e) + 0 /\ GroupLeft(m, q)
  BY DEF Ex, ExpoRecord, Shows, GroupLeft, ExSound
<1>2. t = [s EXCEPT !.e = [ExpoInit EXCEPT !.group = g]]
  BY DEF ExpoShowMethod
<1>3. e = q
  <2> DEFINE i == ExpoInit
  <2>1. i \in ExpoRecord /\ i.shown = FALSE /\ i.hasModal = FALSE /\ i.visible = FALSE
        /\ i.animation = "none"
    BY DEF ExpoInit, ExpoRecord
  <2>2. e = [i EXCEPT !.group = g]
    OBVIOUS
  <2> HIDE DEF e, i
  <2> QED BY <2>1, <2>2 DEF ExpoRecord, Ex
<1>4. ExPut(s, t, m, o, e)
  <2> HIDE DEF t
  <2> QED BY <1>0, <1>2 DEF ExPut, ExStates
<1>5. p \in BOOLEAN /\ o = WithPanels(s.o, p) /\ m = s.m
  BY <1>0
<1> HIDE DEF e, q, t, m, o, p
<1>6. ExMoved(s, t, n, q, p)
  BY <1>1, <1>3, <1>4, <1>5, ExSet
<1> QED BY <1>6 DEF q, t, p

-----------------------------------------------------------------------------
(* The methods of the expo, also on the states that a replaced one leaves. *)

ExHolds(s) == s \in ExStates /\ (\E n \in Int : Held(s.m, n)) /\ GroupHere(s.m, s.e)

ExGoes(s, t) ==
    /\ ExHolds(t) /\ t.f = s.f /\ OthersSame(s.m, t.m)
    /\ \E p \in BOOLEAN : t.o = WithPanels(s.o, p)

LEMMA GoesOn ==
  ASSUME NEW s, NEW t, NEW u, ExGoes(s, t), ExGoes(t, u)
  PROVE  ExGoes(s, u)
<1>1. PICK p \in BOOLEAN : t.o = WithPanels(s.o, p)
  BY DEF ExGoes
<1>2. PICK q \in BOOLEAN : u.o = WithPanels(t.o, q)
  BY DEF ExGoes
<1>3. u.o = WithPanels(s.o, q)
  BY <1>1, <1>2 DEF WithPanels, Ov
<1>4. OthersSame(s.m, u.m) /\ u.f = s.f /\ ExHolds(u)
  BY DEF ExGoes, OthersSame
<1> QED BY <1>3, <1>4 DEF ExGoes

LEMMA GoesNowhere ==
  ASSUME NEW s, ExHolds(s)
  PROVE  ExGoes(s, s)
<1>1. s.o = WithPanels(s.o, s.o.panels) /\ s.o.panels \in BOOLEAN
  BY ExIs DEF ExHolds
<1> QED BY <1>1 DEF ExGoes, OthersSame

\* A state with other fields, and the stack touched or not.
LEMMA GoesSet ==
  ASSUME NEW s, ExHolds(s), NEW m, NEW o, NEW e, NEW c \in Int,
         NEW t, ExPut(s, t, m, o, e), m = s.m \/ Touched(s.m, m, c),
         e \in ExpoRecord, GroupHere(s.m, e),
         NEW p \in BOOLEAN, o = WithPanels(s.o, p)
  PROVE  ExGoes(s, t) /\ t.e = e
<1>0. s \in ExStates
  BY DEF ExHolds
<1>1. PICK n \in Int : Held(s.m, n)
  BY DEF ExHolds
<1>2. (\E k \in Int : Held(m, k)) /\ \A b : Times(m, b) = Times(s.m, b)
  <2>1. CASE m = s.m
    BY <1>1, <2>1
  <2>2. CASE Touched(s.m, m, c)
    <3>1. Held(m, n + c) /\ \A b : Times(m, b) = Times(s.m, b)
      BY <1>1, <2>2, HeldTouch
    <3>2. n + c \in Int
      BY <1>1
    <3> QED BY <3>1, <3>2
  <2> QED BY <2>1, <2>2
<1>3. GroupHere(m, e)
  BY <1>2 DEF GroupHere
<1>4. o \in OverviewRecord /\ m \in ModalState
  BY <1>0, <1>2, ExIs DEF Held, Base
<1>5. t.m = m /\ t.o = o /\ t.e = e /\ t.f = s.f /\ t \in ExStates
  BY <1>0, <1>4, ExPutIs
<1> QED BY <1>2, <1>3, <1>5 DEF ExHolds, ExGoes, OthersSame

\* A state with another stack for the group, and other fields of the expo.
LEMMA GoesPut ==
  ASSUME NEW s, ExHolds(s), NEW m, NEW e, NEW t, ExPut(s, t, m, s.o, e),
         NEW n \in Int, Held(m, n), NEW g \in Groups, SameTimes(s.m, m, g),
         e \in ExpoRecord, GroupHere(m, e)
  PROVE  ExGoes(s, t) /\ t.e = e
<1>0. s \in ExStates /\ s.o \in OverviewRecord
      /\ s.o = WithPanels(s.o, s.o.panels) /\ s.o.panels \in BOOLEAN
  BY ExIs DEF ExHolds
<1>1. m \in ModalState
  BY DEF Held, Base
<1>2. t.m = m /\ t.o = s.o /\ t.e = e /\ t.f = s.f /\ t \in ExStates
  BY <1>0, <1>1, ExPutIs
<1>3. OthersSame(s.m, m)
  BY DEF SameTimes, OthersSame
<1> QED BY <1>0, <1>2, <1>3 DEF ExHolds, ExGoes

LEMMA Untouched ==
  ASSUME NEW s, ExHolds(s)
  PROVE  Touched(s.m, s.m, 0)
<1>1. s.m \in ModalState /\ s.m.unredirect + 0 = s.m.unredirect
  BY StackIs DEF ExHolds, ExStates
<1> QED BY <1>1 DEF Touched

\* t is s with another stack, other panels and other fields of the expo, but for
\* its grab and its group.
FieldsPut(s, t, m, o, shown, visible, animation) ==
    t = [s EXCEPT !.m = m, !.o = o,
                  !.e = [s.e EXCEPT !.shown = shown, !.visible = visible,
                                    !.animation = animation]]

\* What a method needs so that setting these fields leaves a state of the expo.
FieldsFit(s, t, m, c, p, o, shown, visible, animation) ==
    /\ ExHolds(s) /\ c \in Int /\ Touched(s.m, m, c)
    /\ p \in BOOLEAN /\ o = WithPanels(s.o, p)
    /\ shown \in BOOLEAN /\ visible \in BOOLEAN
    /\ animation \in {"none", "show", "hide"}
    /\ shown => s.e.hasModal
    /\ visible => s.e.group \in Groups
    /\ FieldsPut(s, t, m, o, shown, visible, animation)

LEMMA GoesFields ==
  ASSUME NEW s, NEW t, NEW m, NEW c, NEW p, NEW o, NEW shown, NEW visible, NEW animation,
         FieldsFit(s, t, m, c, p, o, shown, visible, animation)
  PROVE  ExGoes(s, t) /\ t.e = Ex(shown, s.e.hasModal, visible, animation, s.e.group)
<1> DEFINE q == Ex(shown, s.e.hasModal, visible, animation, s.e.group)
           e == [s.e EXCEPT !.shown = shown, !.visible = visible, !.animation = animation]
<1>6. /\ ExHolds(s) /\ c \in Int /\ (m = s.m \/ Touched(s.m, m, c))
      /\ p \in BOOLEAN /\ o = WithPanels(s.o, p)
      /\ shown \in BOOLEAN /\ visible \in BOOLEAN
      /\ animation \in {"none", "show", "hide"}
      /\ shown => s.e.hasModal
      /\ visible => s.e.group \in Groups
      /\ FieldsPut(s, t, m, o, shown, visible, animation)
  BY DEF FieldsFit
<1>0. s \in ExStates /\ s.e \in ExpoRecord
  BY <1>6, ExIs DEF ExHolds
<1>1. e = q
  <2>1. e = [s.e EXCEPT !.shown = shown, !.visible = visible, !.animation = animation]
    OBVIOUS
  <2> HIDE DEF e
  <2> QED BY <1>0, <2>1 DEF ExpoRecord, Ex
<1>2. q \in ExpoRecord
  BY <1>0, <1>6, ExIs DEF ExpoRecord, Ex
<1>3. GroupHere(s.m, q)
  BY <1>6 DEF ExHolds, GroupHere, Ex
<1>4. ExPut(s, t, m, o, e)
  BY <1>6 DEF ExPut, FieldsPut
<1> HIDE DEF q, e
<1>5. ExPut(s, t, m, o, q)
  BY <1>1, <1>4
<1>7. ExGoes(s, t) /\ t.e = q
  BY ONLY <1>2, <1>3, <1>5, <1>6, GoesSet
<1> QED BY <1>7 DEF q

\* _syncInputMode
LEMMA GoesSync ==
  ASSUME NEW s, ExHolds(s)
  PROVE  LET t == ExpoSync(s)
         IN  /\ ExGoes(s, t)
             /\ t.e.group = s.e.group /\ t.e.visible = s.e.visible /\ t.e.shown = s.e.shown
<1> DEFINE t == ExpoSync(s)
           q == Ex(s.e.shown, FALSE, s.e.visible, s.e.animation, s.e.group)
           e == [s.e EXCEPT !.hasModal = FALSE]
<1>0. /\ s \in ExStates /\ s.o \in OverviewRecord /\ s.e \in ExpoRecord /\ s.m \in ModalState
      /\ s.f \in BOOLEAN /\ s.e.hasModal \in BOOLEAN
      /\ s.o = WithPanels(s.o, s.o.panels) /\ s.o.panels \in BOOLEAN
  BY ExIs DEF ExHolds
<1>1. CASE ExpoAnimating(s) \/ s.e.shown
  <2>1. t = s
    BY <1>1 DEF ExpoSync
  <2> QED BY <2>1, GoesNowhere
<1>2. CASE ~(ExpoAnimating(s) \/ s.e.shown) /\ s.e.hasModal
  <2>1. q \in ExpoRecord /\ q.group = s.e.group /\ q.visible = s.e.visible /\ q.shown = s.e.shown
    BY <1>0, ExIs DEF Ex, ExpoRecord
  <2>2. e = q
    <3>1. e = [s.e EXCEPT !.hasModal = FALSE]
      OBVIOUS
    <3> HIDE DEF e
    <3> QED BY <1>0, <3>1 DEF ExpoRecord, Ex
  <2>3. t = [s EXCEPT !.m = IF s.e.group = Nobody THEN @ ELSE PopModal(@, s.e.group, s.f),
                      !.e.hasModal = FALSE]
    BY <1>2 DEF ExpoSync
  <2>4. q.shown => q.hasModal
    BY <1>2 DEF Ex
  <2>5. CASE s.e.group = Nobody
    <3>1. ExPut(s, t, s.m, s.o, e)
      BY <1>0, <2>3, <2>5 DEF ExPut, ExStates
    <3>2. GroupHere(s.m, q)
      BY <2>4, <2>5, ExpoAssumption, ModalAssumption DEF GroupHere, Ex, ExHolds
    <3> DEFINE o == s.o
               p == s.o.panels
               m == s.m
    <3> HIDE DEF t, q, e
    <3>5. ExPut(s, t, m, o, q)
      BY <2>2, <3>1
    <3>3. m = s.m /\ p \in BOOLEAN /\ o = WithPanels(s.o, p) /\ 0 \in Int
      BY <1>0
    <3> HIDE DEF o, p, m
    <3>4. ExGoes(s, t) /\ t.e = q
      BY <2>1, <3>2, <3>3, <3>5, GoesSet
    <3> QED BY <2>1, <3>4 DEF t
  <2>6. CASE s.e.group # Nobody
    <3> DEFINE g == s.e.group
               m == PopModal(s.m, g, s.f)
    <3>1. g \in Groups /\ Times(s.m, g) = 1
      BY <1>0, <1>2, <2>6, ExIs DEF ExHolds, GroupHere
    <3>2. ExPut(s, t, m, s.o, e)
      BY <1>0, <2>3, <2>6 DEF ExPut, ExStates
    <3>3. PICK n \in Int : Held(s.m, n)
      BY DEF ExHolds
    <3>4. Held(m, n) /\ SameTimes(s.m, m, g) /\ Times(m, g) = 0
      BY <1>0, <3>1, <3>3, HeldPop
    <3> HIDE DEF m
    <3>5. GroupHere(m, q)
      BY <2>4, <3>1, <3>4 DEF GroupHere, Ex
    <3> HIDE DEF g, q, t, e
    <3>6. ExPut(s, t, m, s.o, q)
      BY <2>2, <3>2
    <3>7. ExGoes(s, t) /\ t.e = q
      BY <2>1, <3>1, <3>4, <3>5, <3>6, GoesPut
    <3> QED BY <2>1, <3>7 DEF t
  <2> QED BY <2>5, <2>6
<1>3. CASE ~(ExpoAnimating(s) \/ s.e.shown) /\ ~s.e.hasModal
  <2> DEFINE m == [s.m EXCEPT !.inputMode = "normal"]
             c == 0
             o == s.o
             p == s.o.panels
             r == s.e
  <2>1. t = [s EXCEPT !.m.inputMode = "normal"]
    BY <1>3 DEF ExpoSync
  <2>2. ExPut(s, t, m, o, r)
    BY <1>0, <2>1 DEF ExPut, ExStates
  <2>3. Touched(s.m, m, c) /\ c \in Int
    <3>1. 0 \in Int
      OBVIOUS
    <3> QED BY <1>0, <3>1, TouchedIs
  <2>4. GroupHere(s.m, r) /\ r \in ExpoRecord /\ p \in BOOLEAN /\ o = WithPanels(s.o, p)
    BY <1>0 DEF ExHolds
  <2> HIDE DEF m, t, o, p, r, c
  <2>5. ExGoes(s, t) /\ t.e = r
    BY <2>2, <2>3, <2>4, GoesSet
  <2> QED BY <2>5 DEF t, r
<1> QED BY <1>1, <1>2, <1>3

\* The destruction of the group.
LEMMA GoesDestroyed ==
  ASSUME NEW s, ExHolds(s), s.e.group \in Groups, ~s.e.visible
  PROVE  ExGoes(s, [s EXCEPT !.m = DestroyActor(@, s.e.group, s.f), !.e.group = Nobody])
<1> DEFINE g == s.e.group
           m == DestroyActor(s.m, g, s.f)
           e == [s.e EXCEPT !.group = Nobody]
           q == Ex(s.e.shown, s.e.hasModal, s.e.visible, s.e.animation, Nobody)
           t == [s EXCEPT !.m = DestroyActor(@, s.e.group, s.f), !.e.group = Nobody]
<1>0. /\ s \in ExStates /\ s.e \in ExpoRecord /\ s.f \in BOOLEAN
      /\ g \in Destroyable /\ g \in Groups /\ Nobody \notin Groups
  BY ExIs, ExpoAssumption, ModalAssumption DEF ExHolds
<1>1. q \in ExpoRecord
  BY <1>0, ExIs DEF Ex, ExpoRecord
<1>2. e = q
  <2>1. e = [s.e EXCEPT !.group = Nobody]
    OBVIOUS
  <2> HIDE DEF e
  <2> QED BY <1>0, <2>1 DEF ExpoRecord, Ex
<1>3. ExPut(s, t, m, s.o, e)
  BY <1>0 DEF ExPut, ExStates
<1>4. PICK n \in Int : Held(s.m, n)
  BY DEF ExHolds
<1>5. Held(m, n) /\ SameTimes(s.m, m, g)
  BY <1>0, <1>4, HeldDestroy
<1>6. GroupHere(m, q)
  BY <1>0 DEF GroupHere, Ex, ExHolds
<1> HIDE DEF m, g, q, t, e
<1>7. ExPut(s, t, m, s.o, q)
  BY <1>2, <1>3
<1>8. ExGoes(s, t)
  BY <1>0, <1>1, <1>5, <1>6, <1>7, GoesPut
<1> QED BY <1>8 DEF t

\* _hideDone
LEMMA GoesHideDone ==
  ASSUME NEW s, ExHolds(s), s.e.group \in Groups
  PROVE  ExGoes(s, ExpoHideDone(s))
<1> DEFINE m == [s.m EXCEPT !.unredirect = s.m.unredirect + (-1)]
           h == [s EXCEPT !.m.unredirect = @ - 1,
                          !.e.visible = FALSE, !.e.animation = "none"]
           y == ExpoSync(h)
           t == [y EXCEPT !.m = DestroyActor(@, y.e.group, y.f), !.e.group = Nobody]
           o == s.o
           p == s.o.panels
           c == -1
<1>0. /\ s \in ExStates /\ s.m \in ModalState /\ s.e \in ExpoRecord /\ s.e.shown \in BOOLEAN
      /\ p \in BOOLEAN /\ o = WithPanels(s.o, p) /\ c \in Int
  BY ExIs DEF ExHolds
<1>1. Touched(s.m, m, c)
  <2>1. \A d \in Int : Touched(s.m, [s.m EXCEPT !.unredirect = s.m.unredirect + d], d)
    BY <1>0, TouchedIs
  <2> QED BY <1>0, <2>1
<1>2. FieldsPut(s, h, m, o, s.e.shown, FALSE, "none")
  <2> DEFINE e == [s.e EXCEPT !.shown = s.e.shown, !.visible = FALSE, !.animation = "none"]
  <2>1. s.m.unredirect - 1 = s.m.unredirect + (-1)
    BY <1>0, StackIs
  <2>2. e = [s.e EXCEPT !.visible = FALSE, !.animation = "none"]
    BY <1>0 DEF ExpoRecord
  <2>3. h = [s EXCEPT !.m = [s.m EXCEPT !.unredirect = s.m.unredirect - 1],
                      !.e = [s.e EXCEPT !.visible = FALSE, !.animation = "none"]]
    BY <1>0 DEF ExStates
  <2>4. e = [s.e EXCEPT !.shown = s.e.shown, !.visible = FALSE, !.animation = "none"]
    OBVIOUS
  <2> HIDE DEF h, e
  <2>5. h = [s EXCEPT !.m = m, !.o = o, !.e = e]
    BY <1>0, <2>1, <2>2, <2>3 DEF ExStates
  <2> QED BY <2>4, <2>5 DEF FieldsPut
<1>3. s.e.shown => s.e.hasModal
  BY DEF ExHolds, GroupHere
<1> HIDE DEF m, h, o, p, c
<1>4. ExGoes(s, h) /\ h.e = Ex(s.e.shown, s.e.hasModal, FALSE, "none", s.e.group)
  <2> DEFINE shown == s.e.shown
             visible == FALSE
             animation == "none"
  <2>1. /\ shown \in BOOLEAN /\ visible \in BOOLEAN /\ animation \in {"none", "show", "hide"}
        /\ (shown => s.e.hasModal) /\ (visible => s.e.group \in Groups)
        /\ FieldsPut(s, h, m, o, shown, visible, animation)
    BY <1>0, <1>2, <1>3
  <2> HIDE DEF shown, visible, animation
  <2>2. ExGoes(s, h) /\ h.e = Ex(shown, s.e.hasModal, visible, animation, s.e.group)
    <3>1. FieldsFit(s, h, m, c, p, o, shown, visible, animation)
      BY <1>0, <1>1, <2>1 DEF FieldsFit
    <3> QED BY <3>1, GoesFields
  <2> QED BY <2>2 DEF shown, visible, animation
<1>5. ExHolds(h) /\ h.e.visible = FALSE /\ h.e.group = s.e.group /\ h.f = s.f
  BY <1>4 DEF ExGoes, Ex
<1>6. ExGoes(h, y) /\ y.e.group = s.e.group /\ y.e.visible = FALSE
  BY <1>5, GoesSync
<1> HIDE DEF y
<1>7. ExHolds(y) /\ y.f = s.f
  BY <1>5, <1>6 DEF ExGoes
<1>8. ExGoes(y, t)
  BY <1>6, <1>7, GoesDestroyed
<1>9. ExpoHideDone(s) = t
  <2>1. ExpoHideDone(s) = [y EXCEPT !.m = DestroyActor(@, s.e.group, s.f), !.e.group = Nobody]
    BY DEF ExpoHideDone, y, h
  <2> QED BY <1>6, <1>7, <2>1
<1> HIDE DEF t
<1>10. ExGoes(s, y)
  BY <1>4, <1>6, GoesOn
<1>11. ExGoes(s, t)
  BY <1>8, <1>10, GoesOn
<1> QED BY <1>9, <1>11

\* _animateNotVisible
LEMMA GoesAnimateNotVisible ==
  ASSUME NEW s, ExHolds(s), NEW d \in BOOLEAN
  PROVE  ExGoes(s, ExpoAnimateNotVisible(s, d))
<1> DEFINE b == [s EXCEPT !.o.panels = TRUE]
           h == [b EXCEPT !.e.animation = "hide"]
<1>0. s \in ExStates /\ s.e \in ExpoRecord
  BY ExIs DEF ExHolds
<1>1. CASE ~s.e.visible \/ ExpoAnimating(s)
  <2>1. ExpoAnimateNotVisible(s, d) = s
    BY <1>1 DEF ExpoAnimateNotVisible
  <2> QED BY <2>1, GoesNowhere
<1>2. CASE ~(~s.e.visible \/ ExpoAnimating(s))
  <2>1. ExpoAnimateNotVisible(s, d) = IF d THEN h ELSE ExpoHideDone(b)
    BY <1>2 DEF ExpoAnimateNotVisible
  <2>2. ExGoes(s, b) /\ b.e = s.e
    <3> DEFINE o == [s.o EXCEPT !.panels = TRUE]
               p == TRUE
               m == s.m
               e == s.e
               c == 0
    <3>1. ExPut(s, b, m, o, e)
      BY <1>0 DEF ExPut, ExStates
    <3>2. o = [s.o EXCEPT !.panels = TRUE]
      OBVIOUS
    <3> HIDE DEF o
    <3>3. p \in BOOLEAN /\ o = WithPanels(s.o, p) /\ m = s.m /\ c \in Int
      <4>1. s.o \in OverviewRecord
        BY <1>0 DEF ExStates
      <4>2. o = WithPanels(s.o, p)
        BY <3>2, <4>1 DEF WithPanels, Ov, OverviewRecord
      <4> QED BY <4>2
    <3>4. e \in ExpoRecord /\ GroupHere(s.m, e)
      BY <1>0 DEF ExHolds
    <3> HIDE DEF b, m, p, e, c
    <3>5. ExGoes(s, b) /\ b.e = e
      BY <3>1, <3>3, <3>4, GoesSet
    <3> QED BY <3>5 DEF e
  <2> HIDE DEF b
  <2>3. ExHolds(b) /\ b.e.group \in Groups /\ b.e.visible
    BY <1>2, <2>2 DEF ExGoes, ExHolds, GroupHere
  <2>4. ExGoes(b, ExpoHideDone(b))
    BY <2>3, GoesHideDone
  <2>5. ExGoes(b, h)
    <3> DEFINE shown == b.e.shown
               visible == b.e.visible
               animation == "hide"
               m == b.m
               o == b.o
               p == b.o.panels
               e == [b.e EXCEPT !.shown = shown, !.visible = visible, !.animation = animation]
               c == 0
    <3>1. /\ b \in ExStates /\ b.e \in ExpoRecord
          /\ shown \in BOOLEAN /\ visible \in BOOLEAN /\ animation \in {"none", "show", "hide"}
          /\ (shown => b.e.hasModal) /\ (visible => b.e.group \in Groups)
          /\ c \in Int /\ m = b.m /\ p \in BOOLEAN /\ o = WithPanels(b.o, p)
      BY <2>3, ExIs DEF ExHolds, GroupHere
    <3>2. e = [b.e EXCEPT !.animation = "hide"]
      BY <3>1 DEF ExpoRecord
    <3>3. h = [b EXCEPT !.m = m, !.o = o, !.e = e]
      BY <3>1, <3>2 DEF ExStates
    <3>4. FieldsPut(b, h, m, o, shown, visible, animation)
      BY <3>3 DEF FieldsPut
    <3>5. Touched(b.m, m, c)
      BY <2>3, Untouched
    <3> HIDE DEF shown, visible, animation, m, o, p, e, h, c
    <3>6. FieldsFit(b, h, m, c, p, o, shown, visible, animation)
      BY <2>3, <3>1, <3>4, <3>5 DEF FieldsFit
    <3> QED BY <3>6, GoesFields
  <2> HIDE DEF h
  <2> QED BY <2>1, <2>2, <2>4, <2>5, GoesOn
<1> QED BY <1>1, <1>2

\* _showDone
LEMMA GoesShowDone ==
  ASSUME NEW s, ExHolds(s), NEW d \in BOOLEAN
  PROVE  ExGoes(s, ExpoShowDone(s, d))
<1> DEFINE z == [s EXCEPT !.e.animation = "none"]
           x == IF s.e.shown THEN z ELSE ExpoAnimateNotVisible(z, d)
<1>1. ExpoShowDone(s, d) = ExpoSync(x)
  BY DEF ExpoShowDone
<1>2. ExGoes(s, z)
  <2> DEFINE shown == s.e.shown
             visible == s.e.visible
             animation == "none"
             m == s.m
             o == s.o
             p == s.o.panels
             e == [s.e EXCEPT !.shown = shown, !.visible = visible, !.animation = animation]
             c == 0
  <2>1. /\ s \in ExStates /\ s.e \in ExpoRecord
        /\ shown \in BOOLEAN /\ visible \in BOOLEAN /\ animation \in {"none", "show", "hide"}
        /\ (shown => s.e.hasModal) /\ (visible => s.e.group \in Groups)
        /\ c \in Int /\ m = s.m /\ p \in BOOLEAN /\ o = WithPanels(s.o, p)
    BY ExIs DEF ExHolds, GroupHere
  <2>2. e = [s.e EXCEPT !.animation = "none"]
    BY <2>1 DEF ExpoRecord
  <2>3. z = [s EXCEPT !.m = m, !.o = o, !.e = e]
    BY <2>1, <2>2 DEF ExStates
  <2>4. FieldsPut(s, z, m, o, shown, visible, animation)
    BY <2>3 DEF FieldsPut
  <2>5. Touched(s.m, m, c)
    BY Untouched
  <2> HIDE DEF shown, visible, animation, m, o, p, e, z, c
  <2>6. FieldsFit(s, z, m, c, p, o, shown, visible, animation)
    BY <2>1, <2>4, <2>5 DEF FieldsFit
  <2> QED BY <2>6, GoesFields
<1> HIDE DEF z
<1>3. ExHolds(z)
  BY <1>2 DEF ExGoes
<1>4. ExGoes(z, x)
  BY <1>3, GoesNowhere, GoesAnimateNotVisible
<1> HIDE DEF x
<1>5. ExHolds(x)
  BY <1>4 DEF ExGoes
<1>6. ExGoes(x, ExpoSync(x))
  BY <1>5, GoesSync
<1>7. ExGoes(s, x)
  BY <1>2, <1>4, GoesOn
<1> QED BY <1>1, <1>6, <1>7, GoesOn

\* hide()
LEMMA GoesHide ==
  ASSUME NEW s, ExHolds(s), NEW d \in BOOLEAN
  PROVE  ExGoes(s, ExpoHideMethod(s, d))
<1> DEFINE a == ExpoAnimateNotVisible(s, d)
           z == [a EXCEPT !.e.shown = FALSE]
<1>1. CASE ~s.e.shown
  BY <1>1, GoesNowhere DEF ExpoHideMethod
<1>2. CASE s.e.shown
  <2>1. ExpoHideMethod(s, d) = ExpoSync(z)
    BY <1>2 DEF ExpoHideMethod
  <2>2. ExGoes(s, a)
    BY GoesAnimateNotVisible
  <2> HIDE DEF a
  <2>3. ExHolds(a)
    BY <2>2 DEF ExGoes
  <2>4. ExGoes(a, z)
    <3> DEFINE shown == FALSE
               visible == a.e.visible
               animation == a.e.animation
               m == a.m
               o == a.o
               p == a.o.panels
               e == [a.e EXCEPT !.shown = shown, !.visible = visible, !.animation = animation]
               c == 0
    <3>1. /\ a \in ExStates /\ a.e \in ExpoRecord
          /\ shown \in BOOLEAN /\ visible \in BOOLEAN /\ animation \in {"none", "show", "hide"}
          /\ (shown => a.e.hasModal) /\ (visible => a.e.group \in Groups)
          /\ c \in Int /\ m = a.m /\ p \in BOOLEAN /\ o = WithPanels(a.o, p)
      BY <2>3, ExIs DEF ExHolds, GroupHere
    <3>2. e = [a.e EXCEPT !.shown = FALSE]
      BY <3>1 DEF ExpoRecord
    <3>3. z = [a EXCEPT !.m = m, !.o = o, !.e = e]
      BY <3>1, <3>2 DEF ExStates
    <3>4. FieldsPut(a, z, m, o, shown, visible, animation)
      BY <3>3 DEF FieldsPut
    <3>5. Touched(a.m, m, c)
      BY <2>3, Untouched
    <3> HIDE DEF shown, visible, animation, m, o, p, e, z, c
    <3>6. FieldsFit(a, z, m, c, p, o, shown, visible, animation)
      BY <2>3, <3>1, <3>4, <3>5 DEF FieldsFit
    <3> QED BY <3>6, GoesFields
  <2> HIDE DEF z
  <2>5. ExHolds(z)
    BY <2>4 DEF ExGoes
  <2>6. ExGoes(z, ExpoSync(z))
    BY <2>5, GoesSync
  <2>7. ExGoes(s, z)
    BY <2>2, <2>4, GoesOn
  <2> QED BY <2>1, <2>6, <2>7, GoesOn
<1> QED BY <1>1, <1>2

\* show(), with a group that is not on the stack
LEMMA GoesShow ==
  ASSUME NEW s, ExHolds(s), NEW g \in Groups, Times(s.m, g) = 0, NEW granted \in BOOLEAN
  PROVE  ExGoes(s, ExpoShowMethod(s, g, granted))
<1> DEFINE t == ExpoShowMethod(s, g, granted)
<1>0. /\ s \in ExStates /\ s.m \in ModalState /\ s.o = WithPanels(s.o, s.o.panels)
      /\ s.o.panels \in BOOLEAN /\ g \in Owners
  BY ExIs, ExpoAssumption DEF ExHolds
<1>1. CASE s.e.shown
  BY <1>1, GoesNowhere DEF ExpoShowMethod
<1>2. CASE ~s.e.shown /\ ~PushSucceeds(s.m, granted)
  <2> DEFINE e == [ExpoInit EXCEPT !.group = g]
             q == Ex(FALSE, FALSE, FALSE, "none", g)
             m == s.m
             o == s.o
             p == s.o.panels
             c == 0
  <2>1. q \in ExpoRecord
    BY DEF Ex, ExpoRecord
  <2>2. GroupHere(s.m, q)
    BY DEF Ex, GroupHere
  <2>3. t = [s EXCEPT !.e = [ExpoInit EXCEPT !.group = g]]
    BY <1>2 DEF ExpoShowMethod
  <2>4. e = q
    <3> DEFINE i == ExpoInit
    <3>1. i \in ExpoRecord /\ i.shown = FALSE /\ i.hasModal = FALSE /\ i.visible = FALSE
          /\ i.animation = "none"
      BY DEF ExpoInit, ExpoRecord
    <3>2. e = [i EXCEPT !.group = g]
      OBVIOUS
    <3> HIDE DEF e, i
    <3> QED BY <3>1, <3>2 DEF ExpoRecord, Ex
  <2> HIDE DEF q
  <2>5. ExPut(s, t, m, o, q)
    <3> HIDE DEF t
    <3> QED BY <1>0, <2>3, <2>4 DEF ExPut, ExStates
  <2>6. m = s.m /\ p \in BOOLEAN /\ o = WithPanels(s.o, p) /\ c \in Int
    BY <1>0
  <2> HIDE DEF e, t, m, o, p, c
  <2>7. ExGoes(s, t)
    BY <2>1, <2>2, <2>5, <2>6, GoesSet
  <2> QED BY <2>7 DEF t
<1>3. CASE ~s.e.shown /\ PushSucceeds(s.m, granted)
  <2> DEFINE m == PushModal(s.m, g, granted)
             e == [ExpoInit EXCEPT !.hasModal = TRUE, !.shown = TRUE, !.group = g]
             q == Ex(TRUE, TRUE, FALSE, "none", g)
             z == [s EXCEPT !.m = PushModal(@, g, granted),
                            !.e = [ExpoInit EXCEPT !.hasModal = TRUE, !.shown = TRUE,
                                                   !.group = g]]
  <2>1. t = ExpoAnimateVisible(z)
    BY <1>3 DEF ExpoShowMethod
  <2>2. q \in ExpoRecord
    BY DEF Ex, ExpoRecord
  <2>3. e = q
    <3> DEFINE i == ExpoInit
    <3>1. i \in ExpoRecord /\ i.visible = FALSE /\ i.animation = "none"
      BY DEF ExpoInit, ExpoRecord
    <3>2. e = [i EXCEPT !.hasModal = TRUE, !.shown = TRUE, !.group = g]
      OBVIOUS
    <3> HIDE DEF e, i
    <3> QED BY <3>1, <3>2 DEF ExpoRecord, Ex
  <2>4. ExPut(s, z, m, s.o, e)
    BY <1>0 DEF ExPut, ExStates
  <2>5. PICK n \in Int : Held(s.m, n)
    BY DEF ExHolds
  <2>6. Held(m, n) /\ SameTimes(s.m, m, g) /\ Times(m, g) = 1
    BY <1>0, <1>3, <2>5, HeldPush
  <2> HIDE DEF m, t
  <2>7. GroupHere(m, q)
    BY <2>6 DEF GroupHere, Ex
  <2>8. q.hasModal = TRUE /\ q.shown = TRUE /\ q.group = g
    BY DEF Ex
  <2> HIDE DEF q, e, z
  <2>9. ExPut(s, z, m, s.o, q)
    BY <2>3, <2>4
  <2>10. ExGoes(s, z) /\ z.e = q
    BY <2>2, <2>6, <2>7, <2>9, GoesPut
  <2>11. ExHolds(z)
    BY <2>10 DEF ExGoes
  <2>12. ExGoes(z, t)
    <3> DEFINE shown == z.e.shown
               visible == TRUE
               animation == "show"
               l == [z.m EXCEPT !.unredirect = z.m.unredirect + 1]
               o == [z.o EXCEPT !.panels = FALSE]
               p == FALSE
               f == [z.e EXCEPT !.shown = shown, !.visible = visible, !.animation = animation]
               c == 1
    <3>1. /\ z \in ExStates /\ z.e \in ExpoRecord /\ z.m \in ModalState /\ z.o \in OverviewRecord
          /\ shown \in BOOLEAN /\ visible \in BOOLEAN /\ animation \in {"none", "show", "hide"}
          /\ (shown => z.e.hasModal) /\ (visible => z.e.group \in Groups) /\ c \in Int
      BY <2>8, <2>10, <2>11, ExIs DEF ExHolds
    <3>2. f = [z.e EXCEPT !.visible = TRUE, !.animation = "show"]
      BY <3>1 DEF ExpoRecord
    <3>3. t = [z EXCEPT !.m = l, !.o = o, !.e = [z.e EXCEPT !.visible = TRUE, !.animation = "show"]]
      BY <2>1, <3>1 DEF ExpoAnimateVisible, ExStates
    <3>4. o = [z.o EXCEPT !.panels = FALSE]
      OBVIOUS
    <3>5. f = [z.e EXCEPT !.shown = shown, !.visible = visible, !.animation = animation]
      OBVIOUS
    <3> HIDE DEF o, f
    <3>6. p \in BOOLEAN /\ o = WithPanels(z.o, p)
      BY <3>1, <3>4 DEF WithPanels, Ov, OverviewRecord
    <3>7. Touched(z.m, l, c)
      <4>1. \A d \in Int : Touched(z.m, [z.m EXCEPT !.unredirect = z.m.unredirect + d], d)
        BY <3>1, TouchedIs
      <4> QED BY <3>1, <4>1
    <3>8. t = [z EXCEPT !.m = l, !.o = o, !.e = f]
      BY <3>2, <3>3
    <3>9. FieldsPut(z, t, l, o, shown, visible, animation)
      BY <3>5, <3>8 DEF FieldsPut
    <3> HIDE DEF shown, visible, animation, l, p, c
    <3>10. FieldsFit(z, t, l, c, p, o, shown, visible, animation)
      BY <2>11, <3>1, <3>6, <3>7, <3>9 DEF FieldsFit
    <3> QED BY <3>10, GoesFields
  <2>13. ExGoes(s, t)
    BY <2>10, <2>12, GoesOn
  <2> QED BY <2>13 DEF t
<1> QED BY <1>1, <1>2, <1>3

-----------------------------------------------------------------------------
(* The steps of the expo. *)

\* Whatever the expo does, it leaves the overview as it is.
LEMMA ExpoGoes ==
  ASSUME ExpoInv, NEW t, ExGoes(ExpoState, t),
         modal' = t.m, overview' = t.o, expo' = t.e,
         UNCHANGED <<stageFocused, leftover>>, replaced' \in BOOLEAN,
         replaced' \/ Orderly(modal', overview', expo', pending')
  PROVE  ExpoInv'
<1>1. PICK p \in BOOLEAN : t.o = WithPanels(ExpoState.o, p)
  BY DEF ExGoes
<1>2. ExpoState.m = modal /\ ExpoState.o = overview
  BY DEF ExpoState
<1>3. t \in ExStates /\ GroupHere(modal', expo') /\ OthersSame(modal, modal')
  BY <1>2 DEF ExGoes, ExHolds
<1>4. Base(modal') /\ Grabbed(modal')
  BY DEF ExGoes, ExHolds, Held
<1>5. /\ overview'.shown = overview.shown /\ overview'.hasModal = overview.hasModal
      /\ overview'.visible = overview.visible /\ overview'.animation = overview.animation
  BY <1>1, <1>2 DEF WithPanels, Ov
<1>6. OverviewKnown(overview')
  BY <1>5 DEF OverviewKnown, ExpoInv
<1>7. GroupHeld(modal', overview', leftover')
  <2>1. Times(modal', Group) = Times(modal, Group)
    BY <1>3, ExpoAssumption DEF OthersSame
  <2> QED BY <1>5, <2>1 DEF ExpoInv, GroupHeld
<1>8. expo' \in ExpoRecord /\ overview' \in OverviewRecord
  BY <1>3, ExIs
<1> QED BY <1>3, <1>4, <1>6, <1>7, <1>8 DEF ExpoInv

\* As long as none is replaced, it stays right with it.
LEMMA ExpoMoves ==
  ASSUME ExpoInv, NEW t, NEW e, NEW p, ExMoved(ExpoState, t, Shows(overview), e, p),
         modal' = t.m, overview' = t.o, expo' = t.e,
         ExpoKnown(e), PendingKnown(pending', e), PanelsKnown(WithPanels(overview, p), e)
  PROVE  Orderly(modal', overview', expo', pending')
<1>1. /\ expo' = e /\ overview' = WithPanels(overview, p)
      /\ Held(modal', Shows(overview) + Shows(expo')) /\ GroupLeft(modal', expo')
  BY DEF ExMoved, ExSound, ExpoState
<1>2. Shows(overview') = Shows(overview)
  BY <1>1 DEF Shows, WithPanels, Ov
<1>3. Unredirected(modal', Shows(overview') + Shows(expo'))
  BY <1>1, <1>2 DEF Held
<1> QED BY <1>1, <1>3 DEF Orderly

LEMMA ExpoStateSound ==
  ASSUME ExpoInv
  PROVE  /\ ExHolds(ExpoState) /\ Shows(overview) \in Int
         /\ ~replaced => ExSound(ExpoState, Shows(overview))
         /\ ExpoState.m = modal /\ ExpoState.o = overview /\ ExpoState.e = expo
         /\ ExpoState.f = stageFocused
<1> DEFINE c == IF modal.stack = <<>> THEN 0 ELSE 1
           n == modal.unredirect - c
<1>1. /\ ExpoState.m = modal /\ ExpoState.o = overview /\ ExpoState.e = expo
      /\ ExpoState.f = stageFocused /\ ExpoState \in ExStates
  BY DEF ExpoState, ExStates, ExpoInv, Base
<1>2. Shows(overview) \in Int
  BY DEF Shows
<1>3. ~replaced => Held(modal, Shows(overview) + Shows(expo)) /\ GroupLeft(modal, expo)
  BY DEF ExpoInv, Held, Orderly
<1>4. n \in Int /\ modal.unredirect = n + c
  <2>1. modal.unredirect \in Int /\ c \in Int
    BY StackIs DEF ExpoInv, Base
  <2> HIDE DEF c
  <2> QED BY <2>1
<1>5. Held(modal, n)
  BY <1>4 DEF Held, Unredirected, ExpoInv
<1> HIDE DEF n
<1>6. ExHolds(ExpoState)
  BY <1>1, <1>4, <1>5 DEF ExHolds, ExpoInv
<1> QED BY <1>1, <1>2, <1>3, <1>6 DEF ExSound

LEMMA ExpoStepKeeps ==
  ASSUME ExpoInv, ExpoShow \/ ExpoHide \/ ExpoShowAnimationEnds \/ ExpoHideAnimationEnds
  PROVE  ExpoInv'
<1> DEFINE n == Shows(overview)
<1>1. /\ ExHolds(ExpoState) /\ n \in Int /\ (~replaced => ExSound(ExpoState, n))
      /\ ExpoState.m = modal /\ ExpoState.o = overview /\ ExpoState.e = expo
      /\ ExpoState.f = stageFocused
  BY ExpoStateSound
<1>2. /\ expo.shown \in BOOLEAN /\ expo.hasModal \in BOOLEAN /\ expo.visible \in BOOLEAN
      /\ expo.animation \in {"none", "show", "hide"} /\ expo.group \in Groups \cup {Nobody}
      /\ overview.panels \in BOOLEAN /\ replaced \in BOOLEAN
  BY DEF ExpoInv, ExpoRecord, OverviewRecord
<1>3. ~replaced => /\ ExpoKnown(expo) /\ PanelsKnown(overview, expo)
                   /\ PendingKnown(pending, expo)
  BY DEF ExpoInv, Orderly
<1>4. \A p : Stays(WithPanels(overview, p)) = Stays(overview)
             /\ WithPanels(overview, p).panels = p
  BY DEF Stays, WithPanels, Ov
<1>5. Nobody \notin Groups
  BY ExpoAssumption, ModalAssumption
<1> HIDE DEF n
<1>6. CASE ExpoShow
  <2> DEFINE g == CHOOSE a \in Unused : TRUE
  <2>1. PICK granted \in BOOLEAN : ExpoBecomes(ExpoShowMethod(ExpoState, g, granted))
    BY <1>6 DEF ExpoShow
  <2>2. g \in Unused
    BY <1>6 DEF ExpoShow
  <2> HIDE DEF g
  <2>3. g \in Groups /\ Times(modal, g) = 0
    <3>1. \A r \in ToSet(modal.stack) : r.actor # g
      BY <2>2 DEF Unused
    <3>2. Positions(modal, g) = {}
      BY <3>1 DEF Positions, ToSet
    <3> QED BY <2>2, <3>2, FS_EmptySet DEF Times, Unused
  <2> DEFINE t == ExpoShowMethod(ExpoState, g, granted)
  <2>4. /\ modal' = t.m /\ overview' = t.o /\ expo' = t.e
        /\ UNCHANGED <<stageFocused, leftover>>
        /\ ~expo.shown /\ replaced' = (replaced \/ expo.animation # "none")
    BY <1>6, <2>1 DEF ExpoShow, ExpoBecomes
  <2>5. PICK shows \in 1..(pending.show + 1) :
          pending' = [pending EXCEPT !.show = IF expo'.shown THEN shows ELSE @]
    BY <1>6 DEF ExpoShow
  <2>6. ExGoes(ExpoState, t)
    BY <1>1, <2>3, GoesShow
  <2>7. ASSUME ~replaced' PROVE Orderly(modal', overview', expo', pending')
    <3>1. /\ ~replaced /\ expo.animation = "none" /\ ~expo.visible /\ ~expo.hasModal
          /\ pending = [show |-> 0, hide |-> 0] /\ ExSound(ExpoState, n)
      BY <1>1, <1>2, <1>3, <2>4, <2>7 DEF ExpoKnown, PendingKnown
    <3>2. CASE ~PushSucceeds(modal, granted)
      <4> DEFINE e == Ex(FALSE, FALSE, FALSE, "none", g)
                 p == overview.panels
      <4>1. ExMoved(ExpoState, t, n, e, p)
        BY <1>1, <2>3, <2>4, <3>1, <3>2, ExRefused
      <4>2. ExpoKnown(e) /\ e.shown = FALSE /\ PanelsKnown(WithPanels(overview, p), e)
        BY <1>3, <1>4, <3>1 DEF ExpoKnown, Ex, PanelsKnown, Stays
      <4>3. PendingKnown(pending', e)
        <5>1. expo' = e
          BY <2>4, <4>1 DEF ExMoved
        <5>2. pending' = pending
          BY <2>5, <3>1, <4>2, <5>1
        <5> QED BY <3>1, <5>2 DEF PendingKnown, Ex
      <4> HIDE DEF t, e, p
      <4> QED BY <2>4, <4>1, <4>2, <4>3, ExpoMoves DEF n
    <3>3. CASE PushSucceeds(modal, granted)
      <4> DEFINE e == Ex(TRUE, TRUE, TRUE, "show", g)
                 p == FALSE
      <4>1. ExMoved(ExpoState, t, n, e, p)
        BY <1>1, <2>3, <2>4, <3>1, <3>3, ExShow
      <4>2. ExpoKnown(e) /\ e.shown = TRUE /\ PanelsKnown(WithPanels(overview, p), e)
        BY <2>3 DEF ExpoKnown, Ex, PanelsKnown, Stays
      <4>3. PendingKnown(pending', e)
        <5>1. expo' = e
          BY <2>4, <4>1 DEF ExMoved
        <5>2. shows = 1
          BY <2>5, <3>1
        <5>3. pending' = [pending EXCEPT !.show = 1]
          BY <2>5, <4>2, <5>1, <5>2
        <5> QED BY <3>1, <5>3 DEF PendingKnown, Ex
      <4> HIDE DEF t, e, p
      <4> QED BY <2>4, <4>1, <4>2, <4>3, ExpoMoves DEF n
    <3> QED BY <3>2, <3>3
  <2> HIDE DEF t
  <2>8. replaced' \in BOOLEAN
    BY <1>2, <2>4
  <2> QED BY <2>4, <2>6, <2>7, <2>8, ExpoGoes
<1>7. CASE ExpoHide
  <2>0. PICK animated \in BOOLEAN : ExpoBecomes(ExpoHideMethod(ExpoState, animated))
    BY <1>7 DEF ExpoHide
  <2> DEFINE t == ExpoHideMethod(ExpoState, animated)
  <2>1. /\ modal' = t.m /\ overview' = t.o /\ expo' = t.e
        /\ UNCHANGED <<stageFocused, leftover>>
        /\ expo.shown /\ replaced' = replaced
        /\ pending' = [pending EXCEPT !.hide = @ + HideBegins]
    BY <1>7, <2>0 DEF ExpoHide, ExpoBecomes
  <2>2. ExGoes(ExpoState, t)
    BY <1>1, <1>2, <2>0, GoesHide
  <2>3. ASSUME ~replaced PROVE Orderly(modal', overview', expo', pending')
    <3> DEFINE e == IF expo.animation # "none"
                    THEN Ex(FALSE, TRUE, TRUE, expo.animation, expo.group)
                    ELSE IF animated THEN Ex(FALSE, TRUE, TRUE, "hide", expo.group)
                    ELSE Ex(FALSE, FALSE, FALSE, "none", Nobody)
               p == IF expo.animation # "none" THEN overview.panels ELSE TRUE
    <3>1. /\ expo.visible /\ expo.group \in Groups /\ expo.hasModal
          /\ expo.animation \in {"none", "show"}
      BY <1>2, <1>3, <2>1, <2>3 DEF ExpoKnown
    <3>2. ExMoved(ExpoState, t, n, e, p)
      BY <1>1, <1>2, <2>0, <2>1, <2>3, <3>1, ExHide
    <3>3. ExpoKnown(e)
      BY <1>2, <1>5, <3>1 DEF ExpoKnown, Ex
    <3>4. PanelsKnown(WithPanels(overview, p), e)
      <4>1. CASE expo.animation # "none"
        BY <1>3, <1>4, <2>3, <3>1, <4>1 DEF PanelsKnown, Stays, Ex
      <4>2. CASE expo.animation = "none"
        BY <1>4, <4>2 DEF PanelsKnown
      <4> QED BY <4>1, <4>2
    <3>5. PendingKnown(pending', e)
      <4>1. expo' = e
        BY <2>1, <3>2 DEF ExMoved
      <4>2. pending = [show |-> IF expo.animation = "show" THEN 1 ELSE 0, hide |-> 0]
        BY <1>3, <2>3, <3>1 DEF PendingKnown
      <4>3. e.animation = IF expo.animation # "none" THEN "show"
                          ELSE IF animated THEN "hide" ELSE "none"
        BY <3>1 DEF Ex
      <4>4. HideBegins = IF e.animation = "hide" THEN 1 ELSE 0
        BY <3>1, <4>1 DEF HideBegins
      <4> HIDE DEF e
      <4>5. pending' = [pending EXCEPT !.hide = 0 + HideBegins]
        BY <2>1, <4>2
      <4>6. pending' = [show |-> pending.show, hide |-> IF e.animation = "hide" THEN 1 ELSE 0]
        BY <4>2, <4>4, <4>5
      <4>7. pending.show = IF e.animation = "show" THEN 1 ELSE 0
        BY <3>1, <4>2, <4>3
      <4> QED BY <4>6, <4>7 DEF PendingKnown
    <3> HIDE DEF t, e, p
    <3> QED BY <2>1, <3>2, <3>3, <3>4, <3>5, ExpoMoves DEF n
  <2> HIDE DEF t
  <2> QED BY <1>2, <2>1, <2>2, <2>3, ExpoGoes
<1>8. CASE ExpoShowAnimationEnds
  <2>0. PICK animated \in BOOLEAN : ExpoBecomes(ExpoShowDone(ExpoState, animated))
    BY <1>8 DEF ExpoShowAnimationEnds
  <2> DEFINE t == ExpoShowDone(ExpoState, animated)
  <2>1. /\ modal' = t.m /\ overview' = t.o /\ expo' = t.e
        /\ UNCHANGED <<stageFocused, leftover>>
        /\ pending.show > 0 /\ replaced' = replaced
        /\ pending' = [show |-> pending.show - 1,
                       hide |-> pending.hide + IF expo'.animation = "hide" THEN 1 ELSE 0]
    BY <1>8, <2>0 DEF ExpoShowAnimationEnds, ExpoBecomes
  <2>2. ExGoes(ExpoState, t)
    BY <1>1, <1>2, <2>0, GoesShowDone
  <2>3. ASSUME ~replaced PROVE Orderly(modal', overview', expo', pending')
    <3> DEFINE e == IF expo.shown THEN Ex(TRUE, TRUE, TRUE, "none", expo.group)
                    ELSE IF animated THEN Ex(FALSE, TRUE, TRUE, "hide", expo.group)
                    ELSE Ex(FALSE, FALSE, FALSE, "none", Nobody)
               p == IF expo.shown THEN overview.panels ELSE TRUE
    <3>0. expo.animation = "show" /\ pending = [show |-> 1, hide |-> 0]
      BY <1>2, <1>3, <2>1, <2>3 DEF PendingKnown
    <3>1. expo.visible /\ expo.group \in Groups /\ expo.hasModal
      BY <1>2, <1>3, <2>3, <3>0 DEF ExpoKnown
    <3>2. ExMoved(ExpoState, t, n, e, p)
      BY <1>1, <1>2, <2>0, <2>3, <3>1, ExShowDone
    <3>3. ExpoKnown(e)
      BY <1>2, <1>5, <3>1 DEF ExpoKnown, Ex
    <3>4. PanelsKnown(WithPanels(overview, p), e)
      <4>1. CASE expo.shown
        BY <1>3, <1>4, <2>3, <3>0, <3>1, <4>1 DEF PanelsKnown, Stays, Ex
      <4>2. CASE ~expo.shown
        BY <1>4, <4>2 DEF PanelsKnown
      <4> QED BY <4>1, <4>2
    <3>5. PendingKnown(pending', e)
      <4>1. expo' = e
        BY <2>1, <3>2 DEF ExMoved
      <4>2. e.animation \in {"none", "hide"}
        BY DEF Ex
      <4> HIDE DEF e
      <4>3. pending' = [show |-> 0, hide |-> IF e.animation = "hide" THEN 1 ELSE 0]
        BY <2>1, <3>0, <4>1
      <4> QED BY <4>2, <4>3 DEF PendingKnown
    <3> HIDE DEF t, e, p
    <3> QED BY <2>1, <3>2, <3>3, <3>4, <3>5, ExpoMoves DEF n
  <2> HIDE DEF t
  <2> QED BY <1>2, <2>1, <2>2, <2>3, ExpoGoes
<1>9. CASE ExpoHideAnimationEnds
  <2> DEFINE t == IF expo.group = Nobody THEN ExpoState ELSE ExpoHideDone(ExpoState)
  <2>1. /\ modal' = t.m /\ overview' = t.o /\ expo' = t.e
        /\ UNCHANGED <<stageFocused, leftover>>
        /\ pending.hide > 0 /\ replaced' = replaced
        /\ pending' = [pending EXCEPT !.hide = @ - 1]
    BY <1>9 DEF ExpoHideAnimationEnds, ExpoBecomes
  <2>2. ExGoes(ExpoState, t)
    BY <1>1, <1>2, GoesNowhere, GoesHideDone
  <2>3. ASSUME ~replaced PROVE Orderly(modal', overview', expo', pending')
    <3> DEFINE e == Ex(FALSE, FALSE, FALSE, "none", Nobody)
               p == overview.panels
    <3>0. expo.animation = "hide" /\ pending = [show |-> 0, hide |-> 1]
      BY <1>2, <1>3, <2>1, <2>3 DEF PendingKnown
    <3>1. expo.visible /\ expo.group \in Groups /\ expo.hasModal /\ expo.shown = FALSE
      BY <1>2, <1>3, <2>3, <3>0 DEF ExpoKnown
    <3>2. ExMoved(ExpoState, t, n, e, p)
      <4>1. t = ExpoHideDone(ExpoState)
        BY <1>5, <3>1
      <4>2. ExMoved(ExpoState, ExpoHideDone(ExpoState), n, e, p)
        BY <1>1, <1>2, <2>3, <3>1, ExHideDone
      <4> QED BY <4>1, <4>2
    <3>3. ExpoKnown(e)
      BY <1>5 DEF ExpoKnown, Ex
    <3>4. PanelsKnown(WithPanels(overview, p), e)
      BY <1>3, <1>4, <2>3, <3>0 DEF PanelsKnown, Stays
    <3>5. PendingKnown(pending', e)
      <4>1. pending' = [show |-> 0, hide |-> 0]
        BY <2>1, <3>0
      <4> QED BY <4>1 DEF PendingKnown, Ex
    <3> HIDE DEF t, e, p
    <3> QED BY <2>1, <3>2, <3>3, <3>4, <3>5, ExpoMoves DEF n
  <2> HIDE DEF t
  <2> QED BY <1>2, <2>1, <2>2, <2>3, ExpoGoes
<1> QED BY <1>6, <1>7, <1>8, <1>9

-----------------------------------------------------------------------------
(* The dialogs and the theorems. *)

\* A dialog's push or pop leaves what the overview and the expo hold.
LEMMA DialogMoves ==
  ASSUME ExpoInv, NEW a, a \notin Groups, a # Group, NEW n \in Int, Held(modal', n),
         ~replaced => n = Shows(overview) + Shows(expo), SameTimes(modal, modal', a),
         UNCHANGED <<overview, leftover, expo, pending, replaced, stageFocused>>
  PROVE  ExpoInv'
<1>1. Base(modal') /\ Grabbed(modal') /\ Unredirected(modal', n)
  BY DEF Held
<1>2. \A b : b \in Groups \cup {Group} => Times(modal', b) = Times(modal, b)
  BY DEF SameTimes
<1>3. GroupHeld(modal', overview, leftover) /\ GroupHere(modal', expo)
  BY <1>2 DEF ExpoInv, GroupHeld, GroupHere
<1>4. ~replaced => Orderly(modal', overview, expo, pending)
  BY <1>1, <1>2 DEF ExpoInv, Orderly, GroupLeft
<1> QED BY <1>1, <1>3, <1>4 DEF ExpoInv

LEMMA DialogsKeep ==
  ASSUME ExpoInv, Dialogs
  PROVE  ExpoInv'
<1>1. PICK a \in Owners \ ({Group} \cup Groups) : Push(a) \/ Pop(a)
  BY DEF Dialogs
<1>2. PICK n \in Int : Held(modal, n) /\ (~replaced => n = Shows(overview) + Shows(expo))
  <2> DEFINE c == IF modal.stack = <<>> THEN 0 ELSE 1
             u == modal.unredirect - c
  <2>1. modal.unredirect \in Int /\ c \in Int
    BY StackIs DEF ExpoInv, Base
  <2>2. ~replaced => modal.unredirect = (Shows(overview) + Shows(expo)) + c
    BY DEF ExpoInv, Orderly, Unredirected
  <2>3. Shows(overview) \in Int /\ Shows(expo) \in Int
    BY DEF Shows
  <2>4. u \in Int /\ modal.unredirect = u + c
        /\ (~replaced => u = Shows(overview) + Shows(expo))
    <3> HIDE DEF c
    <3> QED BY <2>1, <2>2, <2>3
  <2>5. Held(modal, u)
    BY <2>4 DEF Held, Unredirected, ExpoInv
  <2> HIDE DEF u
  <2> QED BY <2>4, <2>5
<1>3. modal \in ModalState /\ stageFocused \in BOOLEAN
  BY DEF ExpoInv, Base
<1>4. UNCHANGED <<overview, leftover, expo, pending, replaced>>
  BY DEF Dialogs
<1>5. CASE Push(a)
  <2>1. PICK granted \in BOOLEAN : modal' = PushModal(modal, a, granted)
    BY <1>5 DEF Push, PushOwner
  <2>2. UNCHANGED stageFocused /\ Times(modal, a) = 0
    BY <1>3, <1>5, FoundIsThere DEF Push, PushOwner
  <2>3. CASE PushSucceeds(modal, granted)
    <3>1. Held(modal', n) /\ SameTimes(modal, modal', a)
      BY <1>2, <2>1, <2>2, <2>3, HeldPush
    <3> QED BY <1>1, <1>2, <1>4, <2>2, <3>1, DialogMoves
  <2>4. CASE ~PushSucceeds(modal, granted)
    <3>1. modal' = modal
      BY <2>1, <2>4 DEF PushModal
    <3>2. Held(modal', n) /\ SameTimes(modal, modal', a)
      BY <1>2, <3>1 DEF SameTimes
    <3> QED BY <1>1, <1>2, <1>4, <2>2, <3>2, DialogMoves
  <2> QED BY <2>3, <2>4
<1>6. CASE Pop(a)
  <2>1. FindModal(modal, a) # 0 /\ modal' = PopModal(modal, a, stageFocused)
        /\ UNCHANGED stageFocused
    BY <1>6 DEF Pop
  <2>2. Times(modal, a) # 0
    BY <1>3, <2>1, FoundIsThere
  <2>3. Held(modal', n) /\ SameTimes(modal, modal', a)
    BY <1>2, <1>3, <2>1, <2>2, HeldPop
  <2> QED BY <1>1, <1>2, <1>4, <2>1, <2>3, DialogMoves
<1> QED BY <1>1, <1>5, <1>6

LEMMA InitExpoInv == InitExpo => ExpoInv
<1> SUFFICES ASSUME InitExpo PROVE ExpoInv
  OBVIOUS
<1>1. Init /\ StackInv
  BY InitStack DEF InitExpo, InitOverview
<1>2. /\ overview = [shown |-> FALSE, hasModal |-> FALSE, visible |-> FALSE,
                     animation |-> "none", panels |-> TRUE]
      /\ expo = [shown |-> FALSE, hasModal |-> FALSE, visible |-> FALSE,
                 animation |-> "none", group |-> Nobody]
      /\ stageFocused \in BOOLEAN /\ leftover = 0
      /\ pending = [show |-> 0, hide |-> 0] /\ replaced = FALSE
  BY <1>1 DEF InitExpo, InitOverview, OverviewInit, ExpoInit, Init
<1>3. modal.stack = <<>>
  BY <1>1 DEF Init, ModalInit
<1>4. \A a : Times(modal, a) = 0
  <2> SUFFICES ASSUME NEW a PROVE Times(modal, a) = 0
    OBVIOUS
  <2>1. Positions(modal, a) = {}
    BY <1>3 DEF Positions
  <2> QED BY <2>1, FS_EmptySet DEF Times
<1>5. Base(modal) /\ Grabbed(modal) /\ Unredirected(modal, 0)
  BY <1>1 DEF StackInv, Init
<1>6. Shows(overview) = 0 /\ Shows(expo) = 0 /\ 0 + 0 = 0
  BY <1>2 DEF Shows
<1>7. overview \in OverviewRecord /\ expo \in ExpoRecord
  BY <1>2 DEF OverviewRecord, ExpoRecord
<1>8. GroupHeld(modal, overview, leftover) /\ OverviewKnown(overview) /\ PanelsKnown(overview, expo)
  BY <1>2, <1>4 DEF GroupHeld, OverviewKnown, PanelsKnown
<1>9. GroupHere(modal, expo) /\ GroupLeft(modal, expo) /\ ExpoKnown(expo)
      /\ PendingKnown(pending, expo)
  BY <1>2, <1>4 DEF GroupHere, GroupLeft, ExpoKnown, PendingKnown
<1>10. Orderly(modal, overview, expo, pending)
  BY <1>5, <1>6, <1>8, <1>9 DEF Orderly
<1> QED BY <1>2, <1>5, <1>7, <1>8, <1>9, <1>10 DEF ExpoInv

\* The invariant of the overview and the expo holds in every state, whatever they
\* and the dialogs do, and in whatever order.
THEOREM ExpoInvAlways == SpecExpo => []ExpoInv
<1>1. ExpoInv /\ [NextExpo]_expoVars => ExpoInv'
  <2> SUFFICES ASSUME ExpoInv, [NextExpo]_expoVars PROVE ExpoInv'
    OBVIOUS
  <2>1. CASE ExpoShow \/ ExpoHide \/ ExpoShowAnimationEnds \/ ExpoHideAnimationEnds
    BY <2>1, ExpoStepKeeps
  <2>2. CASE OverviewStep
    BY <2>2, OverviewStepKeeps
  <2>3. CASE Dialogs
    BY <2>3, DialogsKeep
  <2>4. CASE UNCHANGED expoVars
    <3>1. UNCHANGED <<modal, overview, expo, pending, replaced, leftover, stageFocused>>
      BY <2>4 DEF expoVars, vars, modalVars
    <3> QED BY <3>1 DEF ExpoInv
  <2> QED BY <2>1, <2>2, <2>3, <2>4 DEF NextExpo
<1> QED BY InitExpoInv, <1>1, PTL DEF SpecExpo

\* Unredirection, the panels and the grab, which the overview, the expo and the
\* dialogs share, are in every state what the three of them need, also when one
\* is interrupted by another (_hideDone, _animateNotVisible and popModal), and the
\* first two as long as no expo was replaced in the middle of its animation.
THEOREM SharedStateBalancedAlways == SpecExpo => []SharedStateBalanced
<1>1. ExpoInv => SharedStateBalanced
  <2> SUFFICES ASSUME ExpoInv PROVE SharedStateBalanced
    OBVIOUS
  <2>1. ~replaced => modal.unredirect = (IF modal.stack = <<>> THEN 0 ELSE 1)
                                        + (IF overview.visible THEN 1 ELSE 0)
                                        + (IF expo.visible THEN 1 ELSE 0)
    <3> SUFFICES ASSUME ~replaced
                 PROVE  modal.unredirect = (IF modal.stack = <<>> THEN 0 ELSE 1)
                                           + (IF overview.visible THEN 1 ELSE 0)
                                           + (IF expo.visible THEN 1 ELSE 0)
      OBVIOUS
    <3>1. Unredirected(modal, Shows(overview) + Shows(expo))
      BY DEF ExpoInv, Orderly
    <3> QED BY <3>1 DEF Unredirected, Shows
  <2>2. ~replaced => (~overview.visible /\ ~expo.visible => overview.panels)
    BY DEF ExpoInv, Orderly, PanelsKnown, Stays
  <2>3. modal.hasModal = (modal.stack # <<>>)
        /\ (modal.stack = <<>> => modal.inputMode = "normal")
    BY DEF ExpoInv, Grabbed, Base, IdleUngrabbed
  <2> QED BY <2>1, <2>2, <2>3 DEF SharedStateBalanced
<1> QED BY ExpoInvAlways, <1>1, PTL

\* Whoever shows or hides them, and whatever is animated then: both are, once at
\* rest, visible exactly if their callers asked for them, and the overview is on
\* the modal stack once if so, but for its leftovers; the expo and no group of an
\* earlier one is, as long as none was replaced (_hideDone of both).
THEOREM BothAtRestAlways == SpecExpo => []BothAtRestAsAsked
<1>1. ExpoInv => BothAtRestAsAsked
  <2> SUFFICES ASSUME ExpoInv PROVE BothAtRestAsAsked
    OBVIOUS
  <2>1. \A a : HeldBy(a) = Times(modal, a)
    BY DEF HeldBy, Times, Positions
  <2>2. HeldByGroup = Times(modal, Group)
    BY DEF HeldByGroup, Times, Positions
  <2>3. AtRestAsAsked
    BY <2>2 DEF AtRestAsAsked, ExpoInv, OverviewRecord, GroupHeld, OverviewKnown
  <2>4. ExpoAtRest
    <3> SUFFICES ASSUME ~replaced, expo.animation = "none"
                 PROVE  /\ expo.visible = expo.shown
                        /\ expo.shown => expo.group # Nobody
                        /\ \A g \in Groups :
                             HeldBy(g) = IF expo.shown /\ g = expo.group THEN 1 ELSE 0
      BY DEF ExpoAtRest
    <3>1. ExpoKnown(expo) /\ GroupLeft(modal, expo) /\ expo \in ExpoRecord
      BY DEF ExpoInv, Orderly
    <3>2. Nobody \notin Groups
      BY ExpoAssumption, ModalAssumption
    <3>3. expo.visible = expo.shown /\ expo.hasModal = expo.shown
          /\ (expo.shown => expo.group # Nobody)
      BY <3>1, <3>2 DEF ExpoKnown, ExpoRecord
    <3>4. ASSUME NEW g \in Groups
          PROVE  HeldBy(g) = IF expo.shown /\ g = expo.group THEN 1 ELSE 0
      BY <2>1, <3>1, <3>3 DEF GroupLeft
    <3> QED BY <3>3, <3>4
  <2> QED BY <2>3, <2>4 DEF BothAtRestAsAsked
<1> QED BY ExpoInvAlways, <1>1, PTL

\* Each knows whether it holds the input, whoever calls: none is shown without
\* the grab, and none leaves a record that it would not pop but for the overview's
\* leftovers (_syncInputMode of overview.js and expo.js).
THEOREM GrabsAreKnownAlways == SpecExpo => []GrabsAreKnown
<1>1. ExpoInv => GrabsAreKnown
  <2> SUFFICES ASSUME ExpoInv PROVE GrabsAreKnown
    OBVIOUS
  <2>1. HeldBy(expo.group) = Times(modal, expo.group)
    BY DEF HeldBy, Times, Positions
  <2>2. HeldByGroup = Times(modal, Group)
    BY DEF HeldByGroup, Times, Positions
  <2>3. GrabIsKnown
    BY <2>2 DEF GrabIsKnown, ExpoInv, OverviewRecord, GroupHeld
  <2>4. expo.shown => expo.hasModal
    BY DEF ExpoInv, GroupHere
  <2>5. expo.group # Nobody => HeldBy(expo.group) = IF expo.hasModal THEN 1 ELSE 0
    BY <2>1 DEF ExpoInv, ExpoRecord, GroupHere
  <2>6. expo.hasModal /\ ~replaced => expo.group # Nobody
    BY ExpoAssumption, ModalAssumption DEF ExpoInv, Orderly, ExpoKnown
  <2> QED BY <2>3, <2>4, <2>5, <2>6 DEF GrabsAreKnown
<1> QED BY ExpoInvAlways, <1>1, PTL

=============================================================================
