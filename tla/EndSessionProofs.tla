--------------------------- MODULE EndSessionProofs ---------------------------
(***************************************************************************)
(* The end session dialog keeps DialogSound for any number of dialogs, any *)
(* countdown, zero seconds too, and a manager that answers, lists          *)
(* inhibitors and closes when it likes.                                    *)
(***************************************************************************)
EXTENDS EndSession, TLAPS

\* What holds of the dialog d; shown: it is on the modal stack.
Kept(d, shown) ==
    /\ d \in Dialog
    /\ ~d.gone => (d.hasModal <=> Opened(d)) /\ (d.hasModal <=> shown)
    /\ shown => ~d.gone
    /\ d.timer => shown /\ (d.inhibited => d.early) /\ d.fired = AnsweredAtOnce(d)
    /\ d.fired <= IF d.delay = 0 THEN 2 ELSE 1
    /\ d.delay = 0 => d.time = 0
    \* what has not been answered yet has the modal, and no countdown.
    /\ d.caps = "asked" => /\ shown /\ ~d.timer /\ (d.inhibited => d.early)
                           /\ d.fired = 0 /\ d.time = d.delay

AllKept == \A i \in DOMAIN dialogs : Kept(dialogs[i], i \in modals)

IInv ==
    /\ TypeOK
    /\ modals \subseteq {main}
    /\ AllKept

-----------------------------------------------------------------------------
(* One dialog *)

LEMMA NewIs ==
  ASSUME NEW mode \in Modes, NEW effects \in BOOLEAN, NEW delay \in Nat
  PROVE  LET n == New(mode, effects, delay)
         IN  /\ n \in Dialog /\ n.state = "CLOSED" /\ n.caps = "asked" /\ n.time = delay
             /\ ~n.hasModal /\ ~n.gone /\ ~n.inhibited /\ ~n.timer /\ n.fired = 0
             /\ n.delay = delay
BY DEF New, Dialog

LEMMA LetGoIs ==
  ASSUME NEW d \in Dialog
  PROVE  LET e == LetGo(d)
         IN  /\ e \in Dialog /\ e.caps # "asked" /\ ~e.timer /\ e.fired = d.fired
             /\ e.state = d.state /\ e.hasModal = d.hasModal /\ e.gone = d.gone
             /\ e.delay = d.delay /\ e.time = d.time
BY DEF LetGo, Dialog

LEMMA OpenedKept ==
  ASSUME NEW mode \in Modes, NEW effects \in BOOLEAN, NEW delay \in Nat
  PROVE  Kept(FadeOpen(New(mode, effects, delay)), TRUE)
<1> DEFINE n == New(mode, effects, delay)
<1>1. /\ n \in Dialog /\ n.state = "CLOSED" /\ n.caps = "asked"
      /\ n.time = delay /\ n.delay = delay
      /\ ~n.gone /\ ~n.inhibited /\ ~n.timer /\ n.fired = 0
  BY NewIs
<1> HIDE DEF n
<1> DEFINE a == [n EXCEPT !.hasModal = TRUE]
<1>2. /\ a \in Dialog /\ a.caps = "asked" /\ a.time = a.delay /\ a.hasModal
      /\ ~a.gone /\ ~a.inhibited /\ ~a.timer /\ a.fired = 0
  BY <1>1 DEF Dialog
<1> HIDE DEF a
<1>3. ASSUME NEW s \in {"OPENING", "OPENED"} PROVE Kept([a EXCEPT !.state = s], TRUE)
  BY <1>2 DEF Kept, Dialog, Opened
<1> QED BY <1>3 DEF FadeOpen, a, n

\* A dialog that does not open, or closes again, leaves its countdown behind.
LEMMA LetGoKept ==
  ASSUME NEW d, Kept(d, FALSE)
  PROVE  Kept(LetGo(d), FALSE) /\ Kept([LetGo(d) EXCEPT !.state = "CLOSING"], FALSE)
<1> DEFINE e == LetGo(d)
<1>1. /\ e \in Dialog /\ e.caps # "asked" /\ ~e.timer /\ e.fired = d.fired
      /\ e.state = d.state /\ e.hasModal = d.hasModal /\ e.gone = d.gone
      /\ e.delay = d.delay /\ e.time = d.time
  BY LetGoIs DEF Kept
<1> HIDE DEF e
<1>2. Kept(e, FALSE)
  BY <1>1 DEF Kept, Dialog, Opened
<1>3. Kept([e EXCEPT !.state = "CLOSING"], FALSE)
  BY <1>1 DEF Kept, Dialog, Opened
<1> QED BY <1>2, <1>3 DEF e

LEMMA RefusedKept ==
  ASSUME NEW mode \in Modes, NEW effects \in BOOLEAN, NEW delay \in Nat
  PROVE  Kept(LetGo(New(mode, effects, delay)), FALSE)
<1> DEFINE n == New(mode, effects, delay)
           e == LetGo(n)
<1>1. /\ n \in Dialog /\ n.state = "CLOSED" /\ ~n.hasModal /\ ~n.gone /\ n.fired = 0
      /\ n.delay = n.time
  BY NewIs
<1> HIDE DEF n
<1>2. /\ e \in Dialog /\ e.caps # "asked" /\ ~e.timer /\ e.fired = n.fired
      /\ e.state = n.state /\ e.hasModal = n.hasModal /\ e.gone = n.gone
      /\ e.delay = n.delay /\ e.time = n.time
  BY <1>1, LetGoIs
<1> HIDE DEF e
<1>3. Kept(e, FALSE)
  BY <1>1, <1>2 DEF Kept, Opened, Dialog
<1> QED BY <1>3 DEF e, n

LEMMA FadedKept ==
  ASSUME NEW d, NEW shown \in BOOLEAN, Kept(d, shown)
  PROVE  Kept(FadeClosed(LetGo(d)), FALSE)
<1> DEFINE e == LetGo(d)
<1>1. /\ e \in Dialog /\ e.caps # "asked" /\ ~e.timer /\ e.delay = d.delay /\ e.time = d.time
      /\ (d.delay = 0 => d.time = 0) /\ e.fired = d.fired
      /\ d.fired <= IF d.delay = 0 THEN 2 ELSE 1
  BY LetGoIs DEF Kept
<1> HIDE DEF e
<1>2. Kept(FadeClosed(e), FALSE)
  BY <1>1 DEF Kept, FadeClosed, Dialog, Opened
<1> QED BY <1>2 DEF e

\* A second of the countdown, in a dialog that has been answered.
LEMMA ProgressKept ==
  ASSUME NEW d \in Dialog, d.fired = AnsweredAtOnce(d), d.caps # "asked",
         d.inhibited => d.early, d.delay = 0 => d.time = 0,
         ~d.gone, d.hasModal, Opened(d)
  PROVE  Kept(UpdateProgress(d), TRUE)
<1>1. CASE d.time = 0
  <2> DEFINE e == [d EXCEPT !.fired = IF d.default THEN @ + 1 ELSE @]
  <2>1. /\ e \in Dialog /\ e.fired <= (IF e.delay = 0 THEN 2 ELSE 1) /\ e.caps # "asked"
        /\ ~e.gone /\ e.hasModal /\ Opened(e) /\ e.time = 0
    BY <1>1 DEF Dialog, Opened, AnsweredAtOnce
  <2> HIDE DEF e
  <2>2. Kept([e EXCEPT !.timer = FALSE], TRUE)
    BY <2>1 DEF Kept, Dialog, Opened
  <2> QED BY <1>1, <2>2 DEF UpdateProgress, e
<1>2. CASE d.time # 0
  <2> DEFINE e == [d EXCEPT !.time = @ - 1]
  <2>1. /\ e \in Dialog /\ e.fired = 0 /\ AnsweredAtOnce(e) = 0 /\ e.caps # "asked"
        /\ (e.inhibited => e.early) /\ ~e.gone /\ e.hasModal /\ Opened(e)
        /\ e.delay # 0
    BY <1>2 DEF Dialog, Opened, AnsweredAtOnce
  <2> HIDE DEF e
  <2>2. Kept(e, TRUE)
    BY <2>1 DEF Kept, Dialog
  <2> QED BY <1>2, <2>2 DEF UpdateProgress, e
<1> QED BY <1>1, <1>2

LEMMA AnsweredKept ==
  ASSUME NEW d, NEW shown \in BOOLEAN, Kept(d, shown), d.caps = "asked",
         NEW canStop \in BOOLEAN, NEW canSuspend \in BOOLEAN
  PROVE  LET e == WithChoices(d, canStop, canSuspend)
         IN  Kept(e, shown) /\ Kept(AddDelayTimer(e), shown)
<1> DEFINE a == [d EXCEPT !.caps = "answered"]
           b == [a EXCEPT !.default = d.mode = "shutdown" => canStop]
           e == [b EXCEPT !.suspend = d.mode = "shutdown" /\ canSuspend]
<1> DEFINE Fine(x) == /\ x \in Dialog /\ x.caps = "answered" /\ x.fired = 0
                      /\ x.time = x.delay /\ (x.inhibited => x.early)
                      /\ ~x.gone /\ x.hasModal /\ Opened(x) /\ ~x.timer
<1>1. Fine(a)
  BY DEF Kept, Dialog, Opened
<1> HIDE DEF a
<1>2. (d.mode = "shutdown" => canStop) \in BOOLEAN /\ (d.mode = "shutdown" /\ canSuspend) \in BOOLEAN
  OBVIOUS
<1>3. Fine(b)
  BY <1>1, <1>2 DEF Dialog, Opened
<1> HIDE DEF b
<1>4. Fine(e)
  BY <1>2, <1>3 DEF Dialog, Opened
<1> HIDE DEF e
<1>5. Kept(e, TRUE)
  BY <1>4 DEF Kept, Opened, Dialog
<1>6. Kept(AddDelayTimer(e), TRUE)
  <2> DEFINE u == UpdateProgress(e)
  <2>1. /\ u \in Dialog /\ u.caps = "answered" /\ u.fired = AnsweredAtOnce(u)
        /\ ~u.gone /\ u.hasModal /\ Opened(u) /\ (u.inhibited => u.early)
        /\ (u.delay = 0 => u.time = 0)
    <3>1. CASE e.time = 0
      <4> DEFINE k == IF e.default THEN 1 ELSE 0
                 v == [e EXCEPT !.fired = k]
      <4>1. k \in 0 .. 2 /\ e.default \in BOOLEAN
        BY <1>4 DEF Dialog
      <4>2. k = IF e.default THEN 1 ELSE 0
        OBVIOUS
      <4>3. u = [v EXCEPT !.timer = FALSE]
        BY <1>4, <3>1 DEF UpdateProgress, Dialog
      <4> HIDE DEF u, k
      <4>4. /\ v \in Dialog /\ v.caps = "answered" /\ v.fired = k
            /\ ~v.gone /\ v.hasModal /\ Opened(v) /\ (v.inhibited => v.early)
            /\ v.time = 0 /\ v.delay = 0 /\ v.default = e.default
        BY <1>4, <3>1, <4>1 DEF Dialog, Opened
      <4> HIDE DEF v
      <4>5. /\ u \in Dialog /\ u.caps = "answered" /\ u.fired = k
            /\ ~u.gone /\ u.hasModal /\ Opened(u) /\ (u.inhibited => u.early)
            /\ u.time = 0 /\ u.delay = 0 /\ u.default = e.default
        BY <4>3, <4>4 DEF Dialog, Opened
      <4>6. u.fired = AnsweredAtOnce(u)
        BY <4>2, <4>5 DEF AnsweredAtOnce
      <4> QED BY <4>5, <4>6
    <3>2. CASE e.time # 0
      <4>1. u = [e EXCEPT !.time = @ - 1]
        BY <3>2 DEF UpdateProgress
      <4> HIDE DEF u
      <4> QED BY <1>4, <3>2, <4>1 DEF Dialog, Opened, AnsweredAtOnce
    <3> QED BY <3>1, <3>2
  <2>2. AnsweredAtOnce(u) <= IF u.delay = 0 THEN 2 ELSE 1
    BY <2>1 DEF AnsweredAtOnce
  <2> DEFINE w == [u EXCEPT !.timer = TRUE]
  <2>3. w = AddDelayTimer(e)
    BY DEF AddDelayTimer
  <2> HIDE DEF u
  <2>4. /\ w \in Dialog /\ w.caps = "answered" /\ w.fired = u.fired
        /\ w.delay = u.delay /\ w.default = u.default
        /\ ~w.gone /\ w.hasModal /\ Opened(w) /\ (w.inhibited => w.early)
        /\ (w.delay = 0 => w.time = 0)
    BY <2>1 DEF Dialog, Opened
  <2>5. AnsweredAtOnce(w) = AnsweredAtOnce(u)
    BY <2>4 DEF AnsweredAtOnce
  <2> HIDE DEF w
  <2>6. Kept(w, TRUE)
    BY <2>1, <2>2, <2>4, <2>5 DEF Kept
  <2> QED BY <2>3, <2>6
<1>7. shown
  BY DEF Kept
<1> QED BY <1>5, <1>6, <1>7 DEF WithChoices, e, b, a

-----------------------------------------------------------------------------
(* All of them *)

\* A step that changes the dialog i to d, and may take it off the stack.
LEMMA OneChanges ==
  ASSUME IInv, NEW i \in DOMAIN dialogs, NEW d,
         dialogs' = [dialogs EXCEPT ![i] = d],
         modals' = modals \/ modals' = modals \ {i},
         Kept(d, i \in modals'),
         main' = main \/ (main' = None /\ modals' = {}),
         idle' \in Seq(Modes), wanted' \in {"shown", "closed"}
  PROVE  IInv'
<1>1. d \in Dialog /\ dialogs \in Seq(Dialog)
  BY DEF Kept, IInv, TypeOK
<1>2. dialogs' \in Seq(Dialog) /\ DOMAIN dialogs' = DOMAIN dialogs
  BY <1>1
<1>3. TypeOK'
  BY <1>2 DEF IInv, TypeOK
<1>4. AllKept'
  <2> SUFFICES ASSUME NEW j \in DOMAIN dialogs PROVE Kept(dialogs'[j], j \in modals')
    BY <1>2 DEF AllKept
  <2>1. CASE j = i
    BY <2>1, <1>1
  <2>2. CASE j # i
    <3>1. dialogs'[j] = dialogs[j] /\ (j \in modals' <=> j \in modals)
      BY <2>2, <1>1
    <3>2. (j \in modals') = (j \in modals)
      BY <3>1
    <3> QED BY <3>1, <3>2 DEF IInv, AllKept
  <2> QED BY <2>1, <2>2
<1>5. modals' \subseteq {main'}
  BY DEF IInv
<1> QED BY <1>3, <1>4, <1>5 DEF IInv

\* A dialog that is made, opened or refused the input, while there is no other.
LEMMA OneComes ==
  ASSUME IInv, main = None, NEW d, NEW opened \in BOOLEAN, Kept(d, opened),
         dialogs' = Append(dialogs, d),
         main' = IF opened THEN Len(dialogs) + 1 ELSE None,
         modals' = IF opened THEN {Len(dialogs) + 1} ELSE {},
         idle' \in Seq(Modes), wanted' \in {"shown", "closed"}
  PROVE  IInv'
<1> DEFINE i == Len(dialogs) + 1
<1>1. d \in Dialog /\ dialogs \in Seq(Dialog) /\ Len(dialogs) \in Nat
      /\ DOMAIN dialogs = 1 .. Len(dialogs)
  BY DEF Kept, IInv, TypeOK
<1>2. dialogs' \in Seq(Dialog) /\ DOMAIN dialogs' = DOMAIN dialogs \cup {i}
      /\ i \notin DOMAIN dialogs /\ dialogs'[i] = d
      /\ \A j \in DOMAIN dialogs : dialogs'[j] = dialogs[j]
  BY <1>1
<1>3. modals = {}
  <2>1. None \notin DOMAIN dialogs
    BY <1>1, ConstantsAssumption
  <2> QED BY <2>1 DEF IInv, TypeOK
<1>4. TypeOK'
  BY <1>2 DEF IInv, TypeOK
<1>5. AllKept'
  <2> SUFFICES ASSUME NEW j \in DOMAIN dialogs' PROVE Kept(dialogs'[j], j \in modals')
    BY DEF AllKept
  <2>1. CASE j = i
    <3>1. (j \in modals') = opened
      BY <2>1
    <3> QED BY <2>1, <3>1, <1>2
  <2>2. CASE j \in DOMAIN dialogs
    <3>1. (j \in modals') = FALSE /\ (j \in modals) = FALSE
      BY <2>2, <1>2, <1>3
    <3> QED BY <2>2, <3>1, <1>2 DEF IInv, AllKept
  <2> QED BY <1>2, <2>1, <2>2
<1> QED BY <1>4, <1>5 DEF IInv

\* Closing keeps everything, whatever the dialog was in the middle of.
LEMMA CloseKeeps ==
  ASSUME IInv, NEW i \in DOMAIN dialogs, Close(i),
         main' = main \/ (main' = None /\ i = main /\ ~IncorrectPop(i)),
         idle' = idle, wanted' \in {"shown", "closed"}
  PROVE  IInv'
<1>1. Kept(dialogs[i], i \in modals) /\ idle' \in Seq(Modes) /\ modals \subseteq {main}
  BY DEF IInv, AllKept, TypeOK
<1>2. CASE ~Opened(dialogs[i])
  <2>1. ~IncorrectPop(i)
    BY <1>2 DEF IncorrectPop
  <2>2. dialogs' = [dialogs EXCEPT ![i] = LetGo(dialogs[i])] /\ modals' = modals
    BY <1>2, <2>1 DEF Close
  <2>3. i \notin modals
    BY <1>1, <1>2 DEF Kept
  <2>4. (i \in modals) = FALSE
    BY <2>3
  <2>5. Kept(LetGo(dialogs[i]), i \in modals')
    BY <1>1, <2>2, <2>4, LetGoKept
  <2> QED BY <1>1, <2>2, <2>3, <2>5, OneChanges
<1>3. CASE Opened(dialogs[i]) /\ ~IncorrectPop(i)
  <2>1. dialogs' = [dialogs EXCEPT ![i] = FadeClosed(LetGo(dialogs[i]))]
        /\ modals' = modals \ {i}
    BY <1>3 DEF Close
  <2>2. (i \in modals') = FALSE /\ (i \in modals) \in BOOLEAN
    BY <2>1
  <2>3. Kept(FadeClosed(LetGo(dialogs[i])), i \in modals')
    BY <1>1, <2>2, FadedKept
  <2> QED BY <1>1, <2>1, <2>3, OneChanges
<1>4. CASE IncorrectPop(i)
  <2>1. dialogs' = [dialogs EXCEPT ![i] = [LetGo(dialogs[i]) EXCEPT !.state = "CLOSING"]]
        /\ modals' = modals
    BY <1>4 DEF Close, IncorrectPop
  <2>2. (i \in modals) = FALSE
    BY <1>4 DEF IncorrectPop
  <2>3. Kept([LetGo(dialogs[i]) EXCEPT !.state = "CLOSING"], i \in modals')
    BY <1>1, <2>1, <2>2, LetGoKept
  <2> QED BY <1>1, <1>4, <2>1, <2>3, OneChanges
<1> QED BY <1>2, <1>3, <1>4

-----------------------------------------------------------------------------
(* The steps *)

LEMMA InitSound == Init => IInv
BY DEF Init, IInv, TypeOK, AllKept

LEMMA ShowEndSessionDialogStep == IInv /\ ShowEndSessionDialog => IInv'
BY DEF IInv, TypeOK, AllKept, ShowEndSessionDialog

LEMMA ShowStep == IInv /\ Show => IInv'
<1> SUFFICES ASSUME IInv, Show PROVE IInv'
  OBVIOUS
<1>1. Head(idle) \in Modes /\ idle' \in Seq(Modes) /\ wanted' \in {"shown", "closed"}
  BY DEF IInv, TypeOK, Show
<1>2. CASE main # None
  BY <1>1, <1>2 DEF Show, IInv, TypeOK, AllKept
<1>3. CASE main = None
  <2>1. PICK effects \in BOOLEAN, delay \in Delays :
          LET new == New(Head(idle), effects, delay)
              i == Len(dialogs) + 1
          IN  \/ /\ dialogs' = Append(dialogs, FadeOpen(new))
                 /\ main' = i
                 /\ modals' = modals \cup {i}
              \/ /\ dialogs' = Append(dialogs, LetGo(new))
                 /\ UNCHANGED <<main, modals>>
    BY <1>3 DEF Show
  <2> DEFINE new == New(Head(idle), effects, delay)
  <2>2. delay \in Nat
    BY ConstantsAssumption
  <2>3. Kept(FadeOpen(new), TRUE) /\ Kept(LetGo(new), FALSE)
    BY <1>1, <2>2, OpenedKept, RefusedKept
  <2>4. modals = {}
    BY <1>3, ConstantsAssumption DEF IInv, TypeOK
  <2> HIDE DEF new
  <2>5. CASE /\ dialogs' = Append(dialogs, FadeOpen(new))
             /\ main' = Len(dialogs) + 1 /\ modals' = modals \cup {Len(dialogs) + 1}
    BY <1>1, <1>3, <2>3, <2>4, <2>5, OneComes
  <2>6. CASE dialogs' = Append(dialogs, LetGo(new)) /\ UNCHANGED <<main, modals>>
    BY <1>1, <1>3, <2>3, <2>4, <2>6, OneComes
  <2> QED BY <2>1, <2>5, <2>6 DEF new
<1> QED BY <1>2, <1>3

LEMMA CloseEndSessionDialogStep == IInv /\ CloseEndSessionDialog => IInv'
<1> SUFFICES ASSUME IInv, CloseEndSessionDialog PROVE IInv'
  OBVIOUS
<1>1. CASE main = None
  BY <1>1 DEF CloseEndSessionDialog, IInv, TypeOK, AllKept
<1>2. CASE main # None
  <2>1. main \in DOMAIN dialogs /\ Close(main) /\ modals \subseteq {main}
    BY <1>2 DEF CloseEndSessionDialog, IInv, TypeOK
  <2> QED BY <1>2, <2>1, CloseKeeps DEF CloseEndSessionDialog
<1> QED BY <1>1, <1>2

LEMMA GetCapabilitiesStep ==
  ASSUME IInv, NEW i \in DOMAIN dialogs, GetCapabilities(i)
  PROVE  IInv'
<1> DEFINE d == dialogs[i]
<1>1. /\ Kept(d, i \in modals) /\ (i \in modals) \in BOOLEAN
      /\ idle' \in Seq(Modes) /\ wanted' \in {"shown", "closed"} /\ main' = main
  BY DEF GetCapabilities, IInv, AllKept, TypeOK
<1>2. d.caps = "asked" /\ ~d.gone
  BY DEF GetCapabilities
<1>3. CASE dialogs' = [dialogs EXCEPT ![i].caps = "answered"] /\ UNCHANGED modals
  <2>1. dialogs' = [dialogs EXCEPT ![i] = [d EXCEPT !.caps = "answered"]]
    BY <1>3
  <2>2. Kept([d EXCEPT !.caps = "answered"], i \in modals')
    BY <1>1, <1>2, <1>3 DEF Kept, Dialog, Opened
  <2> QED BY <1>1, <1>3, <2>1, <2>2, OneChanges
<1>4. CASE /\ dialogs' = [dialogs EXCEPT ![i].gone = TRUE, ![i].caps = "answered"]
           /\ modals' = modals \ {i}
  <2> DEFINE e == [d EXCEPT !.gone = TRUE]
  <2>1. dialogs' = [dialogs EXCEPT ![i] = [e EXCEPT !.caps = "answered"]]
    BY <1>4 DEF IInv, TypeOK
  <2>2. e \in Dialog /\ e.gone /\ ~e.timer /\ e.fired = 0 /\ e.time = e.delay
    BY <1>1, <1>2 DEF Kept, Dialog
  <2> HIDE DEF e
  <2>3. (i \in modals') = FALSE
    BY <1>4
  <2>4. Kept([e EXCEPT !.caps = "answered"], i \in modals')
    BY <2>2, <2>3 DEF Kept, Dialog, Opened
  <2> QED BY <1>1, <1>4, <2>1, <2>4, OneChanges
<1>5. ASSUME NEW canStop \in BOOLEAN, NEW canSuspend \in BOOLEAN, NEW toggle \in BOOLEAN,
             LET e == WithChoices(d, canStop, canSuspend)
             IN  dialogs' = [dialogs EXCEPT ![i] = IF toggle THEN AddDelayTimer(e) ELSE e],
             UNCHANGED modals
      PROVE  IInv'
  <2> DEFINE e == WithChoices(d, canStop, canSuspend)
             f == IF toggle THEN AddDelayTimer(e) ELSE e
  <2>1. Kept(e, i \in modals) /\ Kept(AddDelayTimer(e), i \in modals)
    BY <1>1, <1>2, AnsweredKept
  <2> HIDE DEF e
  <2>2. Kept(f, i \in modals')
    BY <1>5, <2>1
  <2>3. dialogs' = [dialogs EXCEPT ![i] = f]
    BY <1>5 DEF e
  <2> HIDE DEF f
  <2> QED BY <1>1, <1>5, <2>2, <2>3, OneChanges
<1> QED BY <1>3, <1>4, <1>5 DEF GetCapabilities

LEMMA InhibitorsChangedStep ==
  ASSUME IInv, NEW i \in DOMAIN dialogs, InhibitorsChanged(i)
  PROVE  IInv'
<1> DEFINE d == dialogs[i]
           a == [d EXCEPT !.inhibited = TRUE]
           b == [a EXCEPT !.suspend = FALSE]
           c == [b EXCEPT !.timer = FALSE]
           e == [c EXCEPT !.early = d.caps = "asked"]
<1>1. /\ Kept(d, i \in modals) /\ modals' = modals
      /\ idle' \in Seq(Modes) /\ wanted' \in {"shown", "closed"} /\ main' = main
  BY DEF InhibitorsChanged, IInv, AllKept, TypeOK
<1>2. dialogs' = [dialogs EXCEPT ![i] = e]
  BY DEF InhibitorsChanged, PresentInhibitorInfo, IInv, TypeOK
<1> DEFINE Like(x) == /\ x \in Dialog /\ x.caps = d.caps /\ x.state = d.state
                      /\ x.hasModal = d.hasModal /\ x.gone = d.gone /\ x.fired = d.fired
                      /\ x.time = d.time /\ x.delay = d.delay
<1>3. Like(a)
  BY <1>1 DEF Kept, Dialog
<1> HIDE DEF a
<1>4. Like(b)
  BY <1>3 DEF Dialog
<1> HIDE DEF b
<1>5. Like(c) /\ ~c.timer
  BY <1>4 DEF Dialog
<1> HIDE DEF c
<1>6. Like(e) /\ ~e.timer /\ e.early = (d.caps = "asked")
  BY <1>5 DEF Dialog
<1> HIDE DEF e
<1>7. Kept(e, i \in modals')
  BY <1>1, <1>6 DEF Kept, Opened
<1> QED BY <1>1, <1>2, <1>7, OneChanges

LEMMA TickStep ==
  ASSUME IInv, NEW i \in DOMAIN dialogs, Tick(i)
  PROVE  IInv'
<1>1. /\ Kept(dialogs[i], i \in modals) /\ dialogs[i].timer /\ modals' = modals
      /\ dialogs' = [dialogs EXCEPT ![i] = UpdateProgress(dialogs[i])]
      /\ idle' \in Seq(Modes) /\ wanted' \in {"shown", "closed"} /\ main' = main
  BY DEF Tick, IInv, AllKept, TypeOK
<1>2. (i \in modals') = TRUE
  BY <1>1 DEF Kept
<1>3. Kept(UpdateProgress(dialogs[i]), TRUE)
  BY <1>1, ProgressKept DEF Kept
<1>4. Kept(UpdateProgress(dialogs[i]), i \in modals')
  BY <1>2, <1>3
<1> QED BY <1>1, <1>4, OneChanges

LEMMA EaseDoneStep ==
  ASSUME IInv, NEW i \in DOMAIN dialogs, EaseDone(i)
  PROVE  IInv'
<1> DEFINE d == dialogs[i]
<1>1. /\ Kept(d, i \in modals) /\ modals' = modals
      /\ idle' \in Seq(Modes) /\ wanted' \in {"shown", "closed"} /\ main' = main
  BY DEF EaseDone, IInv, AllKept, TypeOK
<1>2. CASE d.state = "OPENING" /\ dialogs' = [dialogs EXCEPT ![i].state = "OPENED"]
  <2>1. Kept([d EXCEPT !.state = "OPENED"], i \in modals')
    BY <1>1, <1>2 DEF Kept, Dialog, Opened, AnsweredAtOnce
  <2>2. dialogs' = [dialogs EXCEPT ![i] = [d EXCEPT !.state = "OPENED"]]
    BY <1>2
  <2> QED BY <1>1, <2>1, <2>2, OneChanges
<1>3. CASE /\ ~d.gone /\ d.state = "CLOSING"
           /\ dialogs' = [dialogs EXCEPT ![i].state = "CLOSED", ![i].gone = TRUE]
  <2> DEFINE e == [d EXCEPT !.state = "CLOSED"]
  <2>1. i \notin modals
    BY <1>1, <1>3 DEF Kept, Opened
  <2>2. /\ e \in Dialog /\ e.caps # "asked" /\ ~e.timer
        /\ e.fired <= (IF e.delay = 0 THEN 2 ELSE 1) /\ (e.delay = 0 => e.time = 0)
    BY <1>1, <2>1 DEF Kept, Dialog
  <2>3. dialogs' = [dialogs EXCEPT ![i] = [e EXCEPT !.gone = TRUE]]
    BY <1>3 DEF IInv, TypeOK
  <2> HIDE DEF e
  <2>4. Kept([e EXCEPT !.gone = TRUE], i \in modals')
    BY <1>1, <2>1, <2>2 DEF Kept, Dialog, Opened
  <2> QED BY <1>1, <2>3, <2>4, OneChanges
<1> QED BY <1>2, <1>3 DEF EaseDone

LEMMA NextSound == IInv /\ [Next]_vars => IInv'
<1> SUFFICES ASSUME IInv, [Next]_vars PROVE IInv'
  OBVIOUS
<1>1. CASE UNCHANGED vars
  BY <1>1 DEF vars, IInv, TypeOK, AllKept
<1>2. CASE \E i \in DOMAIN dialogs : Suspend(i)
  BY <1>2, CloseKeeps DEF Suspend, IInv, TypeOK
<1>3. CASE \E i \in DOMAIN dialogs : GetCapabilities(i) \/ InhibitorsChanged(i)
                                     \/ Tick(i) \/ EaseDone(i)
  BY <1>3, GetCapabilitiesStep, InhibitorsChangedStep, TickStep, EaseDoneStep
<1>4. CASE ShowEndSessionDialog \/ Show \/ CloseEndSessionDialog
  BY <1>4, ShowEndSessionDialogStep, ShowStep, CloseEndSessionDialogStep
<1> QED BY <1>1, <1>2, <1>3, <1>4 DEF Next

-----------------------------------------------------------------------------
(* The results *)

\* The invariant that the results rest on.
LEMMA IInvAlways == Spec => []IInv
<1>1. Init => IInv
  BY InitSound
<1>2. IInv /\ [Next]_vars => IInv'
  BY NextSound
<1> QED BY <1>1, <1>2, PTL DEF Spec

\* A dialog has the modal exactly while it opens or is open, one at a time and Main's;
\* its countdown runs behind no list of inhibitors but one that came before the
\* answer to GetCapabilities, and answers once, or twice if it is of zero seconds
\* (open, close, _addDelayTimer, _updateProgress).
THEOREM DialogSoundAlways == Spec => []DialogSound
<1>1. IInv => DialogSound
  <2> SUFFICES ASSUME IInv PROVE DialogSound
    OBVIOUS
  <2>1. ModalFollowsState
    BY DEF IInv, AllKept, Kept, ModalFollowsState
  <2>2. CountdownSound
    BY DEF IInv, AllKept, Kept, CountdownSound
  <2> QED BY <2>1, <2>2 DEF DialogSound
<1> QED BY IInvAlways, <1>1, PTL
=============================================================================
