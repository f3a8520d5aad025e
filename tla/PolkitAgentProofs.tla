-------------------------- MODULE PolkitAgentProofs --------------------------
(***************************************************************************)
(* The agent's queue and dialogs are sound for any set of requests, and it *)
(* implements RequestQueue: a step of the agent does nothing to the queue, *)
(* or takes one step of it. Each operator of PolkitAgent maps a state of   *)
(* the agent to the next one, so each has a lemma: it takes a state that   *)
(* may be broken where the operator repairs it (Pre) to a sound one, and   *)
(* it is no step or one step of the queue. No step opens a dialog that is  *)
(* closed for good.                                                        *)
(***************************************************************************)
EXTENDS PolkitAgent, ListLemmas

\* The queue without duplicates holds what is scheduled; one request is current.
Queued(s) ==
    /\ \A i, j \in DOMAIN s.scheduled : s.scheduled[i] = s.scheduled[j] => i = j
    /\ \A i \in DOMAIN s.scheduled : s.status[s.scheduled[i]] = "scheduled"
    /\ \A c \in Cookies : s.status[c] = "scheduled" =>
          \E i \in DOMAIN s.scheduled : s.scheduled[i] = c
    /\ \A c \in Cookies : s.status[c] = "current" <=> c = s.current

\* A request that waits has no dialog yet; one that has closed has no session.
DialogSound(s, c) ==
    /\ s.status[c] \in {"new", "scheduled"} => s.dialog[c] = Dialog("none", FALSE)
    /\ s.dialog[c].opened /\ s.dialog[c].state = "CLOSED" => ~s.dialog[c].session
    /\ s.dialog[c].timers <= s.dialog[c].retries

DialogsSound(s) == \A c \in Cookies : DialogSound(s, c)

Base(s) == s \in AgentRec /\ Queued(s) /\ DialogsSound(s)

\* The dialog can still answer.
Ready(d) == ~d.done /\ d.state \in {"CLOSED", "OPEN"} /\ d.session /\ ~d.completed

CurrentReady(s) ==
    /\ s.currentDialog = s.current
    /\ s.current # Nobody => Ready(s.dialog[s.current])

\* What holds while the current dialog gives its answer.
Pre(s) ==
    /\ Base(s)
    /\ s.currentDialog = s.current
    /\ s.current = Nobody => s.scheduled = <<>>

Sound(s) == Pre(s) /\ CurrentReady(s)

\* A state differs from another in one dialog only.
SameButDialog(s, t, c) ==
    /\ t.scheduled = s.scheduled /\ t.current = s.current /\ t.status = s.status
    /\ t.currentDialog = s.currentDialog
    /\ \A e \in Cookies : e # c => t.dialog[e] = s.dialog[e]

LEMMA NobodyIsNoCookie == Nobody \notin Cookies /\ MAX_MODAL_RETRIES \in Nat
BY AgentAssumption

\* The dialog a request is given, and the one it has before.
LEMMA FreshDialog ==
    ASSUME NEW state \in States, NEW live \in BOOLEAN
    PROVE  Dialog(state, live) \in DialogRec
BY NobodyIsNoCookie DEF Dialog, DialogRec

\* What Base says depends on these fields only.
LEMMA BaseFields ==
    ASSUME NEW s, NEW t, Base(s), t \in AgentRec,
           t.scheduled = s.scheduled, t.current = s.current,
           t.status = s.status, t.dialog = s.dialog
    PROVE  Base(t)
<1>1. Queued(t)
  BY DEF Base, Queued
<1>2. DialogsSound(t)
  BY DEF Base, DialogsSound, DialogSound
<1> QED BY <1>1, <1>2 DEF Base

\* A change of one dialog that has been made for its request.
LEMMA DialogChange ==
    ASSUME NEW s, NEW t, NEW c \in Cookies, Base(s), t \in AgentRec,
           SameButDialog(s, t, c), DialogSound(t, c)
    PROVE  Base(t)
<1>1. Queued(t)
  BY DEF Base, Queued, SameButDialog
<1>2. ASSUME NEW e \in Cookies PROVE DialogSound(t, e)
  BY DEF Base, DialogsSound, DialogSound, SameButDialog
<1> QED BY <1>1, <1>2 DEF Base, DialogsSound

\* Taking the head of the queue leaves the others.
LEMMA TailOfQueue ==
    ASSUME NEW q \in Seq(Cookies), q # <<>>
    PROVE  /\ Head(q) \in Cookies /\ Head(q) = q[1] /\ 1 \in DOMAIN q
           /\ Tail(q) \in Seq(Cookies)
           /\ \A i \in DOMAIN Tail(q) :
                 i + 1 \in DOMAIN q /\ Tail(q)[i] = q[i + 1] /\ i + 1 # 1
           /\ \A i \in DOMAIN q : i # 1 =>
                 i - 1 \in DOMAIN Tail(q) /\ Tail(q)[i - 1] = q[i]
OBVIOUS

\* maybe_process_next_request makes the head current, with a dialog that is ready.
LEMMA MaybeProcessNextSound ==
    ASSUME NEW s, Base(s), CurrentReady(s)
    PROVE  Sound(MaybeProcessNext(s))
<1> DEFINE t == MaybeProcessNext(s)
           c == Head(s.scheduled)
<1> SUFFICES Sound(t)
  OBVIOUS
<1>1. CASE s.current # Nobody \/ s.scheduled = <<>>
  BY <1>1 DEF MaybeProcessNext, Sound, Pre, CurrentReady
<1>2. CASE s.current = Nobody /\ s.scheduled # <<>>
  <2>0. s \in AgentRec /\ s.scheduled \in Seq(Cookies)
    BY DEF Base, AgentRec
  <2>1. /\ c \in Cookies /\ c = s.scheduled[1] /\ 1 \in DOMAIN s.scheduled
        /\ Tail(s.scheduled) \in Seq(Cookies)
        /\ \A i \in DOMAIN Tail(s.scheduled) :
              /\ i + 1 \in DOMAIN s.scheduled /\ i + 1 # 1
              /\ Tail(s.scheduled)[i] = s.scheduled[i + 1]
        /\ \A i \in DOMAIN s.scheduled : i # 1 =>
              i - 1 \in DOMAIN Tail(s.scheduled) /\ Tail(s.scheduled)[i - 1] = s.scheduled[i]
    BY <1>2, <2>0, TailOfQueue
  <2>2. t = [s EXCEPT !.current = c, !.scheduled = Tail(s.scheduled),
                      !.status = [s.status EXCEPT ![c] = "current"],
                      !.currentDialog = c,
                      !.dialog = [s.dialog EXCEPT ![c] = Dialog("CLOSED", TRUE)]]
    BY <1>2, <2>0, <2>1 DEF MaybeProcessNext, OnInitiate, AgentRec
  <2>3. /\ t.scheduled = Tail(s.scheduled) /\ t.current = c /\ t.currentDialog = c
        /\ t.status = [s.status EXCEPT ![c] = "current"]
        /\ t.dialog = [s.dialog EXCEPT ![c] = Dialog("CLOSED", TRUE)]
    BY <2>0, <2>2 DEF AgentRec
  <2>4. t \in AgentRec
    <3>1. Dialog("CLOSED", TRUE) \in DialogRec
      BY FreshDialog DEF States
    <3>2. [s.dialog EXCEPT ![c] = Dialog("CLOSED", TRUE)] \in [Cookies -> DialogRec]
      BY <2>0, <3>1 DEF AgentRec
    <3>3. [s.status EXCEPT ![c] = "current"] \in
             [Cookies -> {"new", "scheduled", "current", "answered", "dismissed"}]
      BY <2>0 DEF AgentRec
    <3> HIDE DEF c
    <3> QED BY <2>0, <2>1, <2>2, <3>2, <3>3 DEF AgentRec
  <2> HIDE DEF t, c
  <2>5. /\ t.status[c] = "current" /\ t.dialog[c] = Dialog("CLOSED", TRUE)
        /\ \A e \in Cookies : e # c =>
              t.status[e] = s.status[e] /\ t.dialog[e] = s.dialog[e]
    BY <2>0, <2>1, <2>3 DEF AgentRec
  <2>6. Queued(t)
    <3>1. \A i, j \in DOMAIN t.scheduled : t.scheduled[i] = t.scheduled[j] => i = j
      <4>1. \A i, j \in DOMAIN s.scheduled : s.scheduled[i] = s.scheduled[j] => i = j
        BY DEF Base, Queued
      <4> QED BY <2>0, <2>1, <2>3, <4>1
    <3>2. ASSUME NEW i \in DOMAIN t.scheduled
          PROVE  t.status[t.scheduled[i]] = "scheduled"
      <4>1. i + 1 \in DOMAIN s.scheduled /\ t.scheduled[i] = s.scheduled[i + 1] /\ i + 1 # 1
        BY <2>1, <2>3
      <4>2. s.scheduled[i + 1] # c /\ s.scheduled[i + 1] \in Cookies
        BY <2>0, <2>1, <4>1 DEF Base, Queued
      <4>3. s.status[s.scheduled[i + 1]] = "scheduled"
        BY <4>1 DEF Base, Queued
      <4> QED BY <2>5, <4>1, <4>2, <4>3
    <3>3. ASSUME NEW e \in Cookies, t.status[e] = "scheduled"
          PROVE  \E i \in DOMAIN t.scheduled : t.scheduled[i] = e
      <4>1. e # c /\ s.status[e] = "scheduled"
        BY <2>5, <3>3
      <4>2. PICK i \in DOMAIN s.scheduled : s.scheduled[i] = e
        BY <4>1 DEF Base, Queued
      <4>3. i # 1
        BY <2>1, <4>1, <4>2
      <4> QED BY <2>1, <2>3, <4>2, <4>3
    <3>4. \A e \in Cookies : t.status[e] = "current" <=> e = t.current
      BY <1>2, <2>1, <2>3, <2>5, NobodyIsNoCookie DEF Base, Queued
    <3> QED BY <3>1, <3>2, <3>3, <3>4 DEF Queued
  <2>7. ASSUME NEW e \in Cookies PROVE DialogSound(t, e)
    BY <2>5 DEF Base, DialogsSound, DialogSound, Dialog
  <2>8. Ready(t.dialog[c])
    BY <2>5 DEF Ready, Dialog
  <2> QED BY <2>1, <2>3, <2>4, <2>6, <2>7, <2>8, NobodyIsNoCookie
          DEF Sound, Pre, Base, DialogsSound, CurrentReady
<1> QED BY <1>1, <1>2

AnswerOf(dismissed) == IF dismissed THEN "dismissed" ELSE "answered"

\* The state when a current request has its answer, before the next one is served.
Answer(s, c, dismissed) ==
    [s EXCEPT !.status = [s.status EXCEPT ![c] = AnswerOf(dismissed)], !.current = Nobody]

LEMMA AnswerBase ==
    ASSUME NEW s, Base(s), s.current # Nobody, NEW dismissed \in BOOLEAN
    PROVE  LET t == Answer(s, s.current, dismissed)
           IN  /\ Base(t)
               /\ t.scheduled = s.scheduled /\ t.current = Nobody
               /\ t.currentDialog = s.currentDialog /\ t.dialog = s.dialog
               /\ t.status = [s.status EXCEPT ![s.current] = AnswerOf(dismissed)]
<1> DEFINE c == s.current
           answer == AnswerOf(dismissed)
           t == Answer(s, c, dismissed)
<1>0. s \in AgentRec /\ c \in Cookies
  BY DEF Base, AgentRec
<1>1. answer \in {"answered", "dismissed"}
  BY DEF AnswerOf
<1> HIDE DEF answer
<1>2. /\ t.scheduled = s.scheduled /\ t.current = Nobody
      /\ t.currentDialog = s.currentDialog
      /\ t.dialog = s.dialog /\ t.status = [s.status EXCEPT ![c] = answer]
      /\ t \in AgentRec
  <2>1. [s.status EXCEPT ![c] = answer] \in
           [Cookies -> {"new", "scheduled", "current", "answered", "dismissed"}]
    BY <1>0, <1>1 DEF AgentRec
  <2> HIDE DEF c
  <2> QED BY <1>0, <2>1 DEF AgentRec, Answer, answer
<1>3. t.status[c] = answer /\ \A e \in Cookies : e # c => t.status[e] = s.status[e]
  BY <1>0, <1>2 DEF AgentRec
<1>4. s.status[c] = "current"
  BY <1>0 DEF Base, Queued
<1> HIDE DEF t, c
<1>5. Queued(t)
  <2>1. \A i \in DOMAIN s.scheduled : s.scheduled[i] \in Cookies /\ s.scheduled[i] # c
    BY <1>0, <1>4 DEF Base, AgentRec, Queued
  <2>2. \A e \in Cookies : t.status[e] = "current" <=> e = t.current
    BY <1>1, <1>2, <1>3, NobodyIsNoCookie DEF Base, Queued, c
  <2> QED BY <1>1, <1>2, <1>3, <2>1, <2>2 DEF Base, Queued
<1>6. DialogsSound(t)
  BY <1>1, <1>2, <1>3 DEF Base, DialogsSound, DialogSound
<1> QED BY <1>2, <1>5, <1>6 DEF Base, t, c, answer

\* The current request is answered, and the next one becomes current.
LEMMA AnswerCurrentSound ==
    ASSUME NEW s, Base(s), s.current # Nobody, s.currentDialog = Nobody,
           NEW dismissed \in BOOLEAN
    PROVE  Sound(AuthRequestComplete(s, s.current, dismissed))
<1> DEFINE t == Answer(s, s.current, dismissed)
<1>1. AuthRequestComplete(s, s.current, dismissed) = MaybeProcessNext(t)
  BY DEF AuthRequestComplete, Answer, AnswerOf
<1>2. Base(t) /\ CurrentReady(t)
  BY AnswerBase DEF CurrentReady
<1> QED BY <1>1, <1>2, MaybeProcessNextSound

\* The state with another dialog for c.
SetDialog(s, c, d) == [s EXCEPT !.dialog = [s.dialog EXCEPT ![c] = d]]

LEMMA SetDialogFields ==
    ASSUME NEW s \in AgentRec, NEW c \in Cookies, NEW d \in DialogRec
    PROVE  /\ SetDialog(s, c, d) \in AgentRec
           /\ SameButDialog(s, SetDialog(s, c, d), c)
           /\ SetDialog(s, c, d).dialog[c] = d
<1>1. [s.dialog EXCEPT ![c] = d] \in [Cookies -> DialogRec]
  BY DEF AgentRec
<1>2. SetDialog(s, c, d) \in AgentRec
  BY <1>1 DEF AgentRec, SetDialog
<1>3. SameButDialog(s, SetDialog(s, c, d), c) /\ SetDialog(s, c, d).dialog[c] = d
  BY DEF AgentRec, SetDialog, SameButDialog
<1> QED BY <1>2, <1>3

\* What every dialog keeps, for one that has been made for its request.
Lawful(d) ==
    /\ d \in DialogRec
    /\ d.opened /\ d.state = "CLOSED" => ~d.session
    /\ d.timers <= d.retries

LEMMA PreSetDialog ==
    ASSUME NEW s, Pre(s), NEW c \in Cookies, NEW d, Lawful(d),
           s.status[c] \notin {"new", "scheduled"}
    PROVE  Pre(SetDialog(s, c, d)) /\ SameButDialog(s, SetDialog(s, c, d), c)
<1> DEFINE t == SetDialog(s, c, d)
<1>1. t \in AgentRec /\ SameButDialog(s, t, c) /\ t.dialog[c] = d
  BY SetDialogFields DEF Pre, Base, Lawful
<1> HIDE DEF t
<1>2. DialogSound(t, c)
  BY <1>1 DEF DialogSound, Lawful, SameButDialog
<1>3. Base(t)
  BY <1>1, <1>2, DialogChange DEF Pre
<1> QED BY <1>1, <1>3 DEF Pre, SameButDialog, t

\* A sound state stays sound when the dialog of its current request stays ready.
LEMMA SoundSetDialog ==
    ASSUME NEW s, Sound(s), NEW c \in Cookies, NEW d, Lawful(d),
           s.status[c] \notin {"new", "scheduled"},
           c = s.current => Ready(d)
    PROVE  Sound(SetDialog(s, c, d))
<1> DEFINE t == SetDialog(s, c, d)
<1>1. Pre(t) /\ SameButDialog(s, t, c)
  BY PreSetDialog DEF Sound
<1>2. t.dialog[c] = d
  BY SetDialogFields DEF Sound, Pre, Base, Lawful
<1> HIDE DEF t
<1>3. s.current \in Cookies \cup {Nobody}
  BY DEF Sound, Pre, Base, AgentRec
<1>4. CurrentReady(t)
  BY <1>1, <1>2, <1>3 DEF Sound, CurrentReady, SameButDialog
<1> QED BY <1>1, <1>4 DEF Sound, t

\* ModalDialog.close keeps what every dialog keeps.
LEMMA CloseBase ==
    ASSUME NEW s, Base(s), NEW c \in Cookies
    PROVE  /\ Base(Close(s, c))
           /\ SameButDialog(s, Close(s, c), c)
<1> DEFINE t == Close(s, c)
           d == [s.dialog[c] EXCEPT !.state = "CLOSING"]
<1>0. s \in AgentRec /\ s.dialog[c] \in DialogRec
  BY DEF Base, AgentRec
<1>1. CASE s.dialog[c].state = "OPEN"
  <2>1. t = [s EXCEPT !.dialog = [s.dialog EXCEPT ![c] = d]]
    BY <1>0, <1>1 DEF Close, AgentRec
  <2>2. d \in DialogRec
    BY <1>0 DEF DialogRec, States
  <2>3. /\ d.opened = s.dialog[c].opened /\ d.state = "CLOSING"
        /\ d.timers = s.dialog[c].timers /\ d.retries = s.dialog[c].retries
    BY <1>0 DEF DialogRec
  <2> HIDE DEF d
  <2>4. t \in AgentRec
    <3>1. [s.dialog EXCEPT ![c] = d] \in [Cookies -> DialogRec]
      BY <1>0, <2>2 DEF AgentRec
    <3> QED BY <1>0, <2>1, <3>1 DEF AgentRec
  <2>5. SameButDialog(s, t, c) /\ t.dialog[c] = d
    BY <1>0, <2>1 DEF AgentRec, SameButDialog
  <2>6. s.status[c] \notin {"new", "scheduled"}
    BY <1>1 DEF Base, DialogsSound, DialogSound, Dialog
  <2> HIDE DEF t
  <2>7. DialogSound(t, c)
    BY <2>3, <2>5, <2>6 DEF Base, DialogsSound, DialogSound, SameButDialog
  <2>8. Base(t)
    BY <2>4, <2>5, <2>7, DialogChange
  <2> QED BY <2>5, <2>8 DEF t
<1>2. CASE s.dialog[c].state # "OPEN"
  BY <1>2 DEF Close, SameButDialog
<1> QED BY <1>1, <1>2

\* _completeRequest closes the current dialog and answers its request.
LEMMA CompleteRequestSound ==
    ASSUME NEW s, Pre(s), NEW dismissed \in BOOLEAN
    PROVE  Sound(CompleteRequest(s, dismissed))
<1>1. CASE s.currentDialog = Nobody
  BY <1>1 DEF CompleteRequest, Pre, Sound, CurrentReady
<1>2. CASE s.currentDialog # Nobody
  <2> DEFINE c == s.current
             u == Close(s, c)
             t == [u EXCEPT !.currentDialog = Nobody]
  <2>0. c \in Cookies /\ c = s.currentDialog
    BY <1>2 DEF Pre, Base, AgentRec
  <2>1. CompleteRequest(s, dismissed) = AuthRequestComplete(t, c, dismissed)
    BY <1>2, <2>0 DEF CompleteRequest
  <2>2. Base(u) /\ SameButDialog(s, u, c)
    BY <2>0, CloseBase DEF Pre
  <2>3. /\ t.scheduled = u.scheduled /\ t.current = c /\ t.currentDialog = Nobody
        /\ t.dialog = u.dialog /\ t.status = u.status /\ t \in AgentRec
    <3>1. u \in AgentRec /\ u.current = c
      BY <2>2 DEF Base, SameButDialog
    <3> HIDE DEF u, c
    <3> QED BY <3>1 DEF AgentRec
  <2> HIDE DEF t, u
  <2>4. Base(t)
    <3>1. u.current = c
      BY <2>2 DEF SameButDialog
    <3> QED BY <2>2, <2>3, <3>1, BaseFields
  <2>5. t.current # Nobody
    BY <1>2, <2>0, <2>3
  <2> HIDE DEF c
  <2>6. Sound(AuthRequestComplete(t, t.current, dismissed))
    BY <2>3, <2>4, <2>5, AnswerCurrentSound
  <2> QED BY <2>1, <2>3, <2>6
<1> QED BY <1>1, <1>2
\* _emitDone answers the current request, unless its dialog has done so before.
LEMMA EmitDoneSound ==
    ASSUME NEW s, Pre(s), NEW c \in Cookies, NEW dismissed \in BOOLEAN,
           s.status[c] \notin {"new", "scheduled"},
           s.dialog[c].done => CurrentReady(s)
    PROVE  Sound(EmitDone(s, c, dismissed))
<1>0. s \in AgentRec /\ s.dialog[c] \in DialogRec /\ s.dialog[c].done \in BOOLEAN
  BY DEF Pre, Base, AgentRec, DialogRec
<1>1. CASE s.dialog[c].done
  BY <1>1 DEF EmitDone, Sound
<1>2. CASE ~s.dialog[c].done
  <2> DEFINE d == [s.dialog[c] EXCEPT !.done = TRUE]
             t == [s EXCEPT !.dialog[c].done = TRUE]
  <2>1. t = SetDialog(s, c, d)
    BY <1>0 DEF SetDialog, AgentRec
  <2>2. Lawful(d)
    BY <1>0 DEF Pre, Base, DialogsSound, DialogSound, Lawful, DialogRec
  <2>3. EmitDone(s, c, dismissed) = CompleteRequest(t, dismissed)
    BY <1>2 DEF EmitDone
  <2> HIDE DEF d, t
  <2>4. Pre(t)
    BY <2>1, <2>2, PreSetDialog
  <2> QED BY <2>3, <2>4, CompleteRequestSound
<1> QED BY <1>0, <1>1, <1>2

\* g_list_remove takes out one position of the queue.
LEMMA ListRemoveIsWithout ==
    ASSUME NEW q \in Seq(Cookies), NEW c \in Cookies, NEW j \in DOMAIN q, q[j] = c
    PROVE  \E i \in DOMAIN q : q[i] = c /\ ListRemove(q, c) = Without(q, i)
<1> DEFINE i == CHOOSE i \in DOMAIN q : q[i] = c
<1>1. i \in DOMAIN q /\ q[i] = c
  OBVIOUS
<1>2. ListRemove(q, c) = Without(q, i)
  BY DEF ListRemove, RemoveAt, Without
<1> QED BY <1>1, <1>2

\* A request that waits is answered without being served.
LEMMA WithdrawSound ==
    ASSUME NEW s, Sound(s), NEW c \in Cookies, s.status[c] = "scheduled",
           NEW dismissed \in BOOLEAN
    PROVE  Sound(AuthRequestComplete(s, c, dismissed))
<1> DEFINE q == s.scheduled
           answer == IF dismissed THEN "dismissed" ELSE "answered"
           status == [s.status EXCEPT ![c] = answer]
           t == [s EXCEPT !.status = status, !.scheduled = ListRemove(q, c)]
<1>0. s \in AgentRec /\ q \in Seq(Cookies)
  BY DEF Sound, Pre, Base, AgentRec
<1>1. s.current # c
  BY DEF Sound, Pre, Base, Queued
<1>2. AuthRequestComplete(s, c, dismissed) = t
  BY <1>0, <1>1 DEF AuthRequestComplete, AgentRec
<1>3. PICK i \in DOMAIN q : q[i] = c /\ ListRemove(q, c) = Without(q, i)
  <2>1. PICK j \in DOMAIN q : q[j] = c
    BY DEF Sound, Pre, Base, Queued
  <2> QED BY <1>0, <2>1, ListRemoveIsWithout
<1> DEFINE r == Without(q, i)
<1>4. /\ r \in Seq(Cookies)
      /\ \A k \in DOMAIN r : Skip(i, k) \in DOMAIN q /\ Skip(i, k) # i /\ r[k] = q[Skip(i, k)]
      /\ \A k, l \in DOMAIN r : Skip(i, k) = Skip(i, l) => k = l
      /\ \A m \in DOMAIN q : m # i => \E k \in DOMAIN r : Skip(i, k) = m
  BY <1>0, WithoutPositions
<1>5. answer \in {"dismissed", "answered"}
  OBVIOUS
<1> HIDE DEF r, answer
<1>6. status \in [Cookies -> {"new", "scheduled", "current", "answered", "dismissed"}]
  BY <1>0, <1>5 DEF AgentRec
<1>7. status[c] = answer /\ \A e \in Cookies : e # c => status[e] = s.status[e]
  BY <1>0 DEF AgentRec
<1> HIDE DEF status, q
<1>8. /\ t \in AgentRec /\ t.scheduled = r /\ t.status = status
      /\ t.current = s.current /\ t.currentDialog = s.currentDialog /\ t.dialog = s.dialog
  BY <1>0, <1>3, <1>4, <1>6 DEF AgentRec, r
<1> HIDE DEF t
<1>9. Queued(t)
  <2>1. \A k, l \in DOMAIN q : q[k] = q[l] => k = l
    BY DEF Sound, Pre, Base, Queued, q
  <2>2. \A k, l \in DOMAIN t.scheduled : t.scheduled[k] = t.scheduled[l] => k = l
    BY <1>4, <1>8, <2>1
  <2>3. ASSUME NEW k \in DOMAIN t.scheduled
        PROVE  t.status[t.scheduled[k]] = "scheduled"
    <3>1. Skip(i, k) \in DOMAIN q /\ Skip(i, k) # i /\ t.scheduled[k] = q[Skip(i, k)]
      BY <1>4, <1>8
    <3>2. q[Skip(i, k)] # c /\ q[Skip(i, k)] \in Cookies
      BY <1>0, <1>3, <2>1, <3>1
    <3>3. s.status[q[Skip(i, k)]] = "scheduled"
      BY <3>1 DEF Sound, Pre, Base, Queued, q
    <3> QED BY <1>7, <1>8, <3>1, <3>2, <3>3
  <2>4. ASSUME NEW e \in Cookies, t.status[e] = "scheduled"
        PROVE  \E k \in DOMAIN t.scheduled : t.scheduled[k] = e
    <3>1. e # c /\ s.status[e] = "scheduled"
      BY <1>5, <1>7, <1>8, <2>4
    <3>2. PICK m \in DOMAIN q : q[m] = e
      BY <3>1 DEF Sound, Pre, Base, Queued, q
    <3>3. PICK k \in DOMAIN r : Skip(i, k) = m
      BY <1>3, <1>4, <3>1, <3>2
    <3> QED BY <1>4, <1>8, <3>2, <3>3
  <2>5. \A e \in Cookies : t.status[e] = "current" <=> e = t.current
    BY <1>1, <1>5, <1>7, <1>8 DEF Sound, Pre, Base, Queued
  <2> QED BY <2>2, <2>3, <2>4, <2>5 DEF Queued
<1>10. DialogsSound(t)
  BY <1>5, <1>7, <1>8 DEF Sound, Pre, Base, DialogsSound, DialogSound
<1>11. t.current # Nobody
  BY <1>0, <1>3, <1>8 DEF Sound, Pre, q
<1> QED BY <1>2, <1>8, <1>9, <1>10, <1>11 DEF Sound, Pre, Base, CurrentReady

-----------------------------------------------------------------------------
(* The steps *)

\* A dialog that exists has been made for a request that is not waiting.
LEMMA HasDialog ==
    ASSUME NEW s, Base(s), NEW c \in Cookies,
           \/ s.dialog[c].session \/ s.dialog[c].state # "none" \/ s.dialog[c].timers > 0
    PROVE  s.status[c] \notin {"new", "scheduled"}
BY DEF Base, DialogsSound, DialogSound, Dialog

LEMMA CancelSound ==
    ASSUME NEW s, Sound(s), NEW c \in Cookies, s.status[c] \in {"scheduled", "current"}
    PROVE  Sound(Cancel(s, c))
<1>1. CASE s.current = c
  BY <1>1, CompleteRequestSound DEF Cancel, Sound
<1>2. CASE s.current # c
  <2>1. s.status[c] = "scheduled"
    BY <1>2 DEF Sound, Pre, Base, Queued
  <2> QED BY <1>2, <2>1, WithdrawSound DEF Cancel
<1> QED BY <1>1, <1>2

LEMMA OpensSound ==
    ASSUME NEW s, Sound(s), NEW c \in Cookies, s.status[c] \notin {"new", "scheduled"}
    PROVE  Sound(Opens(s, c))
<1> DEFINE d == [s.dialog[c] EXCEPT !.state = "OPEN", !.opened = TRUE]
<1>0. s \in AgentRec /\ s.dialog[c] \in DialogRec
  BY DEF Sound, Pre, Base, AgentRec
<1>1. CASE s.dialog[c].state = "OPEN"
  BY <1>1 DEF Opens
<1>2. CASE s.dialog[c].state # "OPEN"
  <2>1. Opens(s, c) = SetDialog(s, c, d)
    BY <1>0, <1>2 DEF Opens, SetDialog, AgentRec, DialogRec
  <2>2. Lawful(d)
    BY <1>0 DEF Sound, Pre, Base, DialogsSound, DialogSound, Lawful, DialogRec, States
  <2>3. c = s.current => Ready(d)
    BY <1>0, NobodyIsNoCookie DEF Sound, CurrentReady, Ready, DialogRec
  <2> QED BY <2>1, <2>2, <2>3, SoundSetDialog
<1> QED BY <1>1, <1>2

LEMMA RefusedSound ==
    ASSUME NEW s, Sound(s), NEW c \in Cookies, s.status[c] \notin {"new", "scheduled"}
    PROVE  Sound(Refused(s, c))
<1> DEFINE d == [s.dialog[c] EXCEPT !.retries = @ + 1, !.timers = @ + 1]
<1>0. s \in AgentRec /\ s.dialog[c] \in DialogRec
  BY DEF Sound, Pre, Base, AgentRec
<1>1. CASE MayRetry(s, c)
  <2>1. Refused(s, c) = SetDialog(s, c, d)
    BY <1>0, <1>1 DEF Refused, SetDialog, AgentRec, DialogRec
  <2>2. s.dialog[c].timers <= s.dialog[c].retries
    BY DEF Sound, Pre, Base, DialogsSound, DialogSound
  <2>3. Lawful(d)
    <3>1. /\ s.dialog[c].retries + 1 \in 0 .. MAX_MODAL_RETRIES
          /\ s.dialog[c].timers + 1 \in 0 .. MAX_MODAL_RETRIES
          /\ s.dialog[c].timers + 1 <= s.dialog[c].retries + 1
      BY <1>0, <1>1, <2>2, NobodyIsNoCookie DEF MayRetry, DialogRec
    <3>2. d \in DialogRec
      BY <1>0, <3>1 DEF DialogRec
    <3>3. /\ d.opened = s.dialog[c].opened /\ d.state = s.dialog[c].state
          /\ d.session = s.dialog[c].session
          /\ d.timers = s.dialog[c].timers + 1 /\ d.retries = s.dialog[c].retries + 1
      BY <1>0 DEF DialogRec
    <3> HIDE DEF d
    <3> QED BY <3>1, <3>2, <3>3 DEF Sound, Pre, Base, DialogsSound, DialogSound, Lawful
  <2>4. c = s.current => Ready(d)
    BY <1>0, NobodyIsNoCookie DEF Sound, CurrentReady, Ready, DialogRec
  <2> QED BY <2>1, <2>3, <2>4, SoundSetDialog
<1>2. CASE ~MayRetry(s, c)
  BY <1>2, EmitDoneSound DEF Refused, Sound
<1> QED BY <1>1, <1>2

LEMMA EnsureOpenSound ==
    ASSUME NEW s, Sound(s), NEW c \in Cookies, s.status[c] \notin {"new", "scheduled"},
           EnsureOpen(s, c)
    PROVE  Sound(agent')
BY OpensSound, RefusedSound DEF EnsureOpen

\* A request that arrives is queued, and served at once if nobody is.
LEMMA InitiateSound ==
    ASSUME NEW c \in Cookies, Sound(agent), InitiateAuthentication(c)
    PROVE  Sound(agent')
<1> DEFINE s == agent
           q == agent.scheduled
           status == [agent.status EXCEPT ![c] = "scheduled"]
           t == [agent EXCEPT !.status = status, !.scheduled = Append(q, c)]
<1>0. agent \in AgentRec /\ q \in Seq(Cookies) /\ agent.status[c] = "new"
  BY DEF Sound, Pre, Base, AgentRec, InitiateAuthentication
<1>1. agent' = MaybeProcessNext(t)
  BY <1>0 DEF InitiateAuthentication, AgentRec
<1>2. status[c] = "scheduled" /\ \A e \in Cookies : e # c => status[e] = agent.status[e]
  BY <1>0 DEF AgentRec
<1>3. status \in [Cookies -> {"new", "scheduled", "current", "answered", "dismissed"}]
  BY <1>0 DEF AgentRec
<1>a. Append(q, c) \in Seq(Cookies)
  BY <1>0
<1> HIDE DEF status, q
<1>4. /\ t \in AgentRec /\ t.scheduled = Append(q, c) /\ t.status = status
      /\ t.current = agent.current /\ t.currentDialog = agent.currentDialog
      /\ t.dialog = agent.dialog
  BY <1>0, <1>3, <1>a DEF AgentRec
<1>5. /\ \A i \in DOMAIN q : i \in DOMAIN Append(q, c) /\ Append(q, c)[i] = q[i]
      /\ Len(q) + 1 \in DOMAIN Append(q, c) /\ Append(q, c)[Len(q) + 1] = c
      /\ \A i \in DOMAIN Append(q, c) : i = Len(q) + 1 \/ i \in DOMAIN q
  BY <1>0
<1> HIDE DEF t
<1>6. Queued(t)
  <2>1. /\ \A i, j \in DOMAIN q : q[i] = q[j] => i = j
        /\ \A i \in DOMAIN q : agent.status[q[i]] = "scheduled"
        /\ \A e \in Cookies : agent.status[e] = "scheduled" => \E i \in DOMAIN q : q[i] = e
        /\ \A e \in Cookies : agent.status[e] = "current" <=> e = agent.current
    BY DEF Sound, Pre, Base, Queued, q
  <2>2. \A i \in DOMAIN q : q[i] \in Cookies /\ q[i] # c
    BY <1>0, <2>1
  <2>3. \A i, j \in DOMAIN t.scheduled : t.scheduled[i] = t.scheduled[j] => i = j
    BY <1>4, <1>5, <2>1, <2>2
  <2>4. \A i \in DOMAIN t.scheduled : t.status[t.scheduled[i]] = "scheduled"
    BY <1>2, <1>4, <1>5, <2>1, <2>2
  <2>5. \A e \in Cookies : t.status[e] = "scheduled" =>
           \E i \in DOMAIN t.scheduled : t.scheduled[i] = e
    BY <1>2, <1>4, <1>5, <2>1
  <2>6. \A e \in Cookies : t.status[e] = "current" <=> e = t.current
    BY <1>0, <1>2, <1>4, <2>1
  <2> QED BY <2>3, <2>4, <2>5, <2>6 DEF Queued
<1>7. DialogsSound(t)
  BY <1>0, <1>2, <1>4 DEF Sound, Pre, Base, DialogsSound, DialogSound
<1>8. CurrentReady(t)
  BY <1>4 DEF Sound, CurrentReady
<1> QED BY <1>1, <1>4, <1>6, <1>7, <1>8, MaybeProcessNextSound DEF Base

\* _destroySession changes a dialog that was changed before.
LEMMA DestroySessionSet ==
    ASSUME NEW s \in AgentRec, NEW c \in Cookies, NEW d \in DialogRec
    PROVE  LET f == [d EXCEPT !.session = FALSE, !.completed = FALSE]
           IN  DestroySession(SetDialog(s, c, d), c) = SetDialog(s, c, f) /\ f \in DialogRec
<1> DEFINE f == [d EXCEPT !.session = FALSE, !.completed = FALSE]
<1>1. f \in DialogRec
  BY DEF DialogRec
<1>2. DestroySession(SetDialog(s, c, d), c) = SetDialog(s, c, f)
  BY DEF DestroySession, SetDialog, AgentRec, DialogRec
<1> QED BY <1>1, <1>2

LEMMA PerformAuthenticationSet ==
    ASSUME NEW s \in AgentRec, NEW c \in Cookies, NEW d \in DialogRec
    PROVE  PerformAuthentication(SetDialog(s, c, d), c)
              = SetDialog(s, c, [d EXCEPT !.session = TRUE, !.completed = FALSE])
<1> DEFINE f == [d EXCEPT !.session = FALSE, !.completed = FALSE]
<1>1. DestroySession(SetDialog(s, c, d), c) = SetDialog(s, c, f) /\ f \in DialogRec
  BY DestroySessionSet
<1>2. [f EXCEPT !.session = TRUE] = [d EXCEPT !.session = TRUE, !.completed = FALSE]
  BY DEF DialogRec
<1> HIDE DEF f
<1>3. [SetDialog(s, c, f) EXCEPT !.dialog[c].session = TRUE]
         = SetDialog(s, c, [f EXCEPT !.session = TRUE])
  BY <1>1 DEF SetDialog, AgentRec
<1> QED BY <1>1, <1>2, <1>3 DEF PerformAuthentication

\* The session ends, or begins anew.
LEMMA SessionCompletesSound ==
    ASSUME NEW c \in Cookies, NEW gained \in BOOLEAN, Sound(agent), SessionCompletes(c, gained)
    PROVE  Sound(agent')
<1> DEFINE s == agent
           d == [s.dialog[c] EXCEPT !.completed = TRUE]
           e == [s.dialog[c] EXCEPT !.session = TRUE, !.completed = FALSE]
           u == [s EXCEPT !.dialog[c].completed = TRUE]
<1>0. /\ s \in AgentRec /\ s.dialog[c] \in DialogRec
      /\ s.dialog[c].session /\ ~s.dialog[c].done
  BY DEF Sound, Pre, Base, AgentRec, SessionCompletes
<1>1. s.status[c] \notin {"new", "scheduled"}
  BY <1>0, HasDialog DEF Sound, Pre
<1>2. CASE gained
  <2>1. u = SetDialog(s, c, d)
    BY <1>0 DEF SetDialog, AgentRec
  <2>2. Lawful(d) /\ ~d.done
    BY <1>0 DEF Sound, Pre, Base, DialogsSound, DialogSound, Lawful, DialogRec
  <2>3. agent' = EmitDone(u, c, FALSE)
    BY <1>2 DEF SessionCompletes
  <2> HIDE DEF d
  <2> HIDE DEF u
  <2>4. Pre(u) /\ u.status = s.status /\ u.dialog[c] = d
    <3>1. Pre(u) /\ SameButDialog(s, u, c)
      BY <1>1, <2>1, <2>2, PreSetDialog DEF Sound
    <3>2. u.dialog[c] = d
      BY <1>0, <2>1, <2>2, SetDialogFields DEF Lawful
    <3> QED BY <3>1, <3>2 DEF SameButDialog
  <2> QED BY <1>1, <2>2, <2>3, <2>4, EmitDoneSound
<1>3. CASE ~gained
  <2>1. agent' = SetDialog(s, c, e)
    <3>1. agent' = PerformAuthentication(u, c)
      BY <1>3 DEF SessionCompletes
    <3>2. u = SetDialog(s, c, d) /\ d \in DialogRec
      BY <1>0 DEF SetDialog, AgentRec, DialogRec
    <3>3. e = [d EXCEPT !.session = TRUE, !.completed = FALSE]
      BY <1>0 DEF DialogRec
    <3> HIDE DEF d, e, u
    <3> QED BY <1>0, <3>1, <3>2, <3>3, PerformAuthenticationSet
  <2>2. Lawful(e)
    BY <1>0 DEF Sound, Pre, Base, DialogsSound, DialogSound, Lawful, DialogRec
  <2>3. c = s.current => Ready(e)
    BY <1>0, NobodyIsNoCookie DEF Sound, CurrentReady, Ready, DialogRec
  <2> QED BY <1>1, <2>1, <2>2, <2>3, SoundSetDialog
<1> QED BY <1>2, <1>3

LEMMA RetryFiresSound ==
    ASSUME NEW c \in Cookies, Sound(agent), RetryFires(c)
    PROVE  Sound(agent')
<1> DEFINE s == agent
           d == [s.dialog[c] EXCEPT !.timers = @ - 1]
           u == [s EXCEPT !.dialog[c].timers = @ - 1]
<1>0. s \in AgentRec /\ s.dialog[c] \in DialogRec /\ s.dialog[c].timers > 0
  BY DEF Sound, Pre, Base, AgentRec, RetryFires
<1>1. s.status[c] \notin {"new", "scheduled"}
  BY <1>0, HasDialog DEF Sound, Pre
<1>2. u = SetDialog(s, c, d)
  BY <1>0 DEF SetDialog, AgentRec
<1>3. s.dialog[c].timers <= s.dialog[c].retries
  BY DEF Sound, Pre, Base, DialogsSound, DialogSound
<1>4. Lawful(d)
  <2>1. /\ s.dialog[c].timers - 1 \in 0 .. MAX_MODAL_RETRIES
        /\ s.dialog[c].timers - 1 <= s.dialog[c].retries
    BY <1>0, <1>3, NobodyIsNoCookie DEF DialogRec
  <2>2. d \in DialogRec
    BY <1>0, <2>1 DEF DialogRec
  <2>3. /\ d.opened = s.dialog[c].opened /\ d.state = s.dialog[c].state
        /\ d.session = s.dialog[c].session
        /\ d.timers = s.dialog[c].timers - 1 /\ d.retries = s.dialog[c].retries
    BY <1>0 DEF DialogRec
  <2> HIDE DEF d
  <2> QED BY <2>1, <2>2, <2>3 DEF Sound, Pre, Base, DialogsSound, DialogSound, Lawful
<1>5. c = s.current => Ready(d)
  BY <1>0, NobodyIsNoCookie DEF Sound, CurrentReady, Ready, DialogRec
<1> HIDE DEF d
<1>6. Sound(u) /\ u.status = s.status
  BY <1>0, <1>1, <1>2, <1>4, <1>5, SoundSetDialog, SetDialogFields DEF SameButDialog, Lawful
<1>7. EnsureOpen(u, c)
  BY DEF RetryFires
<1> HIDE DEF u
<1> QED BY <1>1, <1>6, <1>7, EnsureOpenSound

LEMMA DialogClosedSound ==
    ASSUME NEW c \in Cookies, Sound(agent), DialogClosed(c)
    PROVE  Sound(agent')
<1> DEFINE s == agent
           d == [s.dialog[c] EXCEPT !.state = "CLOSED", !.session = FALSE, !.completed = FALSE]
<1>0. s \in AgentRec /\ s.dialog[c] \in DialogRec /\ s.dialog[c].state = "CLOSING"
  BY DEF Sound, Pre, Base, AgentRec, DialogClosed
<1>1. s.status[c] \notin {"new", "scheduled"}
  BY <1>0, HasDialog DEF Sound, Pre
<1>2. agent' = SetDialog(s, c, d)
  <2> DEFINE e == [s.dialog[c] EXCEPT !.state = "CLOSED"]
             u == [s EXCEPT !.dialog[c].state = "CLOSED"]
  <2>1. u = SetDialog(s, c, e) /\ e \in DialogRec
    BY <1>0 DEF SetDialog, AgentRec, DialogRec, States
  <2>2. d = [e EXCEPT !.session = FALSE, !.completed = FALSE]
    BY <1>0 DEF DialogRec
  <2>3. agent' = DestroySession(u, c)
    BY DEF DialogClosed
  <2> HIDE DEF d, e, u
  <2> QED BY <1>0, <2>1, <2>2, <2>3, DestroySessionSet
<1>3. Lawful(d)
  BY <1>0 DEF Sound, Pre, Base, DialogsSound, DialogSound, Lawful, DialogRec, States
<1>4. c # s.current
  BY <1>0, NobodyIsNoCookie DEF Sound, CurrentReady, Ready
<1> QED BY <1>1, <1>2, <1>3, <1>4, SoundSetDialog

LEMMA ChooseUserSound ==
    ASSUME NEW c \in Cookies, Sound(agent), ChooseUser(c)
    PROVE  Sound(agent')
<1> DEFINE s == agent
           d == [s.dialog[c] EXCEPT !.session = TRUE, !.completed = FALSE]
<1>0. s \in AgentRec /\ s.dialog[c] \in DialogRec /\ s.dialog[c].state = "OPEN"
  BY DEF Sound, Pre, Base, AgentRec, ChooseUser
<1>1. s.status[c] \notin {"new", "scheduled"}
  BY <1>0, HasDialog DEF Sound, Pre
<1>2. agent' = SetDialog(s, c, d)
  <2>1. agent = SetDialog(s, c, s.dialog[c])
    BY <1>0 DEF SetDialog, AgentRec
  <2>2. agent' = PerformAuthentication(agent, c)
    BY DEF ChooseUser
  <2>3. PerformAuthentication(SetDialog(s, c, s.dialog[c]), c) = SetDialog(s, c, d)
    BY ONLY <1>0, PerformAuthenticationSet
  <2> QED BY ONLY <2>1, <2>2, <2>3
<1>3. Lawful(d)
  BY <1>0 DEF Sound, Pre, Base, DialogsSound, DialogSound, Lawful, DialogRec
<1>4. c = s.current => Ready(d)
  BY <1>0, NobodyIsNoCookie DEF Sound, CurrentReady, Ready, DialogRec
<1> QED BY <1>1, <1>2, <1>3, <1>4, SoundSetDialog

LEMMA NextSound == Sound(agent) /\ [Next]_vars => Sound(agent')
<1> SUFFICES ASSUME Sound(agent), [Next]_vars PROVE Sound(agent')
  OBVIOUS
<1>1. CASE UNCHANGED vars
  BY <1>1 DEF vars
<1>2. CASE Next
  <2> PICK c \in Cookies :
         \/ InitiateAuthentication(c) \/ RequestCancelled(c)
         \/ HandleCancelledInIdle(c) \/ IdleAfterFree(c)
         \/ SessionAsks(c) \/ RetryFires(c)
         \/ \E gained \in BOOLEAN : SessionCompletes(c, gained)
         \/ UserCancels(c) \/ ChooseUser(c) \/ DialogClosed(c)
    BY <1>2 DEF Next
  <2>0. \A r \in Living : r \in Cookies /\ agent.status[r] \in {"scheduled", "current"}
    BY DEF Living
  <2>1. CASE InitiateAuthentication(c)
    BY <2>1, InitiateSound
  <2>2. CASE RequestCancelled(c)
    BY <2>2 DEF RequestCancelled
  <2>3. CASE HandleCancelledInIdle(c)
    BY <2>0, <2>3, CancelSound DEF HandleCancelledInIdle
  <2>4. CASE IdleAfterFree(c)
    BY <2>0, <2>4, CancelSound DEF IdleAfterFree
  <2>5. CASE SessionAsks(c)
    <3>1. agent.status[c] \notin {"new", "scheduled"} /\ EnsureOpen(agent, c)
      BY <2>5, HasDialog DEF SessionAsks, Sound, Pre
    <3> QED BY <3>1, EnsureOpenSound
  <2>6. CASE RetryFires(c)
    BY <2>6, RetryFiresSound
  <2>7. CASE \E gained \in BOOLEAN : SessionCompletes(c, gained)
    BY <2>7, SessionCompletesSound
  <2>8. CASE UserCancels(c)
    <3>1. agent.status[c] \notin {"new", "scheduled"}
      BY <2>8, HasDialog DEF UserCancels, Sound, Pre
    <3> QED BY <2>8, <3>1, EmitDoneSound DEF UserCancels, Sound
  <2>9. CASE ChooseUser(c)
    BY <2>9, ChooseUserSound
  <2>10. CASE DialogClosed(c)
    BY <2>10, DialogClosedSound
  <2> QED BY <2>1, <2>2, <2>3, <2>4, <2>5, <2>6, <2>7, <2>8, <2>9, <2>10
<1> QED BY <1>1, <1>2

LEMMA InitSound == Init => Sound(agent)
<1> SUFFICES ASSUME Init PROVE Sound(agent)
  OBVIOUS
<1>1. agent = AgentInit
  BY DEF Init
<1>2. Dialog("none", FALSE) \in DialogRec
  BY FreshDialog DEF States
<1>3. agent \in AgentRec
  <2>1. [c \in Cookies |-> Dialog("none", FALSE)] \in [Cookies -> DialogRec]
    BY <1>2
  <2>2. [c \in Cookies |-> "new"] \in
           [Cookies -> {"new", "scheduled", "current", "answered", "dismissed"}]
    OBVIOUS
  <2>3. <<>> \in Seq(Cookies)
    OBVIOUS
  <2> QED BY <1>1, <2>1, <2>2, <2>3 DEF AgentInit, AgentRec
<1>4. Queued(agent)
  BY <1>1, NobodyIsNoCookie DEF AgentInit, Queued
<1>5. DialogsSound(agent)
  BY <1>1, <1>2 DEF AgentInit, DialogsSound, DialogSound, Dialog
<1> QED BY <1>1, <1>3, <1>4, <1>5 DEF AgentInit, Sound, Pre, Base, CurrentReady

\* The invariant that is inductive.
IInv ==
    /\ Sound(agent)
    /\ idles \subseteq cancelled /\ cancelled \subseteq Cookies
    /\ userSaid \subseteq Cookies /\ gaveUp \subseteq Cookies

LEMMA IInvAlways == Spec => []IInv
<1>1. Init => IInv
  BY InitSound DEF Init, IInv
<1>2. IInv /\ [Next]_vars => IInv'
  <2> SUFFICES ASSUME IInv, [Next]_vars PROVE IInv'
    OBVIOUS
  <2>1. Sound(agent')
    BY NextSound DEF IInv
  <2>2. /\ idles' \subseteq cancelled' /\ cancelled' \subseteq Cookies
        /\ userSaid' \subseteq Cookies /\ gaveUp' \subseteq Cookies
    BY DEF IInv, Next, vars, Living, InitiateAuthentication, RequestCancelled,
           HandleCancelledInIdle, IdleAfterFree, EnsureOpen, SessionAsks, RetryFires,
           SessionCompletes, UserCancels, ChooseUser, DialogClosed
  <2> QED BY <2>1, <2>2 DEF IInv, Sound, Pre, Base, Queued, DialogsSound, DialogSound, CurrentReady
<1> QED BY <1>1, <1>2, PTL DEF Spec

\* The native agent's queue holds each waiting request once, the current one is out
\* of it, and nobody waits while the agent is free, for any number of requests and
\* of retries (initiate_authentication, auth_request_complete).
THEOREM AgentSoundAlways == Spec => []AgentSound
<1>1. IInv => AgentSound
  <2> SUFFICES ASSUME IInv PROVE AgentSound
    OBVIOUS
  <2>1. TypeOK
    BY DEF IInv, Sound, Pre, Base, TypeOK
  <2>2. Queued(agent) /\ agent \in AgentRec
    BY DEF IInv, Sound, Pre, Base
  <2>3. IsInjective(agent.scheduled)
    BY <2>2 DEF Queued, IsInjective
  <2>4. ToSet(agent.scheduled) = {c \in Cookies : agent.status[c] = "scheduled"}
    <3>1. \A i \in DOMAIN agent.scheduled : agent.scheduled[i] \in Cookies
      BY <2>2 DEF AgentRec
    <3> QED BY <2>2, <3>1 DEF Queued, ToSet
  <2>5. {c \in Cookies : agent.status[c] = "current"} = {agent.current} \ {Nobody}
    BY <2>2, NobodyIsNoCookie DEF Queued, AgentRec
  <2>6. agent.current = Nobody => agent.scheduled = <<>>
    BY DEF IInv, Sound, Pre
  <2> QED BY <2>1, <2>3, <2>4, <2>5, <2>6 DEF AgentSound, QueueSound
<1> QED BY <1>1, IInvAlways, PTL

\* The dialog of the current request can always answer it: its session lives, it
\* has not given its only answer and it is not closing (_completeRequest).
THEOREM CurrentCanBeAnsweredAlways == Spec => []CurrentCanBeAnswered
<1>1. IInv => CurrentCanBeAnswered
  BY DEF IInv, Sound, CurrentReady, Ready, CurrentCanBeAnswered
<1> QED BY <1>1, IInvAlways, PTL

-----------------------------------------------------------------------------
Answered(s) == {c \in Cookies : s.status[c] \in {"answered", "dismissed"}}

\* The steps of RequestQueue, and none, on two states of the agent.
Same(s, t) ==
    t.scheduled = s.scheduled /\ t.current = s.current /\ Answered(t) = Answered(s)

ServesNext(s, t) ==
    \/ s.scheduled = <<>> /\ t.current = Nobody /\ t.scheduled = <<>>
    \/ s.scheduled # <<>> /\ t.current = Head(s.scheduled) /\ t.scheduled = Tail(s.scheduled)

Finishes(s, t) ==
    /\ s.current # Nobody
    /\ Answered(t) = Answered(s) \cup {s.current}
    /\ ServesNext(s, t)

Withdraws(s, t) ==
    \E i \in DOMAIN s.scheduled :
        /\ Answered(t) = Answered(s) \cup {s.scheduled[i]}
        /\ t.scheduled = RemoveAt(s.scheduled, i)
        /\ t.current = s.current

\* A dialog that was open, is closed and has no timer left stays closed.
AtRest(d) == d.opened /\ d.state = "CLOSED" /\ d.timers = 0

RestKept(s, t) == \A c \in Cookies : AtRest(s.dialog[c]) => t.dialog[c].state = "CLOSED"

\* What an operator does that may give one answer, and the same but for a dialog.
Quiet(s, t) == Same(s, t) \/ Finishes(s, t)

RestKeptBut(s, t, c) ==
    \A e \in Cookies : e # c /\ AtRest(s.dialog[e]) => t.dialog[e].state = "CLOSED"

-----------------------------------------------------------------------------
LEMMA MaybeProcessNextStep ==
    ASSUME NEW s, Base(s), s.current = Nobody
    PROVE  LET t == MaybeProcessNext(s)
           IN  /\ Answered(t) = Answered(s) /\ ServesNext(s, t) /\ RestKept(s, t)
<1> DEFINE t == MaybeProcessNext(s)
           c == Head(s.scheduled)
<1>0. s \in AgentRec /\ s.scheduled \in Seq(Cookies)
  BY DEF Base, AgentRec
<1>1. CASE s.scheduled = <<>>
  BY <1>1 DEF MaybeProcessNext, ServesNext, RestKept, AtRest
<1>2. CASE s.scheduled # <<>>
  <2>1. c \in Cookies /\ s.status[c] = "scheduled"
    BY <1>0, <1>2, TailOfQueue DEF Base, Queued
  <2>2. t = [s EXCEPT !.current = c, !.scheduled = Tail(s.scheduled),
                      !.status = [s.status EXCEPT ![c] = "current"],
                      !.currentDialog = c,
                      !.dialog = [s.dialog EXCEPT ![c] = Dialog("CLOSED", TRUE)]]
    BY <1>0, <1>2, <2>1 DEF MaybeProcessNext, OnInitiate, AgentRec
  <2>3. /\ t.scheduled = Tail(s.scheduled) /\ t.current = c
        /\ t.status = [s.status EXCEPT ![c] = "current"]
        /\ t.dialog = [s.dialog EXCEPT ![c] = Dialog("CLOSED", TRUE)]
    BY <1>0, <2>2 DEF AgentRec
  <2> HIDE DEF t, c
  <2>4. \A e \in Cookies : e # c => t.status[e] = s.status[e] /\ t.dialog[e] = s.dialog[e]
    BY <1>0, <2>1, <2>3 DEF AgentRec
  <2>5. t.status[c] = "current"
    BY <1>0, <2>1, <2>3 DEF AgentRec
  <2>6. Answered(t) = Answered(s)
    BY <2>1, <2>4, <2>5 DEF Answered
  <2>7. ~AtRest(s.dialog[c])
    BY <2>1 DEF Base, DialogsSound, DialogSound, AtRest, Dialog
  <2>8. RestKept(s, t)
    BY <2>4, <2>7 DEF RestKept, AtRest
  <2> QED BY <1>2, <2>3, <2>6, <2>8 DEF ServesNext, t, c
<1> QED BY <1>1, <1>2

LEMMA AnswerCurrentStep ==
    ASSUME NEW s, Base(s), s.current # Nobody, s.currentDialog = Nobody,
           NEW dismissed \in BOOLEAN
    PROVE  LET t == AuthRequestComplete(s, s.current, dismissed)
           IN  Finishes(s, t) /\ RestKept(s, t)
<1> DEFINE c == s.current
           t == Answer(s, c, dismissed)
<1>0. s \in AgentRec /\ c \in Cookies
  BY DEF Base, AgentRec
<1>1. AuthRequestComplete(s, c, dismissed) = MaybeProcessNext(t)
  BY DEF AuthRequestComplete, Answer, AnswerOf
<1>2. /\ Base(t) /\ t.current = Nobody /\ t.scheduled = s.scheduled
      /\ t.dialog = s.dialog /\ t.status = [s.status EXCEPT ![c] = AnswerOf(dismissed)]
  BY AnswerBase
<1> HIDE DEF t
<1>3. Answered(t) = Answered(s) \cup {c}
  BY <1>0, <1>2 DEF AgentRec, Answered, AnswerOf
<1>4. LET u == MaybeProcessNext(t)
      IN  /\ Answered(u) = Answered(t) /\ ServesNext(t, u) /\ RestKept(t, u)
  BY <1>2, MaybeProcessNextStep
<1> QED BY <1>1, <1>2, <1>3, <1>4 DEF Finishes, ServesNext, RestKept

\* A change of one dialog leaves the queue and the other dialogs.
LEMMA SetDialogStep ==
    ASSUME NEW s \in AgentRec, NEW c \in Cookies, NEW d \in DialogRec
    PROVE  LET t == SetDialog(s, c, d)
           IN  /\ Same(s, t)
               /\ \A e \in Cookies : e # c => t.dialog[e] = s.dialog[e]
               /\ t.dialog[c] = d
BY SetDialogFields DEF SameButDialog, Same, Answered

LEMMA CompleteRequestStep ==
    ASSUME NEW s, Pre(s), NEW dismissed \in BOOLEAN
    PROVE  LET t == CompleteRequest(s, dismissed)
           IN  Quiet(s, t) /\ RestKept(s, t)
<1>1. CASE s.currentDialog = Nobody
  BY <1>1 DEF CompleteRequest, Quiet, Same, RestKept, AtRest
<1>2. CASE s.currentDialog # Nobody
  <2> DEFINE c == s.current
             u == Close(s, c)
             v == [u EXCEPT !.currentDialog = Nobody]
             t == AuthRequestComplete(v, c, dismissed)
  <2>0. c \in Cookies /\ c = s.currentDialog
    BY <1>2 DEF Pre, Base, AgentRec
  <2>1. CompleteRequest(s, dismissed) = t
    BY <1>2, <2>0 DEF CompleteRequest
  <2>2. Base(u) /\ SameButDialog(s, u, c)
    BY <2>0, CloseBase DEF Pre
  <2>3. AtRest(s.dialog[c]) => u.dialog[c].state = "CLOSED"
    BY DEF Close, AtRest
  <2>4. /\ v.scheduled = s.scheduled /\ v.current = c /\ v.currentDialog = Nobody
        /\ v.dialog = u.dialog /\ v.status = s.status /\ v \in AgentRec
    <3>1. u \in AgentRec /\ u.current = c /\ u.status = s.status /\ u.scheduled = s.scheduled
      BY <2>2 DEF Base, SameButDialog
    <3> HIDE DEF u, c
    <3> QED BY <3>1 DEF AgentRec
  <2>5. Base(v)
    <3>1. u.current = c /\ u.status = s.status /\ u.scheduled = s.scheduled
      BY <2>2 DEF SameButDialog
    <3> HIDE DEF v, u
    <3> QED BY <2>2, <2>4, <3>1, BaseFields
  <2>6. \A e \in Cookies : AtRest(s.dialog[e]) => AtRest(v.dialog[e])
    <3>1. \A e \in Cookies : e # c => v.dialog[e] = s.dialog[e]
      BY <2>2, <2>4 DEF SameButDialog
    <3>2. AtRest(s.dialog[c]) => v.dialog[c] = s.dialog[c]
      BY <2>4 DEF Close, AtRest
    <3> QED BY <3>1, <3>2
  <2>7. v.current # Nobody
    BY <1>2, <2>0, <2>4
  <2> HIDE DEF v, u, c
  <2>8. Finishes(v, t) /\ RestKept(v, t)
    BY <2>4, <2>5, <2>7, AnswerCurrentStep
  <2> HIDE DEF t
  <2>9. Finishes(s, t)
    <3>1. Answered(v) = Answered(s) /\ s.current = c
      BY <2>4 DEF Answered, c
    <3> QED BY <2>4, <2>8, <3>1 DEF Finishes, ServesNext
  <2>10. RestKept(s, t)
    BY <2>6, <2>8 DEF RestKept
  <2> QED BY <2>1, <2>9, <2>10 DEF Quiet
<1> QED BY <1>1, <1>2

LEMMA EmitDoneStep ==
    ASSUME NEW s, Pre(s), NEW c \in Cookies, NEW dismissed \in BOOLEAN,
           s.status[c] \notin {"new", "scheduled"}
    PROVE  LET t == EmitDone(s, c, dismissed)
           IN  Quiet(s, t) /\ RestKept(s, t)
<1>0. s \in AgentRec /\ s.dialog[c] \in DialogRec /\ s.dialog[c].done \in BOOLEAN
  BY DEF Pre, Base, AgentRec, DialogRec
<1>1. CASE s.dialog[c].done
  BY <1>1 DEF EmitDone, Quiet, Same, RestKept, AtRest
<1>2. CASE ~s.dialog[c].done
  <2> DEFINE d == [s.dialog[c] EXCEPT !.done = TRUE]
             u == [s EXCEPT !.dialog[c].done = TRUE]
             t == CompleteRequest(u, dismissed)
  <2>1. u = SetDialog(s, c, d)
    BY <1>0 DEF SetDialog, AgentRec
  <2>2. Lawful(d)
    BY <1>0 DEF Pre, Base, DialogsSound, DialogSound, Lawful, DialogRec
  <2>3. EmitDone(s, c, dismissed) = t
    BY <1>2 DEF EmitDone
  <2>4. AtRest(s.dialog[c]) => AtRest(d)
    BY <1>0 DEF AtRest, DialogRec
  <2> HIDE DEF d, u
  <2>5. Pre(u)
    BY <2>1, <2>2, PreSetDialog
  <2>6. /\ Same(s, u) /\ u.dialog[c] = d
        /\ \A e \in Cookies : e # c => u.dialog[e] = s.dialog[e]
    BY <1>0, <2>1, <2>2, SetDialogStep DEF Lawful
  <2>7. Quiet(u, t) /\ RestKept(u, t)
    BY <2>5, CompleteRequestStep
  <2> HIDE DEF t
  <2>8. Quiet(s, t)
    BY <2>6, <2>7 DEF Quiet, Same, Finishes, ServesNext
  <2>9. RestKept(s, t)
    BY <2>4, <2>6, <2>7 DEF RestKept
  <2> QED BY <2>3, <2>8, <2>9
<1> QED BY <1>0, <1>1, <1>2

LEMMA WithdrawStep ==
    ASSUME NEW s, Sound(s), NEW c \in Cookies, s.status[c] = "scheduled",
           NEW dismissed \in BOOLEAN
    PROVE  LET t == AuthRequestComplete(s, c, dismissed)
           IN  Withdraws(s, t) /\ RestKept(s, t)
<1> DEFINE q == s.scheduled
           status == [s.status EXCEPT ![c] = AnswerOf(dismissed)]
           t == [s EXCEPT !.status = status, !.scheduled = ListRemove(q, c)]
<1>0. s \in AgentRec
  BY DEF Sound, Pre, Base
<1>1. s.current # c
  BY DEF Sound, Pre, Base, Queued
<1>2. AuthRequestComplete(s, c, dismissed) = t
  BY <1>0, <1>1 DEF AuthRequestComplete, AgentRec, AnswerOf
<1>3. PICK j \in DOMAIN q : q[j] = c
  BY DEF Sound, Pre, Base, Queued
<1> DEFINE i == CHOOSE i \in DOMAIN q : q[i] = c
<1>4. i \in DOMAIN q /\ q[i] = c /\ ListRemove(q, c) = RemoveAt(q, i)
  BY <1>3 DEF ListRemove
<1>5. status[c] \in {"answered", "dismissed"} /\ \A e \in Cookies : e # c => status[e] = s.status[e]
  BY <1>0 DEF AgentRec, AnswerOf
<1> HIDE DEF status, i
<1>6. /\ t.scheduled = RemoveAt(q, i) /\ t.status = status
      /\ t.current = s.current /\ t.dialog = s.dialog
  BY <1>0, <1>4 DEF AgentRec
<1> HIDE DEF t
<1>7. Answered(t) = Answered(s) \cup {c}
  BY <1>5, <1>6 DEF Answered
<1>8. Withdraws(s, t)
  BY <1>4, <1>6, <1>7 DEF Withdraws
<1> QED BY <1>2, <1>6, <1>8 DEF RestKept, AtRest

LEMMA CancelStep ==
    ASSUME NEW s, Sound(s), NEW c \in Cookies, s.status[c] \in {"scheduled", "current"}
    PROVE  LET t == Cancel(s, c)
           IN  (Quiet(s, t) \/ Withdraws(s, t)) /\ RestKept(s, t)
<1>1. CASE s.current = c
  BY <1>1, CompleteRequestStep DEF Cancel, Sound
<1>2. CASE s.current # c
  <2>1. s.status[c] = "scheduled"
    BY <1>2 DEF Sound, Pre, Base, Queued
  <2> QED BY <1>2, <2>1, WithdrawStep DEF Cancel
<1> QED BY <1>1, <1>2

LEMMA EnsureOpenStep ==
    ASSUME NEW s, Sound(s), NEW c \in Cookies, s.status[c] \notin {"new", "scheduled"},
           EnsureOpen(s, c)
    PROVE  Quiet(s, agent') /\ RestKeptBut(s, agent', c)
<1>0. s \in AgentRec /\ s.dialog[c] \in DialogRec
  BY DEF Sound, Pre, Base, AgentRec
<1>1. CASE agent' = Opens(s, c)
  <2> DEFINE d == [s.dialog[c] EXCEPT !.state = "OPEN", !.opened = TRUE]
  <2>1. agent' = s \/ agent' = SetDialog(s, c, d)
    BY <1>0, <1>1 DEF Opens, SetDialog, AgentRec, DialogRec
  <2>2. d \in DialogRec
    BY <1>0 DEF DialogRec, States
  <2>3. Same(s, SetDialog(s, c, d)) /\ RestKeptBut(s, SetDialog(s, c, d), c)
    BY <1>0, <2>2, SetDialogStep DEF RestKeptBut, AtRest
  <2> HIDE DEF d
  <2> QED BY <2>1, <2>3 DEF Quiet, Same, RestKeptBut, AtRest
<1>2. CASE agent' = Refused(s, c) /\ MayRetry(s, c)
  <2> DEFINE d == [s.dialog[c] EXCEPT !.retries = @ + 1, !.timers = @ + 1]
  <2>1. agent' = SetDialog(s, c, d)
    BY <1>0, <1>2 DEF Refused, SetDialog, AgentRec, DialogRec
  <2>2. s.dialog[c].timers <= s.dialog[c].retries
    BY DEF Sound, Pre, Base, DialogsSound, DialogSound
  <2>3. d \in DialogRec
    <3>1. /\ s.dialog[c].retries + 1 \in 0 .. MAX_MODAL_RETRIES
          /\ s.dialog[c].timers + 1 \in 0 .. MAX_MODAL_RETRIES
      BY <1>0, <1>2, <2>2, NobodyIsNoCookie DEF MayRetry, DialogRec
    <3> QED BY <1>0, <3>1 DEF DialogRec
  <2> HIDE DEF d
  <2>4. Same(s, agent') /\ RestKeptBut(s, agent', c)
    BY <1>0, <2>1, <2>3, SetDialogStep DEF RestKeptBut, AtRest
  <2> QED BY <2>4 DEF Quiet
<1>3. CASE agent' = Refused(s, c) /\ ~MayRetry(s, c)
  <2>1. agent' = EmitDone(s, c, TRUE)
    BY <1>3 DEF Refused
  <2> QED BY <2>1, EmitDoneStep DEF Sound, RestKept, RestKeptBut
<1> QED BY <1>1, <1>2, <1>3 DEF EnsureOpen

-----------------------------------------------------------------------------
(* The steps of the agent *)

Arrives(s, t, c) ==
    /\ c \notin Answered(s) \cup {s.current} \cup ToSet(s.scheduled)
    /\ Answered(t) = Answered(s)
    /\ \/ s.current = Nobody /\ t.current = c /\ t.scheduled = s.scheduled
       \/ /\ s.current # Nobody /\ t.current = s.current
          /\ t.scheduled = Append(s.scheduled, c)

Step(s, t) ==
    \/ Quiet(s, t) \/ Withdraws(s, t) \/ \E c \in Cookies : Arrives(s, t, c)

LEMMA InitiateStep ==
    ASSUME NEW c \in Cookies, Sound(agent), InitiateAuthentication(c)
    PROVE  Arrives(agent, agent', c) /\ RestKept(agent, agent')
<1> DEFINE q == agent.scheduled
           status == [agent.status EXCEPT ![c] = "scheduled"]
           t == [agent EXCEPT !.status = status, !.scheduled = Append(q, c)]
           fresh == Dialog("CLOSED", TRUE)
<1>0. agent \in AgentRec /\ q \in Seq(Cookies) /\ agent.status[c] = "new"
  BY DEF Sound, Pre, Base, AgentRec, InitiateAuthentication
<1>1. agent' = MaybeProcessNext(t)
  BY <1>0 DEF InitiateAuthentication, AgentRec
<1>2. status[c] = "scheduled" /\ \A e \in Cookies : e # c => status[e] = agent.status[e]
  BY <1>0 DEF AgentRec
<1>3. c \notin Answered(agent) \cup {agent.current} \cup ToSet(q)
  <2>1. c \notin Answered(agent)
    BY <1>0 DEF Answered
  <2>2. c # agent.current
    BY <1>0 DEF Sound, Pre, Base, Queued
  <2>3. c \notin ToSet(q)
    BY <1>0 DEF Sound, Pre, Base, Queued, ToSet
  <2> QED BY <2>1, <2>2, <2>3
<1>4. Append(q, c) \in Seq(Cookies) /\ Append(q, c) # <<>>
      /\ (q = <<>> => Head(Append(q, c)) = c /\ Tail(Append(q, c)) = <<>>)
  BY <1>0
<1> HIDE DEF status, q
<1>5. /\ t.scheduled = Append(q, c) /\ t.status = status
      /\ t.current = agent.current /\ t.dialog = agent.dialog
  BY <1>0 DEF AgentRec
<1>6. Answered(t) = Answered(agent)
  BY <1>0, <1>2, <1>5 DEF Answered
<1>7. CASE agent.current # Nobody
  <2>1. agent' = t
    BY <1>1, <1>5, <1>7 DEF MaybeProcessNext
  <2> HIDE DEF t
  <2>2. Arrives(agent, agent', c)
    BY <1>3, <1>5, <1>6, <1>7, <2>1 DEF Arrives, q
  <2> QED BY <1>5, <2>1, <2>2 DEF RestKept, AtRest
<1>8. CASE agent.current = Nobody
  <2>1. q = <<>>
    BY <1>8 DEF Sound, Pre, q
  <2> DEFINE served == [status EXCEPT ![c] = "current"]
             u == [t EXCEPT !.current = c, !.scheduled = <<>>, !.status = served,
                            !.currentDialog = c, !.dialog = [agent.dialog EXCEPT ![c] = fresh]]
  <2>2. agent' = u
    BY <1>0, <1>1, <1>4, <1>5, <1>8, <2>1 DEF MaybeProcessNext, OnInitiate, AgentRec
  <2>3. \A e \in Cookies : e # c => served[e] = agent.status[e]
    BY <1>0, <1>2 DEF AgentRec, status
  <2>4. served[c] = "current"
    BY <1>0 DEF AgentRec, status
  <2>5. \A e \in Cookies : e # c => [agent.dialog EXCEPT ![c] = fresh][e] = agent.dialog[e]
    BY <1>0 DEF AgentRec
  <2> HIDE DEF served, fresh
  <2>6. /\ u.scheduled = <<>> /\ u.current = c /\ u.status = served
        /\ u.dialog = [agent.dialog EXCEPT ![c] = fresh]
    BY <1>0 DEF AgentRec
  <2> HIDE DEF u, t
  <2>7. Answered(u) = Answered(agent)
    BY <1>0, <2>3, <2>4, <2>6 DEF Answered
  <2>8. ~AtRest(agent.dialog[c])
    BY <1>0 DEF Sound, Pre, Base, DialogsSound, DialogSound, AtRest, Dialog
  <2>9. RestKept(agent, u)
    BY <2>5, <2>6, <2>8 DEF RestKept, AtRest
  <2>10. Arrives(agent, u, c)
    BY <1>3, <1>8, <2>1, <2>6, <2>7 DEF Arrives, q
  <2> QED BY <2>2, <2>9, <2>10
<1> QED BY <1>7, <1>8

LEMMA SessionCompletesStep ==
    ASSUME NEW c \in Cookies, NEW gained \in BOOLEAN, Sound(agent), SessionCompletes(c, gained)
    PROVE  Quiet(agent, agent') /\ RestKeptBut(agent, agent', c)
<1> DEFINE s == agent
           d == [s.dialog[c] EXCEPT !.completed = TRUE]
           e == [s.dialog[c] EXCEPT !.session = TRUE, !.completed = FALSE]
           u == [s EXCEPT !.dialog[c].completed = TRUE]
<1>0. s \in AgentRec /\ s.dialog[c] \in DialogRec /\ s.dialog[c].session
  BY DEF Sound, Pre, Base, AgentRec, SessionCompletes
<1>1. s.status[c] \notin {"new", "scheduled"}
  BY <1>0, HasDialog DEF Sound, Pre
<1>2. u = SetDialog(s, c, d) /\ d \in DialogRec
  BY <1>0 DEF SetDialog, AgentRec, DialogRec
<1>3. Lawful(d)
  BY <1>0 DEF Sound, Pre, Base, DialogsSound, DialogSound, Lawful, DialogRec
<1>4. e = [d EXCEPT !.session = TRUE, !.completed = FALSE] /\ e \in DialogRec
  BY <1>0 DEF DialogRec
<1>5. agent' = IF gained THEN EmitDone(u, c, FALSE) ELSE PerformAuthentication(u, c)
  BY DEF SessionCompletes
<1> HIDE DEF d, e, u
<1>6. CASE gained
  <2>1. Pre(u) /\ SameButDialog(s, u, c)
    BY <1>1, <1>2, <1>3, PreSetDialog DEF Sound
  <2>2. u.status[c] \notin {"new", "scheduled"}
    BY <1>1, <2>1 DEF SameButDialog
  <2>3. Quiet(u, agent') /\ RestKept(u, agent')
    BY <1>5, <1>6, <2>1, <2>2, EmitDoneStep
  <2>4. Quiet(s, agent')
    BY <2>1, <2>3 DEF Quiet, Same, Finishes, ServesNext, SameButDialog, Answered
  <2>5. RestKeptBut(s, agent', c)
    BY <2>1, <2>3 DEF RestKept, RestKeptBut, SameButDialog
  <2> QED BY <2>4, <2>5
<1>7. CASE ~gained
  <2>1. agent' = SetDialog(s, c, e)
    BY <1>0, <1>2, <1>4, <1>5, <1>7, PerformAuthenticationSet
  <2> QED BY <1>0, <1>4, <2>1, SetDialogStep DEF Quiet, RestKeptBut, AtRest
<1> QED BY <1>6, <1>7

LEMMA RetryFiresStep ==
    ASSUME NEW c \in Cookies, Sound(agent), RetryFires(c)
    PROVE  Quiet(agent, agent') /\ RestKeptBut(agent, agent', c)
<1> DEFINE s == agent
           d == [s.dialog[c] EXCEPT !.timers = @ - 1]
           u == [s EXCEPT !.dialog[c].timers = @ - 1]
<1>0. s \in AgentRec /\ s.dialog[c] \in DialogRec /\ s.dialog[c].timers > 0
  BY DEF Sound, Pre, Base, AgentRec, RetryFires
<1>1. s.status[c] \notin {"new", "scheduled"}
  BY <1>0, HasDialog DEF Sound, Pre
<1>2. u = SetDialog(s, c, d)
  BY <1>0 DEF SetDialog, AgentRec
<1>3. s.dialog[c].timers <= s.dialog[c].retries
  BY DEF Sound, Pre, Base, DialogsSound, DialogSound
<1>4. Lawful(d)
  <2>1. /\ s.dialog[c].timers - 1 \in 0 .. MAX_MODAL_RETRIES
        /\ s.dialog[c].timers - 1 <= s.dialog[c].retries
    BY <1>0, <1>3, NobodyIsNoCookie DEF DialogRec
  <2>2. d \in DialogRec
    BY <1>0, <2>1 DEF DialogRec
  <2>3. /\ d.opened = s.dialog[c].opened /\ d.state = s.dialog[c].state
        /\ d.session = s.dialog[c].session
        /\ d.timers = s.dialog[c].timers - 1 /\ d.retries = s.dialog[c].retries
    BY <1>0 DEF DialogRec
  <2> HIDE DEF d
  <2> QED BY <2>1, <2>2, <2>3 DEF Sound, Pre, Base, DialogsSound, DialogSound, Lawful
<1>5. c = s.current => Ready(d)
  BY <1>0, NobodyIsNoCookie DEF Sound, CurrentReady, Ready, DialogRec
<1>6. EnsureOpen(u, c)
  BY DEF RetryFires
<1> HIDE DEF d
<1>7. /\ Sound(u) /\ Same(s, u) /\ u.status = s.status
      /\ \A e \in Cookies : e # c => u.dialog[e] = s.dialog[e]
  BY <1>0, <1>1, <1>2, <1>4, <1>5, SoundSetDialog, SetDialogFields, SetDialogStep
     DEF SameButDialog, Lawful
<1> HIDE DEF u
<1>8. Quiet(u, agent') /\ RestKeptBut(u, agent', c)
  BY <1>1, <1>6, <1>7, EnsureOpenStep
<1>9. Quiet(s, agent')
  BY <1>7, <1>8 DEF Quiet, Same, Finishes, ServesNext
<1>10. RestKeptBut(s, agent', c)
  BY <1>7, <1>8 DEF RestKeptBut
<1> QED BY <1>9, <1>10

LEMMA DialogClosedStep ==
    ASSUME NEW c \in Cookies, Sound(agent), DialogClosed(c)
    PROVE  Same(agent, agent') /\ RestKeptBut(agent, agent', c)
<1> DEFINE d == [agent.dialog[c] EXCEPT !.state = "CLOSED"]
           u == [agent EXCEPT !.dialog[c].state = "CLOSED"]
           e == [d EXCEPT !.session = FALSE, !.completed = FALSE]
<1>0. agent \in AgentRec /\ agent.dialog[c] \in DialogRec
  BY DEF Sound, Pre, Base, AgentRec
<1>1. u = SetDialog(agent, c, d) /\ d \in DialogRec
  BY <1>0 DEF SetDialog, AgentRec, DialogRec, States
<1>2. agent' = DestroySession(u, c)
  BY DEF DialogClosed
<1> HIDE DEF u, d
<1>3. agent' = SetDialog(agent, c, e) /\ e \in DialogRec
  BY <1>0, <1>1, <1>2, DestroySessionSet
<1> HIDE DEF e
<1> QED BY <1>0, <1>3, SetDialogStep DEF RestKeptBut, AtRest

LEMMA ChooseUserStep ==
    ASSUME NEW c \in Cookies, Sound(agent), ChooseUser(c)
    PROVE  Same(agent, agent') /\ RestKeptBut(agent, agent', c)
<1> DEFINE d == agent.dialog[c]
           e == [d EXCEPT !.session = TRUE, !.completed = FALSE]
<1>0. agent \in AgentRec /\ d \in DialogRec
  BY DEF Sound, Pre, Base, AgentRec
<1>1. agent = SetDialog(agent, c, d)
  BY <1>0 DEF SetDialog, AgentRec
<1>2. agent' = PerformAuthentication(agent, c)
  BY DEF ChooseUser
<1>3. e \in DialogRec
  BY <1>0 DEF DialogRec
<1>4. PerformAuthentication(SetDialog(agent, c, d), c) = SetDialog(agent, c, e)
  BY <1>0, PerformAuthenticationSet
<1>5. agent' = SetDialog(agent, c, e)
  BY <1>1, <1>2, <1>4
<1> HIDE DEF d, e
<1> QED BY <1>0, <1>3, <1>5, SetDialogStep DEF RestKeptBut, AtRest

\* A step that touches the dialog of c, which is not at rest, leaves those at rest.
LEMMA OnlyOthersRest ==
    ASSUME NEW c \in Cookies, ~AtRest(agent.dialog[c]), RestKeptBut(agent, agent', c)
    PROVE  RestKept(agent, agent')
BY DEF RestKept, RestKeptBut

LEMMA NextStep == Sound(agent) /\ [Next]_vars => Step(agent, agent') /\ RestKept(agent, agent')
<1> SUFFICES ASSUME Sound(agent), [Next]_vars
             PROVE  Step(agent, agent') /\ RestKept(agent, agent')
  OBVIOUS
<1>1. CASE UNCHANGED agent
  BY <1>1 DEF Step, Quiet, Same, RestKept, AtRest, Answered
<1>2. CASE Next
  <2> PICK c \in Cookies :
         \/ InitiateAuthentication(c) \/ RequestCancelled(c)
         \/ HandleCancelledInIdle(c) \/ IdleAfterFree(c)
         \/ SessionAsks(c) \/ RetryFires(c)
         \/ \E gained \in BOOLEAN : SessionCompletes(c, gained)
         \/ UserCancels(c) \/ ChooseUser(c) \/ DialogClosed(c)
    BY <1>2 DEF Next
  <2>0. \A r \in Living : r \in Cookies /\ agent.status[r] \in {"scheduled", "current"}
    BY DEF Living
  <2>a. agent.dialog[c].session => ~AtRest(agent.dialog[c])
    BY DEF Sound, Pre, Base, DialogsSound, DialogSound, AtRest
  <2>1. CASE InitiateAuthentication(c)
    BY <2>1, InitiateStep DEF Step
  <2>2. CASE RequestCancelled(c)
    BY <1>1, <2>2 DEF RequestCancelled
  <2>3. CASE HandleCancelledInIdle(c)
    BY <2>0, <2>3, CancelStep DEF HandleCancelledInIdle, Step
  <2>4. CASE IdleAfterFree(c)
    <3>1. CASE UNCHANGED agent
      BY <1>1, <3>1
    <3>2. CASE \E r \in Living : agent' = Cancel(agent, r)
      BY <2>0, <3>2, CancelStep DEF Step
    <3> QED BY <2>4, <3>1, <3>2 DEF IdleAfterFree
  <2>5. CASE SessionAsks(c)
    <3>1. agent.status[c] \notin {"new", "scheduled"} /\ EnsureOpen(agent, c)
      BY <2>5, HasDialog DEF SessionAsks, Sound, Pre
    <3>2. Quiet(agent, agent') /\ RestKeptBut(agent, agent', c)
      BY <3>1, EnsureOpenStep
    <3>3. ~AtRest(agent.dialog[c])
      BY <2>5, <2>a DEF SessionAsks
    <3> QED BY <3>2, <3>3, OnlyOthersRest DEF Step
  <2>6. CASE RetryFires(c)
    <3>1. ~AtRest(agent.dialog[c])
      <4>1. agent.dialog[c].timers > 0
        BY <2>6 DEF RetryFires
      <4> QED BY <4>1 DEF AtRest
    <3> QED BY <2>6, <3>1, RetryFiresStep, OnlyOthersRest DEF Step
  <2>7. CASE \E gained \in BOOLEAN : SessionCompletes(c, gained)
    <3>1. Quiet(agent, agent') /\ RestKeptBut(agent, agent', c)
      BY <2>7, SessionCompletesStep
    <3>2. ~AtRest(agent.dialog[c])
      BY <2>7, <2>a DEF SessionCompletes
    <3> QED BY <3>1, <3>2, OnlyOthersRest DEF Step
  <2>8. CASE UserCancels(c)
    <3>1. agent.status[c] \notin {"new", "scheduled"}
      BY <2>8, HasDialog DEF UserCancels, Sound, Pre
    <3> QED BY <2>8, <3>1, EmitDoneStep DEF UserCancels, Sound, Step
  <2>9. CASE ChooseUser(c)
    <3>1. ~AtRest(agent.dialog[c])
      BY <2>9 DEF ChooseUser, AtRest
    <3> QED BY <2>9, <3>1, ChooseUserStep, OnlyOthersRest DEF Step, Quiet
  <2>10. CASE DialogClosed(c)
    <3>1. ~AtRest(agent.dialog[c])
      BY <2>10 DEF DialogClosed, AtRest
    <3> QED BY <2>10, <3>1, DialogClosedStep, OnlyOthersRest DEF Step, Quiet
  <2> QED BY <2>1, <2>2, <2>3, <2>4, <2>5, <2>6, <2>7, <2>8, <2>9, <2>10
<1> QED BY <1>1, <1>2 DEF vars

\* The two halves of the agent implement the queue: requests are served one at a time
\* in order and each is answered once, whatever is taken back, refused or retried
\* (maybe_process_next_request, auth_request_complete, _completeRequest).
THEOREM ServesInOrderHolds == Spec => ServesInOrder
<1>1. Init => Queue!Init
  BY DEF Init, AgentInit, Queue!Init
<1>2. IInv /\ [Next]_vars => [Queue!Next]_Queue!vars
  <2> SUFFICES ASSUME IInv, [Next]_vars PROVE [Queue!Next]_Queue!vars
    OBVIOUS
  <2>1. Step(agent, agent')
    BY NextStep DEF IInv
  <2>2. CASE Same(agent, agent')
    BY <2>2 DEF Same, Answered, Queue!vars
  <2>3. CASE Finishes(agent, agent')
    BY <2>3 DEF Finishes, ServesNext, Answered, Queue!Next, Queue!Finish
  <2>4. CASE Withdraws(agent, agent')
    BY <2>4 DEF Withdraws, Answered, Queue!Next, Queue!Withdraw,
                RemoveAt, Queue!RemoveAt
  <2>5. CASE \E c \in Cookies : Arrives(agent, agent', c)
    BY <2>5 DEF Arrives, Answered, Queue!Next, Queue!Arrive,
                ToSet, Queue!ToSet
  <2> QED BY <2>1, <2>2, <2>3, <2>4, <2>5 DEF Step, Quiet
<1> QED BY <1>1, <1>2, IInvAlways, PTL DEF Spec, ServesInOrder, Queue!Spec

\* A dialog that has closed and has no timer left never opens again, whatever its
\* session, the user and the native agent do (_destroySession, _onDialogClosed).
THEOREM ClosedStaysClosedAlways == Spec => ClosedStaysClosed
<1>1. IInv /\ [Next]_vars =>
         [\A c \in Cookies :
            LET d == agent.dialog[c]
            IN  d.opened /\ d.state = "CLOSED" /\ d.timers = 0
                => agent'.dialog[c].state = "CLOSED"]_vars
  <2> SUFFICES ASSUME IInv, [Next]_vars
               PROVE  \A c \in Cookies :
                         LET d == agent.dialog[c]
                         IN  d.opened /\ d.state = "CLOSED" /\ d.timers = 0
                             => agent'.dialog[c].state = "CLOSED"
    OBVIOUS
  <2> QED BY NextStep DEF IInv, RestKept, AtRest
<1> QED BY <1>1, IInvAlways, PTL DEF Spec, ClosedStaysClosed
=============================================================================
