----------------------------- MODULE XletProofs -----------------------------
(***************************************************************************)
(* What an xlet rests on. Its loader: each function of extensionSystem.js  *)
(* and extension.js maps a sound state to a sound one, the folds over the  *)
(* enabled and the removed uuids by induction along the list, so that no   *)
(* order of switching, reloading and failing breaks the lists. Its         *)
(* settings: the copies agree and the xlet knows its own, for every        *)
(* sequence of schemas. What is not inductive there by itself is           *)
(* XletKnows: _checkSettings says nothing of a key that the shell's old    *)
(* copy lacks, so a copy of another version could bring back a value that  *)
(* the xlet was never told. VersionsKept is why it does not: once the      *)
(* shell has taken over the window's version, nobody holds the other one.  *)
(***************************************************************************)
EXTENDS XletLoader, XletSettings, ListLemmas

-----------------------------------------------------------------------------
(* The loader *)

Objects == [uuid : Uuids, state : {"loaded", "error"}]

\* The records that the functions pass on.
Loaders == [x : Seq(Objects), l : [Uuids -> [Phases -> Nat]], r : Seq(Uuids),
            m : SUBSET Uuids, a : [Uuids -> Nat], d : SUBSET Uuids]

\* A uuid has at most one object.
OneObject(x, u) == \A i, j \in DOMAIN x : x[i].uuid = u /\ x[j].uuid = u => i = j

\* enable() counts for an object that is not an error.
EnabledOnce(s, u) == s.a[u] = IF [uuid |-> u, state |-> "loaded"] \in ToSet(s.x) THEN 1 ELSE 0

\* Either the object is there, with its module, or one load is under way.
KnownOrLoading(s, u) ==
    /\ LoadsOf(s.l, u) <= 1
    /\ Has(s.x, u) => u \in s.m /\ LoadsOf(s.l, u) = 0

\* Unless two loads have overlapped.
OneEach(s) ==
    \A u \in Uuids \ s.d : OneObject(s.x, u) /\ EnabledOnce(s, u) /\ KnownOrLoading(s, u)

\* Without a failure no object is an error, and the list has what is active.
ListSound(s, failures) ==
    failures \cup s.d = {} =>
        /\ \A i \in DOMAIN s.x : s.x[i].state = "loaded"
        /\ ToSet(s.r) = {u \in Uuids : s.a[u] > 0}
        /\ IsInjective(s.r)

LoaderSound(s, failures) == s \in Loaders /\ OneEach(s) /\ ListSound(s, failures)

SoundLoaders(failures) == {s \in Loaders : LoaderSound(s, failures)}

Present(s, u) == Has(s.x, u) \/ LoadsOf(s.l, u) > 0

LoadersInv ==
    /\ LoaderSound(State, failed)
    /\ EnabledIsLoaded
    /\ \A u \in Uuids : LoadsOf(loads, u) + active[u] <= MaxLoads
    /\ setting \subseteq Uuids /\ enabledExtensions \subseteq Uuids /\ started \in BOOLEAN
    /\ failed \subseteq Unreliable

-----------------------------------------------------------------------------
(* The functions of the loader *)

LEMMA StartLoadSound ==
  ASSUME NEW s, NEW failures, LoaderSound(s, failures), NEW u \in Uuids
  PROVE  /\ LoaderSound(StartLoad(s, u), failures)
         /\ Present(StartLoad(s, u), u)
         /\ \A v \in Uuids : Present(s, v) => Present(StartLoad(s, u), v)
<1> DEFINE t == StartLoad(s, u)
           n == s.l[u]["metadata"]
<1>0. s \in Loaders /\ n \in Nat /\ \A v \in Uuids : LoadsOf(s.l, v) \in Nat
  BY DEF LoaderSound, Loaders, LoadsOf, Phases
<1>1. CASE Has(s.x, u)
  BY <1>1 DEF StartLoad, Present
<1>2. CASE ~Has(s.x, u)
  <2>1. /\ t \in Loaders /\ t.x = s.x /\ t.r = s.r /\ t.m = s.m /\ t.a = s.a
        /\ t.d = IF LoadsOf(s.l, u) > 0 THEN s.d \cup {u} ELSE s.d
        /\ t.l = [s.l EXCEPT ![u]["metadata"] = n + 1]
    <3> DEFINE l == [s.l EXCEPT ![u]["metadata"] = n + 1]
               d == IF LoadsOf(s.l, u) > 0 THEN s.d \cup {u} ELSE s.d
    <3>1. t = [s EXCEPT !.l = l, !.d = d]
      BY <1>2 DEF StartLoad
    <3>2. l \in [Uuids -> [Phases -> Nat]]
      BY <1>0 DEF Loaders, Phases
    <3>3. d \subseteq Uuids
      BY <1>0 DEF Loaders
    <3> HIDE DEF l, d
    <3>4. [s EXCEPT !.l = l, !.d = d] \in Loaders
      BY <1>0, <3>2, <3>3 DEF Loaders
    <3> HIDE DEF t
    <3>5. t \in Loaders /\ t.x = s.x /\ t.r = s.r /\ t.m = s.m /\ t.a = s.a /\ t.d = d /\ t.l = l
      BY <1>0, <3>1, <3>4 DEF Loaders
    <3> QED BY <3>5 DEF d, l
  <2>2. /\ LoadsOf(t.l, u) = LoadsOf(s.l, u) + 1
        /\ \A v \in Uuids \ {u} : LoadsOf(t.l, v) = LoadsOf(s.l, v)
    BY <1>0, <2>1 DEF LoadsOf, Loaders, Phases
  <2> HIDE DEF t
  <2>3. OneEach(t)
    <3> SUFFICES ASSUME NEW v \in Uuids \ t.d
                 PROVE  OneObject(t.x, v) /\ EnabledOnce(t, v) /\ KnownOrLoading(t, v)
      BY DEF OneEach
    <3>1. v \in Uuids \ s.d
      BY <2>1
    <3>2. OneObject(s.x, v) /\ EnabledOnce(s, v) /\ KnownOrLoading(s, v)
      BY <3>1 DEF LoaderSound, OneEach
    <3>3. v = u => LoadsOf(s.l, v) = 0
      BY <1>0, <2>1
    <3>4. KnownOrLoading(t, v)
      BY <1>2, <2>1, <2>2, <3>2, <3>3 DEF KnownOrLoading
    <3> QED BY <2>1, <3>2, <3>4 DEF EnabledOnce
  <2>4. ListSound(t, failures)
    BY <2>1 DEF LoaderSound, ListSound
  <2>5. Present(t, u) /\ \A v \in Uuids : Present(s, v) => Present(t, v)
    BY <1>0, <2>1, <2>2 DEF Present
  <2> QED BY <2>1, <2>3, <2>4, <2>5 DEF t, LoaderSound
<1> QED BY <1>1, <1>2

\* The first object of a uuid, when there is one.
LEMMA FirstObject ==
  ASSUME NEW x \in Seq(Objects), NEW u
  PROVE  LET i == ObjectIndex(x, u)
         IN  IF Has(x, u) THEN i \in DOMAIN x /\ x[i].uuid = u ELSE i = 0
<1> DEFINE I == {i \in 1 .. Len(x) : x[i].uuid = u}
<1>1. Len(x) \in Nat /\ DOMAIN x = 1 .. Len(x) /\ I \in SUBSET (1 .. Len(x))
  OBVIOUS
<1>2. ObjectIndex(x, u) = IF I # {} THEN Min(I) ELSE 0
  BY DEF ObjectIndex, SelectInSeq
<1>3. I # {} => Min(I) \in I
  <2> HIDE DEF I
  <2> QED BY <1>1, MinIsFirst
<1>4. Has(x, u) <=> I # {}
  BY <1>1 DEF Has
<1> QED BY <1>1, <1>2, <1>3, <1>4

LEMMA FirstPosition ==
  ASSUME NEW r \in Seq(Uuids), NEW u
  PROVE  LET i == RunningIndex(r, u)
         IN  IF u \in ToSet(r) THEN i \in DOMAIN r /\ r[i] = u ELSE i = 0
<1> DEFINE I == {i \in 1 .. Len(r) : r[i] = u}
<1>1. Len(r) \in Nat /\ DOMAIN r = 1 .. Len(r) /\ I \in SUBSET (1 .. Len(r))
  OBVIOUS
<1>2. RunningIndex(r, u) = IF I # {} THEN Min(I) ELSE 0
  BY DEF RunningIndex, SelectInSeq
<1>3. I # {} => Min(I) \in I
  <2> HIDE DEF I
  <2> QED BY <1>1, MinIsFirst
<1>4. u \in ToSet(r) <=> I # {}
  BY <1>1 DEF ToSet
<1> QED BY <1>1, <1>2, <1>3, <1>4

\* disable() counts, and the list of those running loses one, if it has any.
LEMMA DisableEffect ==
  ASSUME NEW s \in Loaders, NEW u \in Uuids
  PROVE  LET t == Disable(s, u)
         IN  /\ t \in Loaders /\ t.x = s.x /\ t.l = s.l /\ t.m = s.m /\ t.d = s.d
             /\ \A v \in Uuids :
                  t.a[v] = IF v = u /\ u \in s.m /\ s.a[u] > 0 THEN s.a[u] - 1 ELSE s.a[v]
             /\ IsInjective(s.r) /\ u \in ToSet(s.r) =>
                  IsInjective(t.r) /\ ToSet(t.r) = ToSet(s.r) \ {u}
<1> DEFINE i == RunningIndex(s.r, u)
           q == s.r
           r == IF i > 0 THEN RemoveAt(q, i) ELSE IF q # <<>> THEN Front(q) ELSE q
           t == Disable(s, u)
<1>1. q \in Seq(Uuids) /\ Len(q) \in Nat
  BY DEF Loaders
<1>2. IF u \in ToSet(q) THEN i \in DOMAIN q /\ q[i] = u ELSE i = 0
  BY <1>1, FirstPosition
<1>3. u \in ToSet(q) => i > 0
  BY <1>1, <1>2
<1>4. i \in DOMAIN q => r \in Seq(Uuids)
                        /\ (IsInjective(q) => IsInjective(RemoveAt(q, i))
                             /\ ToSet(RemoveAt(q, i)) = ToSet(q) \ {q[i]})
  <2> HIDE DEF i
  <2> QED BY <1>1, RemoveAtKeeps
<1>5. i = 0 => r \in Seq(Uuids)
  <2>1. q # <<>> => Front(q) \in Seq(Uuids)
    BY <1>1, FrontKeeps
  <2> QED BY <1>1, <2>1
<1>6. t = [s EXCEPT !.a[u] = IF u \in s.m /\ s.a[u] > 0 THEN s.a[u] - 1 ELSE s.a[u], !.r = r]
  BY DEF Disable
<1>7. r \in Seq(Uuids)
  BY <1>2, <1>4, <1>5
<1>8. IsInjective(q) /\ u \in ToSet(q) => IsInjective(r) /\ ToSet(r) = ToSet(q) \ {u}
  BY <1>2, <1>3, <1>4
<1> HIDE DEF r, i, t
<1> DEFINE a == [s.a EXCEPT ![u] = IF u \in s.m /\ s.a[u] > 0 THEN s.a[u] - 1 ELSE s.a[u]]
<1>9. a \in [Uuids -> Nat] /\ t = [s EXCEPT !.a = a, !.r = r]
  BY <1>6 DEF Loaders
<1>10. \A v \in Uuids :
         a[v] = IF v = u /\ u \in s.m /\ s.a[u] > 0 THEN s.a[u] - 1 ELSE s.a[v]
  BY DEF Loaders
<1> HIDE DEF a
<1>11. /\ t \in Loaders /\ t.x = s.x /\ t.l = s.l /\ t.m = s.m /\ t.d = s.d /\ t.r = r
       /\ t.a = a
  BY <1>7, <1>9 DEF Loaders
<1> QED BY <1>8, <1>10, <1>11 DEF t

\* The array without one of its objects.
LEMMA ObjectsLeft ==
  ASSUME NEW x \in Seq(Objects), NEW i \in DOMAIN x
  PROVE  LET rest == RemoveAt(x, i)
             u == x[i].uuid
         IN  /\ rest \in Seq(Objects)
             /\ ToSet(rest) \subseteq ToSet(x)
             /\ OneObject(x, u) => ~Has(rest, u)
             /\ \A v \in Uuids :
                  /\ Has(rest, v) => Has(x, v)
                  /\ v # u /\ Has(x, v) => Has(rest, v)
                  /\ OneObject(x, v) => OneObject(rest, v)
                  /\ v # u => ([uuid |-> v, state |-> "loaded"] \in ToSet(rest)
                                 <=> [uuid |-> v, state |-> "loaded"] \in ToSet(x))
<1> DEFINE rest == RemoveAt(x, i)
           u == x[i].uuid
<1>1. /\ rest \in Seq(Objects)
      /\ \A k \in DOMAIN rest : Skip(i, k) \in DOMAIN x \ {i} /\ rest[k] = x[Skip(i, k)]
      /\ \A k, l \in DOMAIN rest : Skip(i, k) = Skip(i, l) => k = l
      /\ \A j \in DOMAIN x \ {i} : \E k \in DOMAIN rest : Skip(i, k) = j /\ rest[k] = x[j]
  BY RemoveAtKeeps
<1> HIDE DEF rest
<1>2. ToSet(rest) \subseteq ToSet(x)
  BY <1>1 DEF ToSet
<1>3. OneObject(x, u) => ~Has(rest, u)
  BY <1>1 DEF OneObject, Has
<1>4. ASSUME NEW v \in Uuids
      PROVE  /\ Has(rest, v) => Has(x, v)
             /\ v # u /\ Has(x, v) => Has(rest, v)
             /\ OneObject(x, v) => OneObject(rest, v)
             /\ v # u => ([uuid |-> v, state |-> "loaded"] \in ToSet(rest)
                            <=> [uuid |-> v, state |-> "loaded"] \in ToSet(x))
  <2>1. (Has(rest, v) => Has(x, v)) /\ (v # u /\ Has(x, v) => Has(rest, v))
    BY <1>1 DEF Has
  <2>2. OneObject(x, v) => OneObject(rest, v)
    BY <1>1 DEF OneObject
  <2>3. ASSUME v # u PROVE [uuid |-> v, state |-> "loaded"] \in ToSet(rest)
                            <=> [uuid |-> v, state |-> "loaded"] \in ToSet(x)
    BY <1>1, <2>3 DEF ToSet
  <2> QED BY <2>1, <2>2, <2>3
<1> QED BY <1>1, <1>2, <1>3, <1>4 DEF rest

LEMMA UnloadSound ==
  ASSUME NEW s, NEW failures, LoaderSound(s, failures), NEW u \in Uuids
  PROVE  /\ LoaderSound(Unload(s, u), failures)
         /\ \A v \in Uuids \ {u} : Present(s, v) => Present(Unload(s, u), v)
<1> DEFINE i == ObjectIndex(s.x, u)
           b == Disable(s, u)
           rest == RemoveAt(s.x, i)
           t == Unload(s, u)
<1>1. s \in Loaders /\ s.x \in Seq(Objects)
  BY DEF LoaderSound, Loaders
<1>2. IF Has(s.x, u) THEN i \in DOMAIN s.x /\ s.x[i].uuid = u ELSE i = 0
  BY <1>1, FirstObject
<1> HIDE DEF i
<1>3. CASE ~Has(s.x, u)
  BY <1>2, <1>3 DEF Unload, i
<1>4. CASE Has(s.x, u)
  <2>1. i \in DOMAIN s.x /\ s.x[i].uuid = u /\ i # 0
    BY <1>1, <1>2, <1>4
  <2>2. /\ b \in Loaders /\ b.x = s.x /\ b.l = s.l /\ b.m = s.m /\ b.d = s.d
        /\ \A v \in Uuids :
             b.a[v] = IF v = u /\ u \in s.m /\ s.a[u] > 0 THEN s.a[u] - 1 ELSE s.a[v]
        /\ IsInjective(s.r) /\ u \in ToSet(s.r) =>
             IsInjective(b.r) /\ ToSet(b.r) = ToSet(s.r) \ {u}
    BY <1>1, DisableEffect
  <2>3. t = Forget(b, i)
    BY <2>1 DEF Unload, i
  <2>4. rest \in Seq(Objects) /\ ToSet(rest) \subseteq ToSet(s.x)
    BY <1>1, <2>1, ObjectsLeft
  <2>a. t = [b EXCEPT !.x = rest, !.m = s.m \ {u}]
    BY <2>1, <2>2, <2>3 DEF Forget
  <2> HIDE DEF rest, b, t
  <2>5. /\ t \in Loaders /\ t.x = rest /\ t.l = s.l /\ t.m = s.m \ {u} /\ t.d = s.d
        /\ t.r = b.r /\ t.a = b.a
    BY <2>2, <2>4, <2>a DEF Loaders
  <2>6. ~OneObject(s.x, u) \/ ~Has(rest, u)
    BY <1>1, <2>1, ObjectsLeft DEF rest
  <2>7. ASSUME NEW v \in Uuids
        PROVE  /\ Has(rest, v) => Has(s.x, v)
               /\ v # u /\ Has(s.x, v) => Has(rest, v)
               /\ OneObject(s.x, v) => OneObject(rest, v)
               /\ v # u => ([uuid |-> v, state |-> "loaded"] \in ToSet(rest)
                              <=> [uuid |-> v, state |-> "loaded"] \in ToSet(s.x))
    BY <1>1, <2>1, ObjectsLeft DEF rest
  <2>8. OneEach(t)
    <3> SUFFICES ASSUME NEW v \in Uuids \ s.d
                 PROVE  OneObject(t.x, v) /\ EnabledOnce(t, v) /\ KnownOrLoading(t, v)
      BY <2>5 DEF OneEach
    <3>1. OneObject(s.x, v) /\ EnabledOnce(s, v) /\ KnownOrLoading(s, v)
      BY DEF LoaderSound, OneEach
    <3>2. OneObject(rest, v)
      BY <2>7, <3>1
    <3>3. KnownOrLoading(t, v)
      BY <2>5, <2>6, <2>7, <3>1 DEF KnownOrLoading
    <3>4. CASE v = u
      <4>1. [uuid |-> u, state |-> "loaded"] \notin ToSet(rest)
        BY <2>6, <3>1, <3>4 DEF ToSet, Has
      <4>2. u \in s.m /\ s.a[u] \in {0, 1}
        BY <1>4, <3>1, <3>4 DEF KnownOrLoading, EnabledOnce
      <4>3. t.a[u] = 0
        BY <2>2, <2>5, <4>2
      <4> QED BY <2>5, <3>2, <3>3, <3>4, <4>1, <4>3 DEF EnabledOnce
    <3>5. CASE v # u
      <4>1. t.a[v] = s.a[v]
        BY <2>2, <2>5, <3>5
      <4>3. [uuid |-> v, state |-> "loaded"] \in ToSet(rest)
              <=> [uuid |-> v, state |-> "loaded"] \in ToSet(s.x)
        BY <2>7, <3>5
      <4> QED BY <2>5, <3>1, <3>2, <3>3, <4>1, <4>3 DEF EnabledOnce
    <3> QED BY <3>4, <3>5
  <2>9. ListSound(t, failures)
    <3> SUFFICES ASSUME failures \cup s.d = {}
                 PROVE  /\ \A j \in DOMAIN rest : rest[j].state = "loaded"
                        /\ ToSet(t.r) = {v \in Uuids : t.a[v] > 0}
                        /\ IsInjective(t.r)
      BY <2>5 DEF ListSound
    <3>1. /\ \A j \in DOMAIN s.x : s.x[j].state = "loaded"
          /\ ToSet(s.r) = {v \in Uuids : s.a[v] > 0}
          /\ IsInjective(s.r)
      BY DEF LoaderSound, ListSound
    <3>2. \A j \in DOMAIN rest : rest[j].state = "loaded"
      <4> SUFFICES ASSUME NEW j \in DOMAIN rest PROVE rest[j].state = "loaded"
        OBVIOUS
      <4>1. rest[j] \in ToSet(s.x)
        BY <2>4 DEF ToSet
      <4> QED BY <3>1, <4>1 DEF ToSet
    <3>3. EnabledOnce(s, u) /\ u \in s.m
      BY <1>4 DEF LoaderSound, OneEach, KnownOrLoading
    <3>4. s.x[i] = [uuid |-> u, state |-> "loaded"]
      <4>1. s.x[i] \in Objects /\ s.x[i].state = "loaded"
        BY <1>1, <2>1, <3>1
      <4> QED BY <2>1, <4>1 DEF Objects
    <3>5. [uuid |-> u, state |-> "loaded"] \in ToSet(s.x)
      BY <2>1, <3>4 DEF ToSet
    <3>6. s.a[u] = 1
      BY <3>3, <3>5 DEF EnabledOnce
    <3>7. u \in ToSet(s.r)
      BY <3>1, <3>6
    <3>8. t.a[u] = 0 /\ \A v \in Uuids \ {u} : t.a[v] = s.a[v]
      BY <2>2, <2>5, <3>3, <3>6
    <3>9. IsInjective(t.r) /\ ToSet(t.r) = ToSet(s.r) \ {u}
      BY <2>2, <2>5, <3>1, <3>7
    <3> QED BY <3>1, <3>2, <3>8, <3>9
  <2>10. \A v \in Uuids \ {u} : Present(s, v) => Present(t, v)
    BY <2>5, <2>7 DEF Present
  <2> QED BY <2>5, <2>8, <2>9, <2>10 DEF LoaderSound, t
<1> QED BY <1>3, <1>4

\* The loads of initEnabledExtensions, one after the other.
LEMMA LoadAllSteps ==
  ASSUME NEW failures, NEW s \in SoundLoaders(failures),
         NEW us \in Seq(Uuids)
  PROVE  \E tr : /\ tr[0] = s
                 /\ \A k \in 1 .. Len(us) : tr[k] = StartLoad(tr[k - 1], us[k])
                 /\ \A k \in 0 .. Len(us) : tr[k] \in SoundLoaders(failures)
                 /\ LoadAll(s, us) = tr[Len(us)]
<1> DEFINE X == SoundLoaders(failures)
           n == Len(us)
           step == [p \in X \X Uuids |-> StartLoad(p[1], p[2])]
           Eq(jt) == jt = [t \in SUBSET (1 .. n) |->
                             IF t = {} THEN s ELSE StartLoad(jt[t \ {Max(t)}], us[Max(t)])]
<1>1. n \in Nat /\ us \in [1 .. n -> Uuids] /\ DOMAIN us = 1 .. n
  OBVIOUS
<1>2. \A y \in X, u \in Uuids : StartLoad(y, u) \in X
  BY StartLoadSound DEF LoaderSound, SoundLoaders
<1>3. step \in [X \X Uuids -> X]
  BY <1>2
<1>4. PICK it \in [SUBSET (1 .. n) -> X] : FoldEq(it, step, s, us, n)
  <2> HIDE DEF step, n
  <2> QED BY <1>1, <1>3, FoldExists
<1>5. Eq(it)
  <2>1. ASSUME NEW t \in SUBSET (1 .. n), t # {}
        PROVE  step[<<it[t \ {Max(t)}], us[Max(t)]>>] = StartLoad(it[t \ {Max(t)}], us[Max(t)])
    <3>1. Max(t) \in 1 .. n
      <4> HIDE DEF n
      <4> QED BY <1>1, <2>1, MaxIsLast
    <3>2. t \ {Max(t)} \in SUBSET (1 .. n)
      OBVIOUS
    <3>3. <<it[t \ {Max(t)}], us[Max(t)]>> \in X \X Uuids
      BY <1>1, <1>4, <3>1, <3>2
    <3> QED BY <3>3
  <2> HIDE DEF step
  <2> QED BY <1>4, <2>1 DEF FoldEq
<1> HIDE DEF step
<1>6. LoadAll(s, us) = (CHOOSE jt : Eq(jt))[1 .. n]
  BY <1>1 DEF LoadAll, FoldLeft, MapThenFoldSet
<1>7. PICK jt : Eq(jt) /\ LoadAll(s, us) = jt[1 .. n]
  BY <1>5, <1>6
<1> DEFINE tr == [k \in 0 .. n |-> jt[1 .. k]]
<1>8. jt[{}] = s /\ \A k \in 1 .. n : jt[1 .. k] = StartLoad(jt[1 .. (k - 1)], us[k])
  <2>1. {} \in SUBSET (1 .. n)
    OBVIOUS
  <2> HIDE DEF n
  <2>2. \A k \in 1 .. n : /\ 1 .. k \in SUBSET (1 .. n) /\ 1 .. k # {}
                          /\ Max(1 .. k) = k /\ (1 .. k) \ {k} = 1 .. (k - 1)
    BY <1>1, FoldSteps
  <2>3. jt[{}] = s
    BY <1>7, <2>1
  <2>4. ASSUME NEW k \in 1 .. n
        PROVE  jt[1 .. k] = StartLoad(jt[1 .. (k - 1)], us[k])
    <3>1. 1 .. k \in SUBSET (1 .. n) /\ 1 .. k # {} /\ Max(1 .. k) = k
          /\ (1 .. k) \ {k} = 1 .. (k - 1)
      BY <2>2
    <3>2. jt[1 .. k] = StartLoad(jt[(1 .. k) \ {Max(1 .. k)}], us[Max(1 .. k)])
      BY ONLY <1>7, <3>1
    <3> QED BY <3>1, <3>2
  <2> QED BY <2>3, <2>4
<1>9. 1 .. 0 = {} /\ 0 \in 0 .. n /\ n \in 0 .. n
      /\ \A k \in 1 .. n : k \in 0 .. n /\ k - 1 \in 0 .. n
  BY <1>1
<1>10. /\ tr[0] = s /\ tr[n] = LoadAll(s, us)
       /\ \A k \in 1 .. n : tr[k] = StartLoad(tr[k - 1], us[k])
  BY <1>7, <1>8, <1>9
<1> HIDE DEF tr
<1>11. \A k \in 0 .. n : tr[k] \in X
  <2> DEFINE S == {k \in 0 .. n : tr[k] \in X}
  <2>1. 0 \in S
    BY <1>9, <1>10
  <2>2. \A k \in 1 .. n : k - 1 \in S => k \in S
    BY <1>1, <1>2, <1>9, <1>10
  <2> HIDE DEF S, n
  <2>3. \A k \in 0 .. n : k \in S
    BY <1>1, <2>1, <2>2, StepsInduct
  <2> QED BY <2>3 DEF S
<1> QED BY <1>10, <1>11
LEMMA LoadAllSound ==
  ASSUME NEW s, NEW failures, LoaderSound(s, failures), NEW us \in Seq(Uuids)
  PROVE  /\ LoaderSound(LoadAll(s, us), failures)
         /\ \A v \in Uuids : Present(s, v) \/ v \in ToSet(us) => Present(LoadAll(s, us), v)
<1> DEFINE X == SoundLoaders(failures)
           n == Len(us)
<1>1. n \in Nat /\ DOMAIN us = 1 .. n /\ \A k \in 1 .. n : us[k] \in Uuids
  OBVIOUS
<1>2. s \in X
  BY DEF LoaderSound, SoundLoaders
<1>3. PICK tr : /\ tr[0] = s
                /\ \A k \in 1 .. n : tr[k] = StartLoad(tr[k - 1], us[k])
                /\ \A k \in 0 .. n : tr[k] \in X
                /\ LoadAll(s, us) = tr[n]
  BY <1>2, LoadAllSteps
<1>4. ASSUME NEW k \in 1 .. n
      PROVE  /\ Present(tr[k], us[k])
             /\ \A v \in Uuids : Present(tr[k - 1], v) => Present(tr[k], v)
  <2>1. k - 1 \in 0 .. n
    BY <1>1
  <2>2. LoaderSound(tr[k - 1], failures)
    BY <1>3, <2>1 DEF SoundLoaders
  <2> QED BY <1>1, <1>3, <2>2, StartLoadSound
<1> DEFINE S == {k \in 0 .. n : \A v \in Uuids :
                   Present(s, v) \/ (\E j \in 1 .. k : us[j] = v) => Present(tr[k], v)}
<1>5. 0 \in S
  BY <1>1, <1>3
<1>6. ASSUME NEW k \in 1 .. n, k - 1 \in S PROVE k \in S
  <2>1. \A j \in 1 .. k : j = k \/ j \in 1 .. (k - 1)
    BY <1>1
  <2>2. ASSUME NEW v \in Uuids, Present(s, v) \/ \E j \in 1 .. k : us[j] = v
        PROVE  Present(tr[k], v)
    BY <1>4, <1>6, <2>1, <2>2
  <2>3. k \in 0 .. n
    BY <1>1
  <2> QED BY <2>2, <2>3
<1>7. n \in S
  <2> HIDE DEF S, n
  <2>1. \A k \in 0 .. n : k \in S
    BY <1>1, <1>5, <1>6, StepsInduct
  <2> QED BY <1>1, <2>1
<1>8. LoaderSound(tr[n], failures)
  BY <1>1, <1>3 DEF SoundLoaders
<1> QED BY <1>1, <1>3, <1>7, <1>8 DEF ToSet

\* The unloads of unloadRemovedExtensions.
LEMMA UnloadRemovedSteps ==
  ASSUME NEW failures, NEW s \in SoundLoaders(failures), NEW uuids
  PROVE  \E tr : /\ tr[0] = s
                 /\ \A k \in 1 .. Len(s.x) :
                      tr[k] = IF s.x[k].uuid \in uuids THEN tr[k - 1]
                              ELSE Unload(tr[k - 1], s.x[k].uuid)
                 /\ \A k \in 0 .. Len(s.x) : tr[k] \in SoundLoaders(failures)
                 /\ UnloadRemoved(s, uuids) = tr[Len(s.x)]
<1> DEFINE Keep(y, o) == IF o.uuid \in uuids THEN y ELSE Unload(y, o.uuid)
           X == SoundLoaders(failures)
           n == Len(s.x)
           step == [p \in X \X Objects |-> Keep(p[1], p[2])]
           Eq(jt) == jt = [t \in SUBSET (1 .. n) |->
                             IF t = {} THEN s ELSE Keep(jt[t \ {Max(t)}], s.x[Max(t)])]
<1>1. n \in Nat /\ s.x \in [1 .. n -> Objects] /\ DOMAIN s.x = 1 .. n
  BY DEF Loaders, SoundLoaders
<1>2. \A y \in X, o \in Objects : Keep(y, o) \in X
  BY UnloadSound DEF LoaderSound, Objects, SoundLoaders
<1> HIDE DEF Keep
<1>3. step \in [X \X Objects -> X]
  BY <1>2
<1>4. PICK it \in [SUBSET (1 .. n) -> X] : FoldEq(it, step, s, s.x, n)
  <2> HIDE DEF step, n
  <2> QED BY <1>1, <1>3, FoldExists
<1>5. Eq(it)
  <2>1. ASSUME NEW t \in SUBSET (1 .. n), t # {}
        PROVE  step[<<it[t \ {Max(t)}], s.x[Max(t)]>>] = Keep(it[t \ {Max(t)}], s.x[Max(t)])
    <3>1. Max(t) \in 1 .. n
      <4> HIDE DEF n
      <4> QED BY <1>1, <2>1, MaxIsLast
    <3>2. t \ {Max(t)} \in SUBSET (1 .. n)
      OBVIOUS
    <3>3. <<it[t \ {Max(t)}], s.x[Max(t)]>> \in X \X Objects
      BY <1>1, <1>4, <3>1, <3>2
    <3> QED BY <3>3
  <2> HIDE DEF step
  <2> QED BY <1>4, <2>1 DEF FoldEq
<1> HIDE DEF step
<1>6. UnloadRemoved(s, uuids) = (CHOOSE jt : Eq(jt))[1 .. n]
  BY <1>1 DEF UnloadRemoved, FoldLeft, MapThenFoldSet, Keep
<1>7. PICK jt : Eq(jt) /\ UnloadRemoved(s, uuids) = jt[1 .. n]
  BY <1>5, <1>6
<1> DEFINE tr == [k \in 0 .. n |-> jt[1 .. k]]
<1>8. jt[{}] = s /\ \A k \in 1 .. n : jt[1 .. k] = Keep(jt[1 .. (k - 1)], s.x[k])
  <2>1. {} \in SUBSET (1 .. n)
    OBVIOUS
  <2> HIDE DEF n
  <2>2. \A k \in 1 .. n : /\ 1 .. k \in SUBSET (1 .. n) /\ 1 .. k # {}
                          /\ Max(1 .. k) = k /\ (1 .. k) \ {k} = 1 .. (k - 1)
    BY <1>1, FoldSteps
  <2>3. jt[{}] = s
    BY <1>7, <2>1
  <2>4. ASSUME NEW k \in 1 .. n
        PROVE  jt[1 .. k] = Keep(jt[1 .. (k - 1)], s.x[k])
    <3>1. 1 .. k \in SUBSET (1 .. n) /\ 1 .. k # {} /\ Max(1 .. k) = k
          /\ (1 .. k) \ {k} = 1 .. (k - 1)
      BY <2>2
    <3>2. jt[1 .. k] = Keep(jt[(1 .. k) \ {Max(1 .. k)}], s.x[Max(1 .. k)])
      BY ONLY <1>7, <3>1
    <3> QED BY <3>1, <3>2
  <2> QED BY <2>3, <2>4
<1>9. 1 .. 0 = {} /\ 0 \in 0 .. n /\ n \in 0 .. n
      /\ \A k \in 1 .. n : k \in 0 .. n /\ k - 1 \in 0 .. n
  BY <1>1
<1>10. /\ tr[0] = s /\ tr[n] = UnloadRemoved(s, uuids)
       /\ \A k \in 1 .. n : tr[k] = Keep(tr[k - 1], s.x[k])
  BY <1>7, <1>8, <1>9
<1> HIDE DEF tr
<1>11. \A k \in 0 .. n : tr[k] \in X
  <2> DEFINE S == {k \in 0 .. n : tr[k] \in X}
  <2>1. 0 \in S
    BY <1>9, <1>10
  <2>2. \A k \in 1 .. n : k - 1 \in S => k \in S
    BY <1>1, <1>2, <1>9, <1>10
  <2> HIDE DEF S, n
  <2>3. \A k \in 0 .. n : k \in S
    BY <1>1, <2>1, <2>2, StepsInduct
  <2> QED BY <2>3 DEF S
<1> QED BY <1>10, <1>11 DEF Keep
LEMMA UnloadRemovedSound ==
  ASSUME NEW s, NEW failures, LoaderSound(s, failures), NEW uuids
  PROVE  LoaderSound(UnloadRemoved(s, uuids), failures)
<1> DEFINE X == SoundLoaders(failures)
           n == Len(s.x)
<1>1. n \in Nat
  BY DEF LoaderSound, Loaders
<1>2. s \in X
  BY DEF LoaderSound, SoundLoaders
<1>3. PICK tr : (\A k \in 0 .. n : tr[k] \in X) /\ UnloadRemoved(s, uuids) = tr[n]
  BY <1>2, UnloadRemovedSteps
<1> QED BY <1>1, <1>3 DEF SoundLoaders

\* What push() and logError do to the array.
LEMMA PushObject ==
  ASSUME NEW x \in Seq(Objects), NEW o \in Objects
  PROVE  LET y == Append(x, o)
         IN  /\ y \in Seq(Objects)
             /\ ToSet(y) = ToSet(x) \cup {o}
             /\ \A v : /\ Has(y, v) <=> Has(x, v) \/ v = o.uuid
                       /\ OneObject(x, v) /\ (v = o.uuid => ~Has(x, v)) => OneObject(y, v)
<1> DEFINE y == Append(x, o)
           n == Len(x)
<1>1. n \in Nat /\ DOMAIN x = 1 .. n
  OBVIOUS
<1>2. y \in Seq(Objects) /\ DOMAIN y = 1 .. (n + 1)
  OBVIOUS
<1>3. y[n + 1] = o /\ \A k \in 1 .. n : y[k] = x[k]
  OBVIOUS
<1> HIDE DEF y, n
<1>a. \A k \in 1 .. (n + 1) : k = n + 1 \/ k \in 1 .. n
  BY <1>1
<1>b. n + 1 \in 1 .. (n + 1) /\ \A k \in 1 .. n : k \in 1 .. (n + 1)
  BY <1>1
<1>4. ToSet(y) = ToSet(x) \cup {o}
  BY <1>1, <1>2, <1>3, <1>a, <1>b DEF ToSet
<1>5. ASSUME NEW v PROVE Has(y, v) <=> Has(x, v) \/ v = o.uuid
  BY <1>1, <1>2, <1>3, <1>a, <1>b DEF Has
<1>6. ASSUME NEW v, OneObject(x, v), v = o.uuid => ~Has(x, v) PROVE OneObject(y, v)
  <2> SUFFICES ASSUME NEW j \in DOMAIN y, NEW k \in DOMAIN y, y[j].uuid = v, y[k].uuid = v
               PROVE  j = k
    BY DEF OneObject
  <2>1. CASE v = o.uuid
    <3>1. \A i \in 1 .. n : x[i].uuid # v
      BY <1>1, <1>6, <2>1 DEF Has
    <3> QED BY <1>2, <1>3, <1>a, <3>1
  <2>2. CASE v # o.uuid
    <3>1. j \in 1 .. n /\ k \in 1 .. n
      BY <1>2, <1>3, <1>a, <2>2
    <3> QED BY <1>1, <1>3, <1>6, <3>1 DEF OneObject
  <2> QED BY <2>1, <2>2
<1> QED BY <1>2, <1>4, <1>5, <1>6 DEF y

LEMMA MarkErrorEffect ==
  ASSUME NEW x \in Seq(Objects), NEW u
  PROVE  LET y == MarkError(x, u)
         IN  /\ y \in Seq(Objects)
             /\ ~Has(x, u) => y = x
             /\ OneObject(x, u) => [uuid |-> u, state |-> "loaded"] \notin ToSet(y)
             /\ \A v : /\ Has(y, v) <=> Has(x, v)
                       /\ OneObject(x, v) => OneObject(y, v)
                       /\ v # u => ([uuid |-> v, state |-> "loaded"] \in ToSet(y)
                                      <=> [uuid |-> v, state |-> "loaded"] \in ToSet(x))
<1> DEFINE i == ObjectIndex(x, u)
           y == MarkError(x, u)
<1>1. IF Has(x, u) THEN i \in DOMAIN x /\ x[i].uuid = u ELSE i = 0
  BY FirstObject
<1>2. y = IF i = 0 THEN x ELSE [x EXCEPT ![i].state = "error"]
  BY DEF MarkError
<1> HIDE DEF i, y
<1>3. CASE ~Has(x, u)
  <2>1. y = x
    BY <1>1, <1>2, <1>3
  <2>2. [uuid |-> u, state |-> "loaded"] \notin ToSet(y)
    BY <1>3, <2>1 DEF Has, ToSet
  <2> QED BY <2>1, <2>2 DEF y
<1>4. CASE Has(x, u)
  <2> DEFINE o == [x[i] EXCEPT !.state = "error"]
  <2>1. i \in DOMAIN x /\ x[i].uuid = u /\ i # 0 /\ x[i] \in Objects
    BY <1>1, <1>4
  <2>2. o \in Objects /\ o.uuid = u /\ o.state = "error"
    BY <2>1 DEF Objects
  <2>3. y = [x EXCEPT ![i] = o]
    BY <1>2, <2>1
  <2> HIDE DEF o
  <2>4. /\ y \in Seq(Objects) /\ DOMAIN y = DOMAIN x /\ y[i] = o
        /\ \A k \in DOMAIN x : k # i => y[k] = x[k]
    BY <2>1, <2>2, <2>3
  <2>5. \A k \in DOMAIN x : y[k].uuid = x[k].uuid
    BY <2>1, <2>2, <2>4
  <2>6. ASSUME OneObject(x, u) PROVE [uuid |-> u, state |-> "loaded"] \notin ToSet(y)
    BY <2>1, <2>2, <2>4, <2>5, <2>6 DEF OneObject, ToSet
  <2>7. ASSUME NEW v PROVE (Has(y, v) <=> Has(x, v)) /\ (OneObject(x, v) => OneObject(y, v))
    BY <2>4, <2>5 DEF Has, OneObject
  <2>8. ASSUME NEW v, v # u
        PROVE  [uuid |-> v, state |-> "loaded"] \in ToSet(y)
                 <=> [uuid |-> v, state |-> "loaded"] \in ToSet(x)
    BY <2>1, <2>2, <2>4, <2>8 DEF ToSet
  <2> QED BY <1>4, <2>4, <2>6, <2>7, <2>8 DEF y
<1> QED BY <1>3, <1>4

-----------------------------------------------------------------------------
(* The steps of the loader *)

LEMMA BecomesSound ==
  ASSUME NEW s, LoaderSound(s, failed'), Becomes(s)
  PROVE  State' = s /\ LoaderSound(State, failed)'
<1>1. s \in Loaders
  BY DEF LoaderSound
<1>2. s = [x |-> s.x, l |-> s.l, r |-> s.r, m |-> s.m, a |-> s.a, d |-> s.d]
  BY <1>1 DEF Loaders
<1>3. State' = s
  BY <1>2 DEF State, Becomes
<1> QED BY <1>3

LEMMA LoadersInitSound == LoaderInit => LoadersInv
<1> SUFFICES ASSUME LoaderInit PROVE LoadersInv
  OBVIOUS
<1>1. /\ extensions = <<>> /\ running = <<>> /\ module = {} /\ failed = {} /\ doubled = {}
      /\ active = [u \in Uuids |-> 0] /\ setting \subseteq Uuids
      /\ enabledExtensions = setting /\ started = FALSE
      /\ loads = [u \in Uuids |-> [p \in Phases |->
                    IF p = "metadata" /\ u \in setting THEN 1 ELSE 0]]
  BY DEF LoaderInit
<1>2. \A u \in Uuids : LoadsOf(loads, u) = IF u \in setting THEN 1 ELSE 0
  BY <1>1 DEF LoadsOf, Phases
<1>3. State \in Loaders
  BY <1>1 DEF State, Loaders, Objects
<1>4. \A u : ~Has(extensions, u)
  BY <1>1 DEF Has
<1>5. \A u \in Uuids : OneObject(extensions, u) /\ EnabledOnce(State, u) /\ KnownOrLoading(State, u)
  <2> TAKE u \in Uuids
  <2>1. OneObject(extensions, u)
    BY <1>1 DEF OneObject
  <2>2. EnabledOnce(State, u)
    BY <1>1 DEF EnabledOnce, State, ToSet
  <2>3. KnownOrLoading(State, u)
    BY <1>2, <1>4 DEF KnownOrLoading, State
  <2> QED BY <2>1, <2>2, <2>3
<1>6. ListSound(State, failed)
  BY <1>1 DEF ListSound, State, ToSet, IsInjective
<1>7. EnabledIsLoaded
  BY <1>1, <1>2 DEF EnabledIsLoaded, Loading
<1>8. \A u \in Uuids : LoadsOf(loads, u) + active[u] <= MaxLoads
  BY <1>1, <1>2, LoaderAssumption
<1> QED BY <1>1, <1>3, <1>5, <1>6, <1>7, <1>8 DEF LoadersInv, LoaderSound, OneEach, State

\* SettingChanges and Reload: what they pass on is sound, and has what is enabled.
LEMMA SettingChangesSound ==
  ASSUME LoadersInv, NEW u \in Uuids, SettingChanges(u)
  PROVE  LoadersInv'
<1> DEFINE new == IF u \in setting THEN setting \ {u} ELSE setting \cup {u}
           a == UnloadRemoved(State, new)
           b == LoadAll(a, SetToSeq(new))
<1>0. new \subseteq Uuids /\ setting' = new /\ UNCHANGED <<started, failed>>
  BY DEF LoadersInv, SettingChanges
<1>1. CASE ~started
  <2>1. UNCHANGED <<enabledExtensions, extensions, loads, running, module, active, doubled>>
    BY <1>1 DEF SettingChanges
  <2>2. State' = State
    BY <2>1 DEF State
  <2> QED BY <1>0, <2>1, <2>2 DEF LoadersInv, EnabledIsLoaded, Known, Loading
<1>2. CASE started
  <2>1. enabledExtensions' = new /\ Becomes(b) /\ WithinBound
    BY <1>2 DEF SettingChanges
  <2>2. LoaderSound(a, failed)
    BY UnloadRemovedSound DEF LoadersInv
  <2>3. /\ SetToSeq(new) \in Seq(Uuids)
        /\ ToSet(SetToSeq(new)) = new
    <3>1. IsFiniteSet(new)
      BY <1>0, LoaderAssumption, FS_Subset
    <3> HIDE DEF new
    <3> QED BY <1>0, <3>1, SetToSeqLists
  <2> HIDE DEF a, new
  <2>4. LoaderSound(b, failed) /\ \A v \in new : Present(b, v)
    BY <1>0, <2>2, <2>3, LoadAllSound
  <2> HIDE DEF b
  <2>5. State' = b /\ LoaderSound(State, failed)'
    BY <1>0, <2>1, <2>4, BecomesSound
  <2>6. EnabledIsLoaded'
    BY <2>1, <2>4 DEF EnabledIsLoaded, Known, Loading, Present, Becomes
  <2> QED BY <1>0, <2>1, <2>5, <2>6 DEF LoadersInv, WithinBound
<1> QED BY <1>1, <1>2 DEF LoadersInv

LEMMA ReloadSound ==
  ASSUME LoadersInv, NEW u \in Uuids, Reload(u)
  PROVE  LoadersInv'
<1> DEFINE a == Unload(State, u)
           b == StartLoad(a, u)
<1>1. /\ Becomes(b) /\ WithinBound
      /\ UNCHANGED <<setting, enabledExtensions, started, failed>>
  BY DEF Reload
<1>2. LoaderSound(State, failed) /\ enabledExtensions \subseteq Uuids
  BY DEF LoadersInv
<1>3. LoaderSound(a, failed) /\ \A v \in Uuids \ {u} : Present(State, v) => Present(a, v)
  BY <1>2, UnloadSound
<1> HIDE DEF a
<1>4. LoaderSound(b, failed) /\ Present(b, u) /\ \A v \in Uuids : Present(a, v) => Present(b, v)
  BY <1>3, StartLoadSound
<1> HIDE DEF b
<1>5. State' = b /\ LoaderSound(State, failed)'
  BY <1>1, <1>4, BecomesSound
<1>6. \A v \in Uuids : Present(State, v) <=> Known(v) \/ Loading(v)
  BY DEF Present, State, Known, Loading
<1>7. \A v \in enabledExtensions \ failed : Present(b, v)
  BY <1>2, <1>3, <1>4, <1>6 DEF LoadersInv, EnabledIsLoaded
<1>8. EnabledIsLoaded'
  BY <1>1, <1>7 DEF EnabledIsLoaded, Known, Loading, Present, Becomes
<1> QED BY <1>1, <1>5, <1>8 DEF LoadersInv, WithinBound

LEMMA StateIs ==
  /\ State.x = extensions /\ State.l = loads /\ State.r = running
  /\ State.m = module /\ State.a = active /\ State.d = doubled
BY DEF State

\* The fields of a sound state.
LEMMA SoundRanges ==
  ASSUME LoadersInv
  PROVE  /\ extensions \in Seq(Objects) /\ running \in Seq(Uuids)
         /\ loads \in [Uuids -> [Phases -> Nat]] /\ active \in [Uuids -> Nat]
         /\ module \subseteq Uuids /\ doubled \subseteq Uuids
BY StateIs DEF LoadersInv, LoaderSound, Loaders

LEMMA MetadataLoadedSound ==
  ASSUME LoadersInv, NEW u \in Uuids, MetadataLoaded(u)
  PROVE  LoadersInv'
<1>1. loads' = [loads EXCEPT ![u]["metadata"] = loads[u]["metadata"] - 1,
                             ![u]["module"] = loads[u]["module"] + 1]
  BY SoundRanges DEF MetadataLoaded, Phases
<1>2. /\ loads' \in [Uuids -> [Phases -> Nat]]
      /\ \A v \in Uuids : LoadsOf(loads', v) = LoadsOf(loads, v)
  BY <1>1, SoundRanges DEF MetadataLoaded, LoadsOf, Phases
<1>3. UNCHANGED <<setting, enabledExtensions, started, extensions, running, module, active,
                  failed, doubled>>
  BY DEF MetadataLoaded
<1>4. State' \in Loaders
  BY <1>2, <1>3, SoundRanges DEF State, Loaders
<1>5. OneEach(State)'
  <2> SUFFICES ASSUME NEW v \in Uuids \ doubled
               PROVE  (OneObject(extensions, v) /\ EnabledOnce(State, v)
                        /\ KnownOrLoading(State, v))'
    BY <1>3, StateIs DEF OneEach, State
  <2>1. OneObject(extensions, v) /\ EnabledOnce(State, v) /\ KnownOrLoading(State, v)
    BY StateIs DEF LoadersInv, LoaderSound, OneEach
  <2> QED BY <1>2, <1>3, <2>1 DEF OneObject, EnabledOnce, KnownOrLoading, Has, State
<1>6. ListSound(State, failed)'
  BY <1>3 DEF LoadersInv, LoaderSound, ListSound, State
<1>7. EnabledIsLoaded'
  BY <1>2, <1>3 DEF LoadersInv, EnabledIsLoaded, Known, Has, Loading
<1> QED BY <1>2, <1>3, <1>4, <1>5, <1>6, <1>7 DEF LoadersInv, LoaderSound

\* A load is no longer under way.
Ended(u, p) == [loads EXCEPT ![u][p] = loads[u][p] - 1]

LEMMA LoadEnds ==
  ASSUME LoadersInv, NEW u \in Uuids, NEW p \in Phases, loads[u][p] > 0
  PROVE  /\ Ended(u, p) \in [Uuids -> [Phases -> Nat]]
         /\ LoadsOf(loads, u) \in Nat /\ LoadsOf(Ended(u, p), u) = LoadsOf(loads, u) - 1
         /\ \A v \in Uuids \ {u} : LoadsOf(Ended(u, p), v) = LoadsOf(loads, v)
         /\ u \notin doubled => /\ LoadsOf(loads, u) = 1 /\ LoadsOf(Ended(u, p), u) = 0
                                /\ active[u] = 0 /\ ~Has(extensions, u)
<1>1. /\ Ended(u, p) \in [Uuids -> [Phases -> Nat]]
      /\ LoadsOf(loads, u) \in Nat /\ LoadsOf(Ended(u, p), u) = LoadsOf(loads, u) - 1
      /\ LoadsOf(loads, u) > 0
      /\ \A v \in Uuids \ {u} : LoadsOf(Ended(u, p), v) = LoadsOf(loads, v)
  BY SoundRanges DEF Ended, LoadsOf, Phases
<1>2. ASSUME u \notin doubled
      PROVE  /\ LoadsOf(loads, u) = 1 /\ LoadsOf(Ended(u, p), u) = 0
             /\ active[u] = 0 /\ ~Has(extensions, u)
  <2>1. OneObject(extensions, u) /\ EnabledOnce(State, u) /\ KnownOrLoading(State, u)
    BY <1>2, StateIs DEF LoadersInv, LoaderSound, OneEach
  <2>2. LoadsOf(loads, u) <= 1 /\ ~Has(extensions, u)
    BY <1>1, <2>1, StateIs DEF KnownOrLoading
  <2>3. [uuid |-> u, state |-> "loaded"] \notin ToSet(extensions)
    BY <2>2 DEF Has, ToSet
  <2>4. active[u] = 0
    BY <2>1, <2>3, StateIs DEF EnabledOnce
  <2> QED BY <1>1, <2>2, <2>4
<1> QED BY <1>1, <1>2

\* A failure: its object, if there is one, is an error.
LEMMA FailureSound ==
  ASSUME LoadersInv, NEW u \in Uuids, NEW p \in Phases, loads[u][p] > 0, u \in Unreliable,
         loads' = Ended(u, p),
         module \subseteq module', module' \subseteq module \cup {u},
         failed' = failed \cup {u},
         extensions' \in Seq(Objects),
         u \notin doubled =>
            /\ OneObject(extensions', u)
            /\ [uuid |-> u, state |-> "loaded"] \notin ToSet(extensions')
            /\ Has(extensions', u) => u \in module',
         \A v \in Uuids \ {u} :
            /\ Has(extensions', v) <=> Has(extensions, v)
            /\ OneObject(extensions, v) => OneObject(extensions', v)
            /\ [uuid |-> v, state |-> "loaded"] \in ToSet(extensions')
                 <=> [uuid |-> v, state |-> "loaded"] \in ToSet(extensions),
         UNCHANGED <<setting, enabledExtensions, started, running, active, doubled>>
  PROVE  LoadersInv'
<1>1. /\ loads' \in [Uuids -> [Phases -> Nat]]
      /\ LoadsOf(loads, u) \in Nat /\ LoadsOf(loads', u) = LoadsOf(loads, u) - 1
      /\ \A v \in Uuids \ {u} : LoadsOf(loads', v) = LoadsOf(loads, v)
      /\ u \notin doubled => LoadsOf(loads', u) = 0 /\ active[u] = 0
  BY LoadEnds
<1>2. State' \in Loaders
  BY <1>1, SoundRanges DEF State, Loaders
<1>3. OneEach(State)'
  <2> SUFFICES ASSUME NEW v \in Uuids \ doubled
               PROVE  (OneObject(extensions, v) /\ EnabledOnce(State, v)
                        /\ KnownOrLoading(State, v))'
    BY StateIs DEF OneEach, State
  <2>1. CASE v = u
    <3>1. KnownOrLoading(State, v)'
      BY <1>1, <2>1 DEF KnownOrLoading, State
    <3>2. EnabledOnce(State, v)'
      BY <1>1, <2>1 DEF EnabledOnce, State
    <3> QED BY <2>1, <3>1, <3>2
  <2>2. CASE v # u
    <3>1. OneObject(extensions, v) /\ EnabledOnce(State, v) /\ KnownOrLoading(State, v)
      BY StateIs DEF LoadersInv, LoaderSound, OneEach
    <3>2. KnownOrLoading(State, v)'
      BY <1>1, <2>2, <3>1 DEF KnownOrLoading, State
    <3>3. EnabledOnce(State, v)'
      BY <2>2, <3>1 DEF EnabledOnce, State
    <3> QED BY <2>2, <3>1, <3>2, <3>3
  <2> QED BY <2>1, <2>2
<1>4. ListSound(State, failed)'
  BY DEF ListSound, State
<1>5. EnabledIsLoaded'
  BY <1>1 DEF LoadersInv, EnabledIsLoaded, Known, Loading
<1>6. \A v \in Uuids : LoadsOf(loads', v) + active'[v] <= MaxLoads
  <2> TAKE v \in Uuids
  <2>1. LoadsOf(loads, v) + active[v] <= MaxLoads /\ active[v] \in Nat
    BY SoundRanges DEF LoadersInv
  <2>2. CASE v = u
    BY <1>1, <2>1, <2>2, LoaderAssumption
  <2>3. CASE v # u
    BY <1>1, <2>1, <2>3
  <2> QED BY <2>2, <2>3
<1>7. failed' \subseteq Unreliable
  BY DEF LoadersInv
<1> QED BY <1>2, <1>3, <1>4, <1>5, <1>6, <1>7 DEF LoadersInv, LoaderSound

LEMMA LoadFailsSound ==
  ASSUME LoadersInv, NEW u \in Uuids, NEW p \in Phases, LoadFails(u, p)
  PROVE  LoadersInv'
<1>1. /\ loads[u][p] > 0 /\ u \in Unreliable /\ failed' = failed \cup {u}
      /\ loads' = Ended(u, p)
      /\ extensions' = MarkError(extensions, u)
      /\ UNCHANGED <<setting, enabledExtensions, started, running, active, doubled>>
  BY DEF LoadFails, Ended
<1>2. module \subseteq module' /\ module' \subseteq module \cup {u}
  BY DEF LoadFails
<1>3. /\ extensions' \in Seq(Objects)
      /\ \A v \in Uuids \ {u} :
            /\ Has(extensions', v) <=> Has(extensions, v)
            /\ OneObject(extensions, v) => OneObject(extensions', v)
            /\ [uuid |-> v, state |-> "loaded"] \in ToSet(extensions')
                 <=> [uuid |-> v, state |-> "loaded"] \in ToSet(extensions)
  BY <1>1, SoundRanges, MarkErrorEffect
<1>4. ASSUME u \notin doubled
      PROVE  /\ OneObject(extensions', u) /\ ~Has(extensions', u)
             /\ [uuid |-> u, state |-> "loaded"] \notin ToSet(extensions')
  <2>1. ~Has(extensions, u)
    BY <1>1, <1>4, LoadEnds
  <2>2. extensions' = extensions
    BY <1>1, <2>1, SoundRanges, MarkErrorEffect
  <2> QED BY <2>1, <2>2 DEF OneObject, Has, ToSet
<1> QED BY <1>1, <1>2, <1>3, <1>4, FailureSound

LEMMA EnableFailsSound ==
  ASSUME LoadersInv, NEW u \in Uuids, EnableFails(u)
  PROVE  LoadersInv'
<1> DEFINE o == [uuid |-> u, state |-> "error"]
           x == Append(extensions, o)
           p == "module"
<1>0. p \in Phases /\ o \in Objects
  BY DEF Phases, Objects
<1>1. /\ loads[u][p] > 0 /\ u \in Unreliable /\ failed' = failed \cup {u}
      /\ loads' = Ended(u, p)
      /\ extensions' = MarkError(x, u) /\ module' = module \cup {u}
      /\ UNCHANGED <<setting, enabledExtensions, started, running, active, doubled>>
  BY DEF EnableFails, Ended
<1>2. /\ x \in Seq(Objects) /\ ToSet(x) = ToSet(extensions) \cup {o}
      /\ \A v : /\ Has(x, v) <=> Has(extensions, v) \/ v = u
                /\ OneObject(extensions, v) /\ (v = u => ~Has(extensions, v)) => OneObject(x, v)
  <2>1. o.uuid = u /\ extensions \in Seq(Objects)
    BY SoundRanges
  <2> HIDE DEF o
  <2> QED BY <1>0, <2>1, PushObject
<1>a. ASSUME NEW v \in Uuids \ {u}
      PROVE  [uuid |-> v, state |-> "loaded"] \in ToSet(x)
               <=> [uuid |-> v, state |-> "loaded"] \in ToSet(extensions)
  BY <1>2
<1> HIDE DEF x
<1>3. /\ extensions' \in Seq(Objects)
      /\ OneObject(x, u) => [uuid |-> u, state |-> "loaded"] \notin ToSet(extensions')
      /\ \A v : /\ Has(extensions', v) <=> Has(x, v)
                /\ OneObject(x, v) => OneObject(extensions', v)
                /\ v # u => ([uuid |-> v, state |-> "loaded"] \in ToSet(extensions')
                               <=> [uuid |-> v, state |-> "loaded"] \in ToSet(x))
  BY <1>1, <1>2, MarkErrorEffect
<1>4. ASSUME NEW v \in Uuids \ {u}
      PROVE  /\ Has(extensions', v) <=> Has(extensions, v)
             /\ OneObject(extensions, v) => OneObject(extensions', v)
             /\ [uuid |-> v, state |-> "loaded"] \in ToSet(extensions')
                  <=> [uuid |-> v, state |-> "loaded"] \in ToSet(extensions)
  BY <1>2, <1>3, <1>a
<1>5. ASSUME u \notin doubled
      PROVE  /\ OneObject(extensions', u) /\ u \in module'
             /\ [uuid |-> u, state |-> "loaded"] \notin ToSet(extensions')
  <2>1. ~Has(extensions, u)
    BY <1>0, <1>1, <1>5, LoadEnds
  <2>2. OneObject(extensions, u)
    BY <2>1 DEF OneObject, Has
  <2> QED BY <1>1, <1>2, <1>3, <2>1, <2>2
<1>6. module \subseteq module' /\ module' \subseteq module \cup {u}
  BY <1>1
<1> HIDE DEF p, o
<1> QED BY <1>0, <1>1, <1>3, <1>4, <1>5, <1>6, FailureSound

LEMMA ModuleLoadedSound ==
  ASSUME LoadersInv, NEW u \in Uuids, ModuleLoaded(u)
  PROVE  LoadersInv'
<1> DEFINE o == [uuid |-> u, state |-> "loaded"]
           p == "module"
           l == [loads EXCEPT ![u][p] = loads[u][p] - 1]
           t == [State EXCEPT !.l = l]
           s == Finish(t, u)
<1>0. p \in Phases /\ o \in Objects /\ o.uuid = u
  BY DEF Phases, Objects
<1>1. /\ loads[u][p] > 0 /\ Becomes(s)
      /\ UNCHANGED <<setting, enabledExtensions, started, failed>>
  <2>1. [State EXCEPT !.l[u]["module"] = State.l[u]["module"] - 1] = t
    BY StateIs DEF State
  <2> QED BY <2>1 DEF ModuleLoaded
<1>2. /\ l \in [Uuids -> [Phases -> Nat]]
      /\ LoadsOf(loads, u) \in Nat /\ LoadsOf(l, u) = LoadsOf(loads, u) - 1
      /\ \A v \in Uuids \ {u} : LoadsOf(l, v) = LoadsOf(loads, v)
      /\ u \notin doubled => /\ LoadsOf(loads, u) = 1 /\ LoadsOf(l, u) = 0
                             /\ active[u] = 0 /\ ~Has(extensions, u)
  <2>1. l = Ended(u, p)
    BY DEF Ended
  <2> HIDE DEF l, p
  <2> QED BY <1>0, <1>1, <2>1, LoadEnds
<1> DEFINE x == Append(extensions, o)
           a == [active EXCEPT ![u] = active[u] + 1]
           r == Append(running, u)
<1>3. s = [x |-> x, l |-> l, r |-> r, m |-> module \cup {u}, a |-> a, d |-> doubled]
  <2> HIDE DEF l
  <2>1. t = [x |-> extensions, l |-> l, r |-> running, m |-> module, a |-> active, d |-> doubled]
    BY DEF State
  <2> HIDE DEF t
  <2>2. s = [t EXCEPT !.x = x, !.m = module \cup {u}, !.a = a, !.r = r]
    BY <2>1 DEF Finish
  <2> HIDE DEF s, x, a, r
  <2> QED BY <2>1, <2>2
<1>4. /\ x \in Seq(Objects) /\ ToSet(x) = ToSet(extensions) \cup {o}
      /\ \A v : /\ Has(x, v) <=> Has(extensions, v) \/ v = u
                /\ OneObject(extensions, v) /\ (v = u => ~Has(extensions, v)) => OneObject(x, v)
  <2> HIDE DEF o
  <2> QED BY <1>0, SoundRanges, PushObject
<1>5. /\ a \in [Uuids -> Nat] /\ a[u] = active[u] + 1
      /\ \A v \in Uuids \ {u} : a[v] = active[v]
      /\ r \in Seq(Uuids)
  BY SoundRanges
<1>6. ASSUME NEW v \in Uuids \ {u}
      PROVE  [uuid |-> v, state |-> "loaded"] \in ToSet(x)
               <=> [uuid |-> v, state |-> "loaded"] \in ToSet(extensions)
  BY <1>4
<1>7. /\ s.x = x /\ s.l = l /\ s.r = r /\ s.m = module \cup {u} /\ s.a = a /\ s.d = doubled
  <2> HIDE DEF x, l, r, a, s
  <2> QED BY <1>3
<1>8. s \in Loaders
  <2> HIDE DEF x, l, r, a, s
  <2> QED BY <1>2, <1>3, <1>4, <1>5, SoundRanges DEF Loaders
<1>9. IsInjective(running) /\ u \notin ToSet(running) =>
        IsInjective(r) /\ ToSet(r) = ToSet(running) \cup {u}
  <2> DEFINE n == Len(running)
  <2>1. n \in Nat /\ DOMAIN running = 1 .. n /\ DOMAIN r = 1 .. (n + 1)
        /\ r[n + 1] = u /\ \A k \in 1 .. n : r[k] = running[k]
    BY SoundRanges
  <2> HIDE DEF n, r
  <2>2. \A k \in 1 .. (n + 1) : k = n + 1 \/ k \in 1 .. n
    BY <2>1
  <2>3. n + 1 \in 1 .. (n + 1) /\ \A k \in 1 .. n : k \in 1 .. (n + 1)
    BY <2>1
  <2> QED BY <2>1, <2>2, <2>3 DEF IsInjective, ToSet
<1> HIDE DEF s, x, l, r, a, t
<1>10. OneEach(s)
  <2> SUFFICES ASSUME NEW v \in Uuids \ doubled
               PROVE  OneObject(x, v) /\ EnabledOnce(s, v) /\ KnownOrLoading(s, v)
    BY <1>7 DEF OneEach
  <2>1. OneObject(extensions, v) /\ EnabledOnce(State, v) /\ KnownOrLoading(State, v)
    BY StateIs DEF LoadersInv, LoaderSound, OneEach
  <2>2. CASE v = u
    <3>1. ~Has(extensions, u) /\ LoadsOf(l, u) = 0 /\ a[u] = 1
      BY <1>2, <1>5, <2>2
    <3> QED BY <1>4, <1>7, <2>1, <2>2, <3>1 DEF EnabledOnce, KnownOrLoading
  <2>3. CASE v # u
    <3>1. KnownOrLoading(s, v)
      BY <1>2, <1>4, <1>7, <2>1, <2>3, StateIs DEF KnownOrLoading
    <3>2. EnabledOnce(s, v)
      BY <1>5, <1>6, <1>7, <2>1, <2>3, StateIs DEF EnabledOnce
    <3> QED BY <1>4, <2>1, <2>3, <3>1, <3>2
  <2> QED BY <2>2, <2>3
<1>11. ListSound(s, failed)
  <2> SUFFICES ASSUME failed \cup doubled = {}
               PROVE  /\ \A i \in DOMAIN x : x[i].state = "loaded"
                      /\ ToSet(r) = {v \in Uuids : a[v] > 0}
                      /\ IsInjective(r)
    BY <1>7 DEF ListSound
  <2>1. /\ \A i \in DOMAIN extensions : extensions[i].state = "loaded"
        /\ ToSet(running) = {v \in Uuids : active[v] > 0}
        /\ IsInjective(running)
    BY StateIs DEF LoadersInv, LoaderSound, ListSound
  <2>2. \A e \in ToSet(x) : e.state = "loaded"
    BY <1>4, <2>1 DEF ToSet
  <2>3. \A i \in DOMAIN x : x[i].state = "loaded"
    BY <2>2 DEF ToSet
  <2>4. active[u] = 0 /\ a[u] = 1
    BY <1>2, <1>5
  <2>5. IsInjective(r) /\ ToSet(r) = ToSet(running) \cup {u}
    BY <1>9, <2>1, <2>4
  <2> QED BY <1>5, <2>1, <2>3, <2>4, <2>5
<1>12. State' = s /\ LoaderSound(State, failed)'
  BY <1>1, <1>8, <1>10, <1>11, BecomesSound DEF LoaderSound
<1>13. extensions' = x /\ loads' = l /\ active' = a
  BY <1>1, <1>7 DEF Becomes
<1>14. EnabledIsLoaded'
  BY <1>1, <1>2, <1>4, <1>13 DEF LoadersInv, EnabledIsLoaded, Known, Loading
<1>15. \A v \in Uuids : LoadsOf(loads', v) + active'[v] <= MaxLoads
  <2> TAKE v \in Uuids
  <2>1. LoadsOf(loads, v) + active[v] <= MaxLoads /\ active[v] \in Nat
    BY SoundRanges DEF LoadersInv
  <2> QED BY <1>2, <1>5, <1>13, <2>1, LoaderAssumption
<1> QED BY <1>1, <1>12, <1>14, <1>15 DEF LoadersInv

LEMMA LoaderNextSound == LoadersInv /\ [LoaderNext]_loaderVars => LoadersInv'
<1> SUFFICES ASSUME LoadersInv, [LoaderNext]_loaderVars PROVE LoadersInv'
  OBVIOUS
<1>1. CASE UNCHANGED loaderVars \/ Started
  <2>1. /\ UNCHANGED <<setting, enabledExtensions, loads, extensions, running, module, active,
                       failed, doubled>>
        /\ started' \in BOOLEAN
    BY <1>1 DEF loaderVars, Started, LoadersInv
  <2>2. State' = State
    BY <2>1 DEF State
  <2> QED BY <2>1, <2>2 DEF LoadersInv, EnabledIsLoaded, Known, Loading
<1>2. ASSUME NEW u \in Uuids, LoadProceeds(u) PROVE LoadersInv'
  <2>1. ASSUME NEW p \in Phases, LoadFails(u, p) PROVE LoadersInv'
    BY <2>1, LoadFailsSound
  <2> QED BY <1>2, <2>1, MetadataLoadedSound, ModuleLoadedSound, EnableFailsSound
          DEF LoadProceeds
<1> QED BY <1>1, <1>2, SettingChangesSound, ReloadSound DEF LoaderNext

-----------------------------------------------------------------------------
(* The results about the loader *)

\* The invariant that the results rest on.
THEOREM LoadersInvAlways == LoaderSpec => []LoadersInv
<1> QED BY LoadersInitSound, LoaderNextSound, PTL DEF LoaderSpec

\* What is enabled is there or on its way, or its load failed, whatever is switched off and
\* on or reloaded meanwhile (onEnabledExtensionsChanged, reloadExtension).
THEOREM EnabledIsLoadedAlways == LoaderSpec => []EnabledIsLoaded
<1>1. LoadersInv => EnabledIsLoaded
  BY DEF LoadersInv
<1> QED BY <1>1, LoadersInvAlways, PTL

\* Unless loads overlap, an enabled extension runs once and can be disabled again; as long
\* as none fails either, runningExtensions lists what is active (finishExtensionLoad,
\* prepareExtensionUnload).
THEOREM ListsSoundAlways == LoaderSpec => []ListsSound
<1>1. ASSUME LoadersInv PROVE LoaderTypeOK
  <2>1. \A u \in Uuids : LoadsOf(loads, u) + active[u] <= MaxLoads
    BY <1>1 DEF LoadersInv
  <2>2. \A u \in Uuids : active[u] \in 0 .. MaxLoads /\ \A p \in Phases : loads[u][p] \in 0 .. MaxLoads
    BY <1>1, <2>1, SoundRanges, LoaderAssumption DEF LoadsOf, Phases
  <2>3. loads \in [Uuids -> [Phases -> 0 .. MaxLoads]] /\ active \in [Uuids -> 0 .. MaxLoads]
    BY <1>1, <2>2, SoundRanges
  <2> QED BY <1>1, <2>3, SoundRanges DEF LoadersInv, LoaderTypeOK, Objects
<1>2. LoadersInv => RunningAreActive
  BY StateIs DEF LoadersInv, LoaderSound, ListSound, RunningAreActive
<1>3. LoadersInv => ActiveIsKnown
  BY StateIs DEF LoadersInv, LoaderSound, OneEach, OneObject, EnabledOnce, KnownOrLoading,
                 ActiveIsKnown, Known
<1>4. LoadersInv => ListsSound
  BY <1>1, <1>2, <1>3 DEF ListsSound
<1> QED BY <1>4, LoadersInvAlways, PTL

-----------------------------------------------------------------------------
(* The settings *)

\* A save belongs to a window; only one that has begun keeps the file away.
SavesSound ==
    /\ job # Idle => window # Closed /\ event
    /\ job # Idle /\ job.at = "written" => file # NoFile
    /\ window # Closed /\ job = Idle => file # NoFile

\* What the shell has not read is what the window has; else the file is the shell's.
FileIsSomeones ==
    /\ unread /\ file # NoFile /\ window # Closed => window = file
    /\ shell # Off /\ file # NoFile => unread \/ shell = file

VersionsKept ==
    shell # Off /\ shell.version # code =>
        /\ file # NoFile => file.version = shell.version
        /\ window # Closed => window.version = shell.version

SettingsInv == TypeOK /\ SavesSound /\ FileIsSomeones /\ WindowAgrees /\ XletKnows /\ VersionsKept

-----------------------------------------------------------------------------
(* Settings *)

\* What it is to be settings, as the steps below use it.
LEMMA DataIs ==
  ASSUME NEW d
  PROVE  IsData(d) <=> /\ d = [version |-> d.version, value |-> d.value]
                       /\ d.version \in Versions
                       /\ d.value \in [Keys(d.version) -> Nat]
<1>1. IsData(d) => /\ d = [version |-> d.version, value |-> d.value]
                   /\ d.version \in Versions
                   /\ d.value \in [Keys(d.version) -> Nat]
  BY DEF IsData
<1>2. ASSUME d = [version |-> d.version, value |-> d.value],
             d.version \in Versions, d.value \in [Keys(d.version) -> Nat]
      PROVE  IsData(d)
  <2>1. d \in [version : {d.version}, value : [Keys(d.version) -> Nat]]
    BY <1>2
  <2> QED BY <1>2, <2>1 DEF IsData
<1> QED BY <1>1, <1>2

LEMMA DefaultIsData == \A v \in Versions : IsData(Default(v)) /\ Default(v).version = v
<1> SUFFICES ASSUME NEW v \in Versions PROVE IsData(Default(v)) /\ Default(v).version = v
  OBVIOUS
<1>1. \A k \in Keys(v) : Schemas[v][k].default \in Nat
  BY SchemasAssumption
<1> QED BY <1>1, DataIs DEF Default

LEMMA UpgradeIsData ==
  ASSUME NEW old, IsData(old), NEW v \in Versions
  PROVE  IsData(DoUpgrade(old, v)) /\ DoUpgrade(old, v).version = v
<1>1. \A k \in Keys(v) : Schemas[v][k].default \in Nat
  BY SchemasAssumption
<1>2. \A k \in DOMAIN old.value : old.value[k] \in Nat
  BY DataIs
<1> QED BY <1>1, <1>2, DataIs DEF DoUpgrade

LEMMA EnsuredIsData ==
  ASSUME TypeOK PROVE IsData(Ensured) /\ Ensured.version = installed
BY DefaultIsData, UpgradeIsData DEF TypeOK, Ensured

\* A set of one key keeps settings what they are.
LEMMA SetIsData ==
  ASSUME NEW d, IsData(d), NEW k \in DOMAIN d.value, NEW val \in Nat
  PROVE  LET e == [d EXCEPT !.value[k] = val]
         IN  /\ IsData(e) /\ e.version = d.version
             /\ e.value = [d.value EXCEPT ![k] = val]
<1>1. PICK v \in Versions : d \in [version : {v}, value : [Keys(v) -> Nat]]
  BY DEF IsData
<1>2. [d EXCEPT !.value[k] = val]
        = [version |-> d.version, value |-> [d.value EXCEPT ![k] = val]]
  BY <1>1, SMT
<1> QED BY <1>2, DataIs

LEMMA OfferedIsNat == \A v \in Versions : \A k \in Keys(v) : Offered(v, k) \subseteq Nat
BY SchemasAssumption

-----------------------------------------------------------------------------
(* The steps of the shell *)

LEMMA InitSound == Init => SettingsInv
<1> SUFFICES ASSUME Init PROVE SettingsInv
  OBVIOUS
<1>1. 1 \in Versions
  BY SchemasAssumption DEF Versions
<1>2. told \in [Keys(1) -> Nat] /\ DOMAIN told = Keys(1)
  BY <1>1, DefaultIsData, DataIs DEF Init
<1> QED BY <1>1, <1>2
        DEF Init, Timers, SettingsInv, TypeOK, SavesSound, FileIsSomeones, WindowAgrees, XletKnows,
            VersionsKept

LEMMA XletLoadsStep == SettingsInv /\ XletLoads => SettingsInv'
<1> SUFFICES ASSUME SettingsInv, XletLoads PROVE SettingsInv'
  OBVIOUS
<1>1. IsData(Ensured) /\ Ensured.version = installed
  BY EnsuredIsData DEF SettingsInv
<1>2. Ensured # NoFile /\ Ensured # Off /\ Ensured.value \in [Keys(installed) -> Nat]
  BY <1>1, DataIs, NothingAssumption
<1>3. event' = event \/ event' = (window # Closed)
  BY DEF XletLoads, SaveToFile, Seen
<1>4. TypeOK'
  BY <1>1, <1>2, <1>3 DEF SettingsInv, TypeOK, XletLoads, SaveToFile
<1>5. SavesSound' /\ FileIsSomeones' /\ WindowAgrees'
  BY <1>2 DEF SettingsInv, SavesSound, FileIsSomeones, WindowAgrees, XletLoads, SaveToFile, Seen
<1>6. XletKnows' /\ VersionsKept'
  BY <1>1 DEF XletKnows, VersionsKept, XletLoads
<1> QED BY <1>4, <1>5, <1>6 DEF SettingsInv

LEMMA XletSetsStep == SettingsInv /\ XletSets => SettingsInv'
<1> SUFFICES ASSUME SettingsInv, XletSets PROVE SettingsInv'
  OBVIOUS
<1>1. PICK k \in Keys(code) \cap DOMAIN shell.value : \E val \in Offered(code, k) :
        /\ shell' = [shell EXCEPT !.value[k] = val]
        /\ told' = [told EXCEPT ![k] = val]
  BY DEF XletSets
<1>a. PICK val \in Offered(code, k) :
        shell' = [shell EXCEPT !.value[k] = val] /\ told' = [told EXCEPT ![k] = val]
  BY <1>1
<1>2. IsData(shell) /\ val \in Nat
  BY OfferedIsNat DEF SettingsInv, TypeOK, XletSets
<1>3. /\ IsData(shell') /\ shell'.version = shell.version
      /\ shell'.value = [shell.value EXCEPT ![k] = val]
  BY <1>a, <1>2, SetIsData
<1>4. shell' # NoFile
  BY <1>3, NothingAssumption
<1>5. TypeOK'
  BY <1>a, <1>2, <1>3 DEF SettingsInv, TypeOK, XletSets, Seen
<1>6. SavesSound' /\ FileIsSomeones' /\ WindowAgrees'
  BY <1>4 DEF SettingsInv, SavesSound, FileIsSomeones, WindowAgrees, XletSets, Seen
<1>7. XletKnows'
  BY <1>a, <1>2, <1>3, DataIs DEF SettingsInv, TypeOK, XletKnows, XletSets
<1>8. VersionsKept'
  BY <1>3 DEF SettingsInv, VersionsKept, XletSets
<1> QED BY <1>5, <1>6, <1>7, <1>8 DEF SettingsInv

\* The two that leave every copy as it is, or drop the shell's.
LEMMA XletUnloadsStep == SettingsInv /\ XletUnloads => SettingsInv'
BY DEF SettingsInv, TypeOK, SavesSound, FileIsSomeones, WindowAgrees, XletKnows, VersionsKept,
       XletUnloads

LEMMA SchemaUpdatedStep == SettingsInv /\ SchemaUpdated => SettingsInv'
<1> SUFFICES ASSUME SettingsInv, SchemaUpdated PROVE SettingsInv'
  OBVIOUS
<1>1. installed' \in Versions
  BY SchemasAssumption DEF SettingsInv, TypeOK, SchemaUpdated, Versions
<1> QED BY <1>1 DEF SettingsInv, TypeOK, SavesSound, FileIsSomeones, WindowAgrees, XletKnows,
                    VersionsKept, SchemaUpdated

-----------------------------------------------------------------------------
(* The steps of the window *)

LEMMA WindowOpensStep == SettingsInv /\ WindowOpens => SettingsInv'
<1> SUFFICES ASSUME SettingsInv, WindowOpens PROVE SettingsInv'
  OBVIOUS
<1>1. IsData(file) /\ file.version \in Versions
  BY DataIs DEF SettingsInv, TypeOK, WindowOpens
<1> QED BY <1>1 DEF SettingsInv, TypeOK, SavesSound, FileIsSomeones, WindowAgrees, XletKnows,
                    VersionsKept, Timers, WindowOpens

LEMMA WindowGoesStep == SettingsInv /\ WindowGoes => SettingsInv'
<1> SUFFICES ASSUME SettingsInv, WindowGoes PROVE SettingsInv'
  OBVIOUS
<1>1. TypeOK' /\ VersionsKept'
  BY DEF SettingsInv, TypeOK, SavesSound, VersionsKept, Timers, WindowGoes
<1>2. SavesSound' /\ FileIsSomeones'
  BY DEF SettingsInv, SavesSound, FileIsSomeones, WindowGoes
<1>3. WindowAgrees' /\ XletKnows'
  BY DEF SettingsInv, TypeOK, WindowAgrees, XletKnows, WindowGoes
<1> QED BY <1>1, <1>2, <1>3 DEF SettingsInv

LEMMA SaveSettingsStep ==
  ASSUME SettingsInv, window # Closed, NEW new, IsData(new), new.version = window.version,
         NEW what \in {"set", "replace"}, SaveSettings(new, what)
  PROVE  SettingsInv'
<1>1. new # Closed /\ job' \in Jobs /\ job' # Idle /\ job'.at = "removed"
  BY NothingAssumption DEF SaveSettings, Jobs
<1> QED BY <1>1 DEF SettingsInv, TypeOK, SavesSound, FileIsSomeones, WindowAgrees, XletKnows,
                    VersionsKept, Timers, SaveSettings

LEMMA WindowSavesStep == SettingsInv /\ (WindowSets \/ ResetToDefaults \/ LoadFromFile) => SettingsInv'
<1> SUFFICES ASSUME SettingsInv, WindowSets \/ ResetToDefaults \/ LoadFromFile PROVE SettingsInv'
  OBVIOUS
<1>1. IsData(window) /\ window.version \in Versions /\ window # Closed
  BY DataIs DEF SettingsInv, TypeOK, WindowSets, ResetToDefaults, LoadFromFile
<1>2. CASE WindowSets
  <2>0. PICK k \in Keys(built) \cap DOMAIN window.value : \E val \in Offered(built, k) :
          SaveSettings([window EXCEPT !.value[k] = val], "set")
    BY <1>2 DEF WindowSets
  <2>1. PICK val \in Offered(built, k) :
          SaveSettings([window EXCEPT !.value[k] = val], "set")
    BY <2>0
  <2>2. val \in Nat
    BY OfferedIsNat DEF SettingsInv, TypeOK
  <2> DEFINE new == [window EXCEPT !.value[k] = val]
  <2>3. IsData(new) /\ new.version = window.version
    BY <1>1, <2>2, SetIsData
  <2>4. SaveSettings(new, "set")
    BY <2>1
  <2> HIDE DEF new
  <2> QED BY <1>1, <2>3, <2>4, SaveSettingsStep
<1>3. CASE ResetToDefaults
  BY <1>1, <1>3, DefaultIsData, SaveSettingsStep DEF ResetToDefaults
<1>4. CASE LoadFromFile
  <2> DEFINE Some == UNION {Importable(k) : k \in DOMAIN window.value}
  <2>1. PICK value \in [DOMAIN window.value -> Some] :
          /\ \A k \in DOMAIN value : value[k] \in Importable(k) \cup {window.value[k]}
          /\ SaveSettings([window EXCEPT !.value = value], "replace")
    BY <1>4 DEF LoadFromFile
  <2>2. \A k \in DOMAIN window.value : Importable(k) \subseteq Nat /\ window.value[k] \in Nat
    BY <1>1, OfferedIsNat, DataIs DEF Importable
  <2>3. value \in [Keys(window.version) -> Nat]
    BY <1>1, <2>1, <2>2, DataIs
  <2> DEFINE new == [window EXCEPT !.value = value]
  <2>4. IsData(new) /\ new.version = window.version
    <3>1. window = [version |-> window.version, value |-> window.value]
      BY <1>1, DataIs
    <3>2. new = [version |-> window.version, value |-> value]
      BY <3>1
    <3> HIDE DEF new
    <3> QED BY <1>1, <2>3, <3>2, DataIs
  <2>5. SaveSettings(new, "replace")
    BY <2>1
  <2> HIDE DEF new
  <2> QED BY <1>1, <2>4, <2>5, SaveSettingsStep
<1> QED BY <1>2, <1>3, <1>4

LEMMA WriteStep == SettingsInv /\ Write => SettingsInv'
<1> SUFFICES ASSUME SettingsInv, Write PROVE SettingsInv'
  OBVIOUS
<1>1. IsData(window) /\ window # Closed /\ window # NoFile
  BY NothingAssumption DEF SettingsInv, TypeOK, SavesSound, Write
<1>2. job' \in Jobs \cup {Idle}
  BY DEF SettingsInv, TypeOK, Jobs, Write
<1> QED BY <1>1, <1>2 DEF SettingsInv, TypeOK, SavesSound, FileIsSomeones, WindowAgrees,
                          XletKnows, VersionsKept, Write

\* What the window has written gets the shell's, and the xlet is told of it: either the
\* shell's old copy has every key of the xlet, or it has the same keys as the new one.
LEMMA RemoteUpdateTells ==
  ASSUME SettingsInv, RemoteUpdate, job # Idle
  PROVE  /\ told' \in [Keys(code) -> Nat]
         /\ shell' # Off => /\ IsData(shell')
                            /\ file # NoFile => shell' = file
                            /\ \A k \in DOMAIN shell'.value \cap Keys(code) :
                                 told'[k] = shell'.value[k]
                            /\ shell'.version # code /\ file # NoFile
                                 => window.version = file.version
<1>1. CASE shell = Off \/ file = NoFile
  BY <1>1 DEF RemoteUpdate, SettingsInv, TypeOK, XletKnows
<1>2. CASE shell # Off /\ file # NoFile
  <2>1. IsData(shell) /\ IsData(file) /\ told \in [Keys(code) -> Nat] /\ window # Closed
    BY <1>2 DEF SettingsInv, TypeOK, SavesSound
  <2>2. shell' = file /\ told' = CheckSettings(shell, file)
    BY <1>2 DEF RemoteUpdate
  <2>3. told' \in [Keys(code) -> Nat]
    BY <2>1, <2>2, DataIs DEF CheckSettings
  <2>4. window = file \/ shell = file
    BY <1>2, <2>1 DEF SettingsInv, FileIsSomeones
  <2>5. shell.version = code \/ shell.version = file.version
    BY <1>2 DEF SettingsInv, VersionsKept
  <2>6. ASSUME NEW k \in DOMAIN file.value \cap Keys(code)
        PROVE  told'[k] = file.value[k]
    <3>1. k \in DOMAIN shell.value
      BY <2>1, <2>5, DataIs
    <3>2. told[k] = shell.value[k]
      BY <1>2, <2>1, <3>1 DEF SettingsInv, XletKnows
    <3> QED BY <2>1, <2>2, <3>1, <3>2 DEF CheckSettings
  <2>7. file.version # code => window.version = file.version
    BY <1>2, <2>1, <2>4 DEF SettingsInv, VersionsKept
  <2> QED BY <1>2, <2>1, <2>2, <2>3, <2>6, <2>7
<1> QED BY <1>1, <1>2

LEMMA NotifyDbusStep == SettingsInv /\ NotifyDbus => SettingsInv'
<1> SUFFICES ASSUME SettingsInv, NotifyDbus PROVE SettingsInv'
  OBVIOUS
<1>1. RemoteUpdate /\ job # Idle /\ file # NoFile
  BY DEF NotifyDbus, SettingsInv, SavesSound
<1>2. unread' \in BOOLEAN /\ (unread' => unread) /\ (shell' = Off <=> shell = Off)
  BY <1>1, NothingAssumption DEF RemoteUpdate, SettingsInv, TypeOK
<1>3. TypeOK'
  BY <1>1, <1>2, RemoteUpdateTells DEF SettingsInv, TypeOK, NotifyDbus
<1>4. SavesSound' /\ FileIsSomeones' /\ WindowAgrees'
  BY <1>1, <1>2, RemoteUpdateTells
  DEF SettingsInv, SavesSound, FileIsSomeones, WindowAgrees, NotifyDbus
<1>5. XletKnows' /\ VersionsKept'
  BY <1>1, <1>3, RemoteUpdateTells DEF TypeOK, XletKnows, VersionsKept, NotifyDbus
<1> QED BY <1>3, <1>4, <1>5 DEF SettingsInv

LEMMA OnFileChangedStep == SettingsInv /\ OnFileChanged => SettingsInv'
<1> SUFFICES ASSUME SettingsInv, OnFileChanged PROVE SettingsInv'
  OBVIOUS
<1>1. TypeOK' /\ VersionsKept'
  BY DEF SettingsInv, TypeOK, SavesSound, VersionsKept, Timers, OnFileChanged
<1>2. SavesSound' /\ FileIsSomeones'
  BY DEF SettingsInv, SavesSound, FileIsSomeones, OnFileChanged
<1>3. WindowAgrees' /\ XletKnows'
  BY DEF SettingsInv, TypeOK, WindowAgrees, XletKnows, OnFileChanged
<1> QED BY <1>1, <1>2, <1>3 DEF SettingsInv

LEMMA TwoSecondsPassStep == SettingsInv /\ TwoSecondsPass => SettingsInv'
<1> SUFFICES ASSUME SettingsInv, TwoSecondsPass PROVE SettingsInv'
  OBVIOUS
<1>1. TypeOK' /\ VersionsKept'
  BY DEF SettingsInv, TypeOK, VersionsKept, Timers, TwoSecondsPass
<1>2. SavesSound' /\ FileIsSomeones'
  BY DEF SettingsInv, SavesSound, FileIsSomeones, TwoSecondsPass
<1>3. WindowAgrees' /\ XletKnows'
  BY DEF SettingsInv, WindowAgrees, XletKnows, TwoSecondsPass
<1> QED BY <1>1, <1>2, <1>3 DEF SettingsInv

LEMMA TimerFiresStep == SettingsInv /\ TimerFires => SettingsInv'
<1> SUFFICES ASSUME SettingsInv, TimerFires PROVE SettingsInv'
  OBVIOUS
<1>1. TypeOK' /\ VersionsKept'
  BY DEF SettingsInv, TypeOK, SavesSound, VersionsKept, Timers, TimerFires
<1>2. SavesSound' /\ FileIsSomeones'
  BY DEF SettingsInv, SavesSound, FileIsSomeones, TimerFires
<1>3. WindowAgrees' /\ XletKnows'
  BY DEF SettingsInv, TypeOK, WindowAgrees, XletKnows, TimerFires
<1> QED BY <1>1, <1>2, <1>3 DEF SettingsInv

-----------------------------------------------------------------------------
(* The results about the settings *)

LEMMA NextSound == SettingsInv /\ [Next]_vars => SettingsInv'
<1> SUFFICES ASSUME SettingsInv, [Next]_vars PROVE SettingsInv'
  OBVIOUS
<1>1. CASE UNCHANGED vars
  BY <1>1 DEF vars, SettingsInv, TypeOK, SavesSound, FileIsSomeones, WindowAgrees, XletKnows,
              VersionsKept
<1>2. CASE Next
  BY <1>2, XletLoadsStep, XletSetsStep, XletUnloadsStep, SchemaUpdatedStep, WindowOpensStep,
     WindowGoesStep, WindowSavesStep, WriteStep, NotifyDbusStep, OnFileChangedStep,
     TwoSecondsPassStep, TimerFiresStep DEF Next
<1> QED BY <1>1, <1>2

\* The invariant that the results rest on, for every sequence of schemas.
THEOREM SettingsInvAlways == Spec => []SettingsInv
<1> QED BY InitSound, NextSound, PTL DEF Spec

\* The variables of shell and window keep their ranges, each copy the keys of its version
\* (_ensureSettingsFiles, save_settings).
THEOREM TypeOKAlways == Spec => []TypeOK
<1>1. SettingsInv => TypeOK
  BY DEF SettingsInv
<1> QED BY <1>1, SettingsInvAlways, PTL

\* Whoever holds a copy that is not the file's has the change still to hear of
\* (on_file_changed, remoteUpdate).
THEOREM CopiesAgreeAlways == Spec => []CopiesAgree
<1>1. SettingsInv => CopiesAgree
  BY DEF SettingsInv, FileIsSomeones, CopiesAgree, WindowAgrees, ShellAgrees
<1> QED BY <1>1, SettingsInvAlways, PTL

\* The xlet was told every value that its settings hold (_checkSettings).
THEOREM XletKnowsAlways == Spec => []XletKnows
<1>1. SettingsInv => XletKnows
  BY DEF SettingsInv
<1> QED BY <1>1, SettingsInvAlways, PTL

\* What the user sets reaches the xlet when the window's call returns
\* (notify_dbus, remoteUpdate).
THEOREM SetReachesXletAlways == Spec => SetReachesXlet
<1>1. SettingsInv /\ [Next]_vars /\ SettingsInv' =>
        [NotifyDbus /\ shell # Off /\ unread =>
           \A k \in DOMAIN window.value \cap DOMAIN told' : told'[k] = window.value[k]]_vars
  <2> SUFFICES ASSUME SettingsInv, SettingsInv', NotifyDbus, shell # Off, unread,
                      NEW k \in DOMAIN window.value \cap DOMAIN told'
               PROVE  told'[k] = window.value[k]
    OBVIOUS
  <2>1. file # NoFile /\ window # Closed
    BY DEF SettingsInv, SavesSound, NotifyDbus
  <2>2. window = file /\ shell' = file
    BY <2>1 DEF SettingsInv, FileIsSomeones, NotifyDbus, RemoteUpdate
  <2>3. shell' # Off
    BY <2>1, <2>2, NothingAssumption DEF SettingsInv, TypeOK
  <2> QED BY <2>2, <2>3 DEF SettingsInv, XletKnows
<1> QED BY <1>1, SettingsInvAlways, PTL DEF Spec, SetReachesXlet
=============================================================================
