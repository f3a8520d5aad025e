------------------------ MODULE AppletManagerProofs ------------------------
(***************************************************************************)
(* Proofs about the panels and the applets: what the folds over the key    *)
(* and over the known panels make of them, the invariant of the panel      *)
(* manager, and that of the applets on top of it.                          *)
(***************************************************************************)
EXTENDS AppletManager, ListLemmas

-----------------------------------------------------------------------------
(* The panels by id, and the key. *)

PanelIds == Nat \ {0}

Entry == [id : PanelIds, place : Places]

PlaceMaps == UNION {[s -> Places] : s \in {x \in SUBSET PanelIds : IsFiniteSet(x)}}

LEMMA PlaceMapIs ==
  ASSUME NEW f \in PlaceMaps
  PROVE  /\ DOMAIN f \subseteq PanelIds /\ IsFiniteSet(DOMAIN f) /\ f \in [DOMAIN f -> Places]
         /\ Cardinality(DOMAIN f) \in Nat
<1>1. PICK s \in SUBSET PanelIds : IsFiniteSet(s) /\ f \in [s -> Places]
  BY DEF PlaceMaps
<1>2. DOMAIN f = s
  BY <1>1
<1> QED BY <1>1, <1>2, FS_CardinalityType

LEMMA IsPlaceMap ==
  ASSUME NEW s \in SUBSET PanelIds, IsFiniteSet(s), NEW f \in [s -> Places]
  PROVE  f \in PlaceMaps
BY DEF PlaceMaps

LEMMA NoPanelsIs == <<>> \in PlaceMaps /\ DOMAIN <<>> = {}
<1>1. <<>> \in [{} -> Places]
  OBVIOUS
<1>2. {} \in SUBSET PanelIds /\ IsFiniteSet({})
  BY FS_EmptySet
<1> QED BY <1>1, <1>2, IsPlaceMap

LEMMA WithIs ==
  ASSUME NEW f \in PlaceMaps, NEW k \in PanelIds, NEW v \in Places
  PROVE  LET g == With(f, k, v)
         IN  /\ g \in PlaceMaps /\ DOMAIN g = DOMAIN f \cup {k} /\ g[k] = v
             /\ \A x \in DOMAIN f \ {k} : g[x] = f[x]
<1> DEFINE g == With(f, k, v)
           s == DOMAIN f \cup {k}
<1>1. DOMAIN f \subseteq PanelIds /\ IsFiniteSet(DOMAIN f) /\ f \in [DOMAIN f -> Places]
  BY PlaceMapIs
<1>2. s \in SUBSET PanelIds /\ IsFiniteSet(s)
  BY <1>1, FS_AddElement
<1>3. g \in [s -> Places] /\ g[k] = v /\ \A x \in DOMAIN f \ {k} : g[x] = f[x]
  BY <1>1 DEF With
<1> HIDE DEF g, s
<1>4. g \in PlaceMaps
  BY ONLY <1>2, <1>3, IsPlaceMap
<1>5. DOMAIN g = DOMAIN f \cup {k}
  BY <1>3 DEF s
<1> QED BY <1>3, <1>4, <1>5 DEF g

\* The same without a local definition.
LEMMA WithParts ==
  ASSUME NEW f \in PlaceMaps, NEW k \in PanelIds, NEW v \in Places
  PROVE  /\ DOMAIN With(f, k, v) = DOMAIN f \cup {k}
         /\ With(f, k, v)[k] = v
         /\ \A x \in DOMAIN f \ {k} : With(f, k, v)[x] = f[x]
<1> DEFINE g == With(f, k, v)
<1>0. f \in PlaceMaps /\ k \in PanelIds /\ v \in Places
  OBVIOUS
<1>1. /\ DOMAIN g = DOMAIN f \cup {k} /\ g[k] = v
      /\ \A x \in DOMAIN f \ {k} : g[x] = f[x]
  BY ONLY <1>0, WithIs
<1> QED BY <1>1

LEMMA RemovingIs ==
  ASSUME NEW f \in PlaceMaps, NEW keys
  PROVE  LET g == Removing(f, keys)
         IN  /\ g \in PlaceMaps /\ DOMAIN g = DOMAIN f \ keys
             /\ \A x \in DOMAIN g : g[x] = f[x]
<1> DEFINE g == Removing(f, keys)
           s == DOMAIN f \ keys
<1>1. DOMAIN f \subseteq PanelIds /\ IsFiniteSet(DOMAIN f) /\ f \in [DOMAIN f -> Places]
  BY PlaceMapIs
<1>2. s \in SUBSET PanelIds /\ IsFiniteSet(s)
  BY <1>1, FS_Subset
<1>3. g \in [s -> Places] /\ \A x \in s : g[x] = f[x]
  BY <1>1 DEF Removing
<1> HIDE DEF g
<1>4. g \in PlaceMaps
  BY <1>2, <1>3, IsPlaceMap
<1> QED BY <1>3, <1>4 DEF g

\* The maps are equal when they are the same for every id.
LEMMA SamePlaces ==
  ASSUME NEW f \in PlaceMaps, NEW g \in PlaceMaps, DOMAIN f = DOMAIN g,
         \A x \in DOMAIN f : f[x] = g[x]
  PROVE  f = g
<1>1. f = [x \in DOMAIN f |-> f[x]] /\ g = [x \in DOMAIN g |-> g[x]]
  BY PlaceMapIs
<1> QED BY <1>1

-----------------------------------------------------------------------------
(* The folds of the panel manager. *)

Loads == [panels : PlaceMaps, meta : PlaceMaps, count : Int]

Changes == [panels : PlaceMaps, meta : PlaceMaps, old : PlaceMaps, count : Int]

Monitors(ids) == [panels : PlaceMaps, meta : {f \in PlaceMaps : DOMAIN f = ids},
                  count : Int, monitors : Int]

\* Whether _loadPanel refuses the entry.
Refuses(r, id, place) ==
    \/ id \in DOMAIN r.panels
    \/ \E i \in DOMAIN r.meta \ {id} : r.meta[i] = place

\* t is r with a panel loaded at the place.
LoadedPanel(r, t, id, place, n) ==
    IF Refuses(r, id, place) THEN t = r
    ELSE /\ t.meta = With(r.meta, id, place)
         /\ t.panels = IF place[1] >= n THEN r.panels ELSE With(r.panels, id, place)
         /\ t.count = IF place[1] >= n THEN r.count ELSE r.count + 1

\* _loadPanel, in each of the three places that call it.
LEMMA LoadPanelLoads ==
  ASSUME NEW r \in Loads, NEW id \in PanelIds, NEW place \in Places, NEW n \in Int
  PROVE  LET t == LoadPanel(r, id, place, n)
         IN  /\ t \in Loads /\ LoadedPanel(r, t, id, place, n)
<1> DEFINE t == LoadPanel(r, id, place, n)
           meta == With(r.meta, id, place)
           ps == With(r.panels, id, place)
<1>1. /\ r.panels \in PlaceMaps /\ r.meta \in PlaceMaps /\ r.count \in Int
  BY DEF Loads
<1>2. meta \in PlaceMaps /\ ps \in PlaceMaps /\ DOMAIN meta = DOMAIN r.meta \cup {id}
  BY <1>1, WithIs
<1>3. CASE Refuses(r, id, place)
  <2>1. t = r
    BY <1>3 DEF LoadPanel, Refuses
  <2> QED BY <1>3, <2>1 DEF LoadedPanel
<1>4. CASE ~Refuses(r, id, place) /\ place[1] >= n
  <2>1. t = [r EXCEPT !.meta = meta]
    BY <1>4 DEF LoadPanel, Refuses
  <2> HIDE DEF t, meta, ps
  <2>2. t = [panels |-> r.panels, meta |-> meta, count |-> r.count]
    BY <2>1 DEF Loads
  <2>3. t \in Loads
    BY <1>1, <1>2, <2>2 DEF Loads
  <2> QED BY <1>4, <2>2, <2>3 DEF LoadedPanel, t, meta
<1>5. CASE ~Refuses(r, id, place) /\ ~(place[1] >= n)
  <2> DEFINE c == r.count + 1
  <2>1. t = [[r EXCEPT !.meta = meta] EXCEPT !.panels = With(@, id, place), !.count = @ + 1]
    BY <1>5 DEF LoadPanel, Refuses
  <2>2. t = [r EXCEPT !.meta = meta, !.panels = ps, !.count = c]
    BY <2>1 DEF Loads
  <2>3. c \in Int
    BY <1>1
  <2> HIDE DEF t, meta, ps, c
  <2>4. t = [panels |-> ps, meta |-> meta, count |-> c]
    BY <2>2 DEF Loads
  <2>5. t \in Loads
    BY <1>1, <1>2, <2>3, <2>4 DEF Loads
  <2> QED BY <1>5, <2>4, <2>5 DEF LoadedPanel, t, meta, ps, c
<1> QED BY <1>3, <1>4, <1>5

LEMMA LoadPanelChanges ==
  ASSUME NEW r \in Changes, NEW id \in PanelIds, NEW place \in Places, NEW n \in Int
  PROVE  LET t == LoadPanel(r, id, place, n)
         IN  /\ t \in Changes /\ LoadedPanel(r, t, id, place, n)
             /\ t.old = r.old
<1> DEFINE t == LoadPanel(r, id, place, n)
           meta == With(r.meta, id, place)
           ps == With(r.panels, id, place)
<1>1. /\ r.panels \in PlaceMaps /\ r.meta \in PlaceMaps /\ r.count \in Int /\ r.old \in PlaceMaps
  BY DEF Changes
<1>2. meta \in PlaceMaps /\ ps \in PlaceMaps /\ DOMAIN meta = DOMAIN r.meta \cup {id}
  BY <1>1, WithIs
<1>3. CASE Refuses(r, id, place)
  <2>1. t = r
    BY <1>3 DEF LoadPanel, Refuses
  <2> QED BY <1>3, <2>1 DEF LoadedPanel
<1>4. CASE ~Refuses(r, id, place) /\ place[1] >= n
  <2>1. t = [r EXCEPT !.meta = meta]
    BY <1>4 DEF LoadPanel, Refuses
  <2> HIDE DEF t, meta, ps
  <2>2. t = [panels |-> r.panels, meta |-> meta, old |-> r.old, count |-> r.count]
    BY <2>1 DEF Changes
  <2>3. t \in Changes
    BY <1>1, <1>2, <2>2 DEF Changes
  <2> QED BY <1>4, <2>2, <2>3 DEF LoadedPanel, t, meta
<1>5. CASE ~Refuses(r, id, place) /\ ~(place[1] >= n)
  <2> DEFINE c == r.count + 1
  <2>1. t = [[r EXCEPT !.meta = meta] EXCEPT !.panels = With(@, id, place), !.count = @ + 1]
    BY <1>5 DEF LoadPanel, Refuses
  <2>2. t = [r EXCEPT !.meta = meta, !.panels = ps, !.count = c]
    BY <2>1 DEF Changes
  <2>3. c \in Int
    BY <1>1
  <2> HIDE DEF t, meta, ps, c
  <2>4. t = [panels |-> ps, meta |-> meta, old |-> r.old, count |-> c]
    BY <2>2 DEF Changes
  <2>5. t \in Changes
    BY <1>1, <1>2, <2>3, <2>4 DEF Changes
  <2> QED BY <1>5, <2>4, <2>5 DEF LoadedPanel, t, meta, ps, c
<1> QED BY <1>3, <1>4, <1>5

LEMMA LoadPanelMonitors ==
  ASSUME NEW ids, NEW r \in Monitors(ids), NEW id \in PanelIds, id \in ids,
         NEW place \in Places, NEW n \in Int
  PROVE  LET t == LoadPanel(r, id, place, n)
         IN  /\ t \in Monitors(ids) /\ LoadedPanel(r, t, id, place, n)
             /\ t.monitors = r.monitors
<1> DEFINE t == LoadPanel(r, id, place, n)
           meta == With(r.meta, id, place)
           ps == With(r.panels, id, place)
<1>1. /\ r.panels \in PlaceMaps /\ r.meta \in PlaceMaps /\ r.count \in Int
      /\ r.monitors \in Int /\ DOMAIN r.meta = ids /\ id \in ids
  BY DEF Monitors
<1>2. meta \in PlaceMaps /\ ps \in PlaceMaps /\ DOMAIN meta = DOMAIN r.meta \cup {id}
  BY <1>1, WithIs
<1>3. CASE Refuses(r, id, place)
  <2>1. t = r
    BY <1>3 DEF LoadPanel, Refuses
  <2> QED BY <1>3, <2>1 DEF LoadedPanel
<1>4. CASE ~Refuses(r, id, place) /\ place[1] >= n
  <2>1. t = [r EXCEPT !.meta = meta]
    BY <1>4 DEF LoadPanel, Refuses
  <2> HIDE DEF t, meta, ps
  <2>2. t = [panels |-> r.panels, meta |-> meta, count |-> r.count, monitors |-> r.monitors]
    BY <2>1 DEF Monitors
  <2>3. t \in Monitors(ids)
    BY <1>1, <1>2, <2>2 DEF Monitors
  <2> QED BY <1>4, <2>2, <2>3 DEF LoadedPanel, t, meta
<1>5. CASE ~Refuses(r, id, place) /\ ~(place[1] >= n)
  <2> DEFINE c == r.count + 1
  <2>1. t = [[r EXCEPT !.meta = meta] EXCEPT !.panels = With(@, id, place), !.count = @ + 1]
    BY <1>5 DEF LoadPanel, Refuses
  <2>2. t = [r EXCEPT !.meta = meta, !.panels = ps, !.count = c]
    BY <2>1 DEF Monitors
  <2>3. c \in Int
    BY <1>1
  <2> HIDE DEF t, meta, ps, c
  <2>4. t = [panels |-> ps, meta |-> meta, count |-> c, monitors |-> r.monitors]
    BY <2>2 DEF Monitors
  <2>5. t \in Monitors(ids)
    BY <1>1, <1>2, <2>3, <2>4 DEF Monitors
  <2> QED BY <1>5, <2>4, <2>5 DEF LoadedPanel, t, meta, ps, c
<1> QED BY <1>3, <1>4, <1>5

\* One entry of the key that has changed.
TakenEntry(r, t, e) ==
    IF e.id \in DOMAIN r.old
    THEN /\ t.panels = With(r.panels, e.id, e.place) /\ t.meta = With(r.meta, e.id, e.place)
         /\ t.old = Removing(r.old, {e.id}) /\ t.count = r.count
    ELSE LoadedPanel(r, t, e.id, e.place, monitorCount) /\ t.old = r.old

LEMMA TakeEntryIs ==
  ASSUME monitorCount \in Int, NEW r \in Changes, NEW e \in Entry
  PROVE  TakeEntry(r, e) \in Changes /\ TakenEntry(r, TakeEntry(r, e), e)
<1> DEFINE t == TakeEntry(r, e)
           meta == With(r.meta, e.id, e.place)
           ps == With(r.panels, e.id, e.place)
           old == Removing(r.old, {e.id})
<1>1. /\ r.panels \in PlaceMaps /\ r.meta \in PlaceMaps /\ r.old \in PlaceMaps /\ r.count \in Int
      /\ e.id \in PanelIds /\ e.place \in Places
  BY DEF Changes, Entry
<1>2. meta \in PlaceMaps /\ ps \in PlaceMaps /\ old \in PlaceMaps
  BY <1>1, WithIs, RemovingIs
<1>3. CASE e.id \in DOMAIN r.old
  <2>1. t = [r EXCEPT !.panels = ps, !.meta = meta, !.old = old]
    BY <1>3 DEF TakeEntry, Changes
  <2> HIDE DEF t, meta, ps, old
  <2>2. t = [panels |-> ps, meta |-> meta, old |-> old, count |-> r.count]
    BY <2>1 DEF Changes
  <2>3. t \in Changes
    BY <1>1, <1>2, <2>2 DEF Changes
  <2> QED BY <1>3, <2>2, <2>3 DEF TakenEntry, t, meta, ps, old
<1>4. CASE e.id \notin DOMAIN r.old
  <2>1. t = LoadPanel(r, e.id, e.place, monitorCount)
    BY <1>4 DEF TakeEntry
  <2>2. t \in Changes /\ LoadedPanel(r, t, e.id, e.place, monitorCount) /\ t.old = r.old
    BY <1>1, <2>1, LoadPanelChanges
  <2> QED BY <1>4, <2>2 DEF TakenEntry
<1> QED BY <1>3, <1>4

\* One known panel after a change of the monitors.
Reconsidered(r, t, id) ==
    IF id \notin DOMAIN r.panels
    THEN IF r.meta[id][1] < r.monitors THEN LoadedPanel(r, t, id, r.meta[id], r.monitors) ELSE t = r
    ELSE IF r.meta[id][1] >= r.monitors
         THEN t.panels = Removing(r.panels, {id}) /\ t.meta = r.meta /\ t.count = r.count - 1
         ELSE /\ DOMAIN t.panels = DOMAIN r.panels /\ t.panels[id] = r.meta[id]
              /\ \A i \in DOMAIN r.panels \ {id} : t.panels[i] = r.panels[i]
              /\ t.meta = r.meta /\ t.count = r.count

LEMMA ReconsiderIs ==
  ASSUME NEW ids, NEW r \in Monitors(ids), NEW id \in ids
  PROVE  LET t == Reconsider(r, id)
         IN  t \in Monitors(ids) /\ Reconsidered(r, t, id) /\ t.monitors = r.monitors
<1> DEFINE t == Reconsider(r, id)
           place == r.meta[id]
<1>1. /\ r.panels \in PlaceMaps /\ r.meta \in PlaceMaps /\ r.count \in Int
      /\ r.monitors \in Int /\ DOMAIN r.meta = ids
  BY DEF Monitors
<1>2. id \in PanelIds /\ place \in Places
  BY <1>1, PlaceMapIs
<1>3. CASE id \notin DOMAIN r.panels /\ place[1] < r.monitors
  <2>1. t = LoadPanel(r, id, place, r.monitors)
    BY <1>3 DEF Reconsider
  <2>2. t \in Monitors(ids) /\ LoadedPanel(r, t, id, place, r.monitors) /\ t.monitors = r.monitors
    BY <1>1, <1>2, <2>1, LoadPanelMonitors
  <2> QED BY <1>3, <2>2 DEF Reconsidered
<1>4. CASE id \notin DOMAIN r.panels /\ ~(place[1] < r.monitors)
  <2>1. t = r
    BY <1>4 DEF Reconsider
  <2> QED BY <1>4, <2>1 DEF Reconsidered
<1>5. CASE id \in DOMAIN r.panels /\ place[1] >= r.monitors
  <2> DEFINE ps == Removing(r.panels, {id})
             c == r.count - 1
  <2>1. ps \in PlaceMaps /\ c \in Int
    <3>1. ps \in PlaceMaps
      BY <1>1, RemovingIs
    <3>2. c \in Int
      BY <1>1
    <3> QED BY <3>1, <3>2
  <2>2. t = [r EXCEPT !.panels = ps, !.count = c]
    BY <1>5 DEF Reconsider, Monitors
  <2> HIDE DEF t, ps, c, place
  <2>3. t = [panels |-> ps, meta |-> r.meta, count |-> c, monitors |-> r.monitors]
    BY <2>2 DEF Monitors
  <2>4. t \in Monitors(ids)
    BY <1>1, <2>1, <2>3 DEF Monitors
  <2> QED BY <1>5, <2>3, <2>4 DEF Reconsidered, t, ps, c, place
<1>6. CASE id \in DOMAIN r.panels /\ ~(place[1] >= r.monitors)
  <2> DEFINE ps == [r.panels EXCEPT ![id] = place]
  <2>1. /\ r.panels \in [DOMAIN r.panels -> Places] /\ IsFiniteSet(DOMAIN r.panels)
        /\ DOMAIN r.panels \in SUBSET PanelIds
    BY <1>1, PlaceMapIs
  <2>2. ps \in [DOMAIN r.panels -> Places] /\ ps[id] = place
        /\ \A i \in DOMAIN r.panels \ {id} : ps[i] = r.panels[i]
    BY <1>2, <1>6, <2>1
  <2>3. t = [r EXCEPT !.panels = ps]
    BY <1>6 DEF Reconsider, Monitors
  <2> HIDE DEF t, ps, place
  <2>4. ps \in PlaceMaps /\ DOMAIN ps = DOMAIN r.panels
    BY <2>1, <2>2, IsPlaceMap
  <2>5. t = [panels |-> ps, meta |-> r.meta, count |-> r.count, monitors |-> r.monitors]
    BY <2>3 DEF Monitors
  <2>6. t \in Monitors(ids)
    BY <1>1, <2>4, <2>5 DEF Monitors
  <2> QED BY <1>6, <2>2, <2>4, <2>5, <2>6 DEF Reconsidered, t, place
<1> QED BY <1>1, <1>3, <1>4, <1>5, <1>6

\* One entry at the start of the session.
LoadEntry(r, e, m) == IF e.place[1] >= m THEN r ELSE LoadPanel(r, e.id, e.place, m)

LEMMA LoadEntryIs ==
  ASSUME NEW r \in Loads, NEW e \in Entry, NEW m \in Int
  PROVE  LET t == LoadEntry(r, e, m)
         IN  /\ t \in Loads
             /\ IF e.place[1] >= m THEN t = r ELSE LoadedPanel(r, t, e.id, e.place, m)
<1>1. e.id \in PanelIds /\ e.place \in Places
  BY DEF Entry
<1> QED BY <1>1, LoadPanelLoads DEF LoadEntry

\* What the fold over the key goes through.
LEMMA KeyFold ==
  ASSUME monitorCount \in Int, NEW base \in Changes, NEW list \in Seq(Entry)
  PROVE  \E tr : /\ tr[0] = base
                 /\ \A k \in 1 .. Len(list) : tr[k] = TakeEntry(tr[k - 1], list[k])
                 /\ \A k \in 0 .. Len(list) : tr[k] \in Changes
                 /\ FoldLeft(TakeEntry, base, list) = tr[Len(list)]
<1> DEFINE X == Changes
           E == Entry
           n == Len(list)
           step == [p \in X \X E |-> TakeEntry(p[1], p[2])]
           Eq(jt) == jt = [t \in SUBSET (1 .. n) |->
                             IF t = {} THEN base ELSE TakeEntry(jt[t \ {Max(t)}], list[Max(t)])]
<1>1. n \in Nat /\ list \in [1 .. n -> E] /\ DOMAIN list = 1 .. n /\ base \in X
  OBVIOUS
<1>2. \A y \in X, e \in E : TakeEntry(y, e) \in X
  BY TakeEntryIs
<1> HIDE DEF X, E
<1>3. step \in [X \X E -> X]
  BY <1>2
<1>4. PICK it \in [SUBSET (1 .. n) -> X] : FoldEq(it, step, base, list, n)
  <2> HIDE DEF step, n
  <2> QED BY <1>1, <1>3, FoldExists
<1>5. Eq(it)
  <2>1. ASSUME NEW t \in SUBSET (1 .. n), t # {}
        PROVE  step[<<it[t \ {Max(t)}], list[Max(t)]>>] = TakeEntry(it[t \ {Max(t)}], list[Max(t)])
    <3>1. Max(t) \in 1 .. n
      <4> HIDE DEF n
      <4> QED BY <1>1, <2>1, MaxIsLast
    <3>2. t \ {Max(t)} \in SUBSET (1 .. n)
      OBVIOUS
    <3>3. <<it[t \ {Max(t)}], list[Max(t)]>> \in X \X E
      BY <1>1, <1>4, <3>1, <3>2
    <3> QED BY <3>3
  <2> HIDE DEF step
  <2> QED BY <1>4, <2>1 DEF FoldEq
<1> HIDE DEF step
<1> DEFINE f == FoldLeft(TakeEntry, base, list)
<1>6. f = (CHOOSE jt : Eq(jt))[1 .. n]
  BY <1>1 DEF FoldLeft, MapThenFoldSet
<1> HIDE DEF f
<1>7. PICK jt : Eq(jt) /\ f = jt[1 .. n]
  BY <1>5, <1>6
<1> DEFINE tr == [k \in 0 .. n |-> jt[1 .. k]]
<1>8. jt[{}] = base /\ \A k \in 1 .. n : jt[1 .. k] = TakeEntry(jt[1 .. (k - 1)], list[k])
  <2>1. {} \in SUBSET (1 .. n)
    OBVIOUS
  <2> HIDE DEF n
  <2>2. \A k \in 1 .. n : /\ 1 .. k \in SUBSET (1 .. n) /\ 1 .. k # {}
                          /\ Max(1 .. k) = k /\ (1 .. k) \ {k} = 1 .. (k - 1)
    BY <1>1, FoldSteps
  <2>3. jt[{}] = base
    BY <1>7, <2>1
  <2>4. ASSUME NEW k \in 1 .. n
        PROVE  jt[1 .. k] = TakeEntry(jt[1 .. (k - 1)], list[k])
    <3>1. 1 .. k \in SUBSET (1 .. n) /\ 1 .. k # {} /\ Max(1 .. k) = k
          /\ (1 .. k) \ {k} = 1 .. (k - 1)
      BY <2>2
    <3>2. jt[1 .. k] = TakeEntry(jt[(1 .. k) \ {Max(1 .. k)}], list[Max(1 .. k)])
      BY ONLY <1>7, <3>1
    <3> QED BY <3>1, <3>2
  <2> QED BY <2>3, <2>4
<1>9. 1 .. 0 = {} /\ 0 \in 0 .. n /\ n \in 0 .. n
      /\ \A k \in 1 .. n : k \in 0 .. n /\ k - 1 \in 0 .. n
  BY <1>1
<1>10. /\ tr[0] = base /\ tr[n] = f
       /\ \A k \in 1 .. n : tr[k] = TakeEntry(tr[k - 1], list[k])
  BY <1>7, <1>8, <1>9
<1> HIDE DEF tr
<1>11. \A k \in 0 .. n : tr[k] \in X
  <2> DEFINE S == {k \in 0 .. n : tr[k] \in X}
  <2>1. 0 \in S
    BY <1>1, <1>9, <1>10
  <2>2. \A k \in 1 .. n : k - 1 \in S => k \in S
    BY <1>1, <1>2, <1>9, <1>10
  <2> HIDE DEF S, n
  <2>3. \A k \in 0 .. n : k \in S
    BY <1>1, <2>1, <2>2, StepsInduct
  <2> QED BY <2>3 DEF S
<1> QED BY <1>10, <1>11 DEF X, f

\* And those over the known panels and over the first key.
MonitorsEnd(base, list) == FoldLeft(Reconsider, base, list)

LEMMA MonitorsFold ==
  ASSUME NEW ids, NEW base \in Monitors(ids), NEW list \in Seq(ids)
  PROVE  \E tr : /\ tr[0] = base
                 /\ \A k \in 1 .. Len(list) : tr[k] = Reconsider(tr[k - 1], list[k])
                 /\ \A k \in 0 .. Len(list) : tr[k] \in Monitors(ids)
                 /\ MonitorsEnd(base, list) = tr[Len(list)]
<1> DEFINE X == Monitors(ids)
           E == ids
           n == Len(list)
           step == [p \in X \X E |-> Reconsider(p[1], p[2])]
           Eq(jt) == jt = [t \in SUBSET (1 .. n) |->
                             IF t = {} THEN base ELSE Reconsider(jt[t \ {Max(t)}], list[Max(t)])]
<1>1. n \in Nat /\ list \in [1 .. n -> E] /\ DOMAIN list = 1 .. n /\ base \in X
  OBVIOUS
<1>2. \A y \in X, e \in E : Reconsider(y, e) \in X
  BY ReconsiderIs
<1> HIDE DEF X, E
<1>3. step \in [X \X E -> X]
  BY <1>2
<1>4. PICK it \in [SUBSET (1 .. n) -> X] : FoldEq(it, step, base, list, n)
  <2> HIDE DEF step, n
  <2> QED BY <1>1, <1>3, FoldExists
<1>5. Eq(it)
  <2>1. ASSUME NEW t \in SUBSET (1 .. n), t # {}
        PROVE  step[<<it[t \ {Max(t)}], list[Max(t)]>>] = Reconsider(it[t \ {Max(t)}], list[Max(t)])
    <3>1. Max(t) \in 1 .. n
      <4> HIDE DEF n
      <4> QED BY <1>1, <2>1, MaxIsLast
    <3>2. t \ {Max(t)} \in SUBSET (1 .. n)
      OBVIOUS
    <3>3. <<it[t \ {Max(t)}], list[Max(t)]>> \in X \X E
      BY <1>1, <1>4, <3>1, <3>2
    <3> QED BY <3>3
  <2> HIDE DEF step
  <2> QED BY <1>4, <2>1 DEF FoldEq
<1> HIDE DEF step
<1> DEFINE f == MonitorsEnd(base, list)
<1>6. f = (CHOOSE jt : Eq(jt))[1 .. n]
  BY <1>1 DEF MonitorsEnd, FoldLeft, MapThenFoldSet
<1> HIDE DEF f
<1>7. PICK jt : Eq(jt) /\ f = jt[1 .. n]
  BY <1>5, <1>6
<1> DEFINE tr == [k \in 0 .. n |-> jt[1 .. k]]
<1>8. jt[{}] = base /\ \A k \in 1 .. n : jt[1 .. k] = Reconsider(jt[1 .. (k - 1)], list[k])
  <2>1. {} \in SUBSET (1 .. n)
    OBVIOUS
  <2> HIDE DEF n
  <2>2. \A k \in 1 .. n : /\ 1 .. k \in SUBSET (1 .. n) /\ 1 .. k # {}
                          /\ Max(1 .. k) = k /\ (1 .. k) \ {k} = 1 .. (k - 1)
    BY <1>1, FoldSteps
  <2>3. jt[{}] = base
    BY <1>7, <2>1
  <2>4. ASSUME NEW k \in 1 .. n
        PROVE  jt[1 .. k] = Reconsider(jt[1 .. (k - 1)], list[k])
    <3>1. 1 .. k \in SUBSET (1 .. n) /\ 1 .. k # {} /\ Max(1 .. k) = k
          /\ (1 .. k) \ {k} = 1 .. (k - 1)
      BY <2>2
    <3>2. jt[1 .. k] = Reconsider(jt[(1 .. k) \ {Max(1 .. k)}], list[Max(1 .. k)])
      BY ONLY <1>7, <3>1
    <3> QED BY <3>1, <3>2
  <2> QED BY <2>3, <2>4
<1>9. 1 .. 0 = {} /\ 0 \in 0 .. n /\ n \in 0 .. n
      /\ \A k \in 1 .. n : k \in 0 .. n /\ k - 1 \in 0 .. n
  BY <1>1
<1>10. /\ tr[0] = base /\ tr[n] = f
       /\ \A k \in 1 .. n : tr[k] = Reconsider(tr[k - 1], list[k])
  BY <1>7, <1>8, <1>9
<1> HIDE DEF tr
<1>11. \A k \in 0 .. n : tr[k] \in X
  <2> DEFINE S == {k \in 0 .. n : tr[k] \in X}
  <2>1. 0 \in S
    BY <1>1, <1>9, <1>10
  <2>2. \A k \in 1 .. n : k - 1 \in S => k \in S
    BY <1>1, <1>2, <1>9, <1>10
  <2> HIDE DEF S, n
  <2>3. \A k \in 0 .. n : k \in S
    BY <1>1, <2>1, <2>2, StepsInduct
  <2> QED BY <2>3 DEF S
<1> QED BY <1>10, <1>11 DEF X, f

LoadEnd(base, list, m) ==
    FoldLeft(LAMBDA r, e : IF e.place[1] >= m THEN r ELSE LoadPanel(r, e.id, e.place, m),
             base, list)

\* The values the fold goes through, entry by entry.
LoadTrace(tr, base, list, m) ==
    /\ tr[0] = base
    /\ \A k \in 1 .. Len(list) : tr[k] = LoadEntry(tr[k - 1], list[k], m)
    /\ \A k \in 0 .. Len(list) : tr[k] \in Loads
    /\ LoadEnd(base, list, m) = tr[Len(list)]

LEMMA LoadFold ==
  ASSUME NEW m \in Int, NEW base \in Loads, NEW list \in Seq(Entry)
  PROVE  \E tr : LoadTrace(tr, base, list, m)
<1> DEFINE X == Loads
           E == Entry
           n == Len(list)
           step == [p \in X \X E |-> LoadEntry(p[1], p[2], m)]
           Eq(jt) == jt = [t \in SUBSET (1 .. n) |->
                             IF t = {} THEN base ELSE LoadEntry(jt[t \ {Max(t)}], list[Max(t)], m)]
<1>1. n \in Nat /\ list \in [1 .. n -> E] /\ DOMAIN list = 1 .. n /\ base \in X
  OBVIOUS
<1>2. \A y \in X, e \in E : LoadEntry(y, e, m) \in X
  BY LoadEntryIs
<1> HIDE DEF X, E
<1>3. step \in [X \X E -> X]
  BY <1>2
<1>4. PICK it \in [SUBSET (1 .. n) -> X] : FoldEq(it, step, base, list, n)
  <2> HIDE DEF step, n
  <2> QED BY <1>1, <1>3, FoldExists
<1>5. Eq(it)
  <2>1. ASSUME NEW t \in SUBSET (1 .. n), t # {}
        PROVE  step[<<it[t \ {Max(t)}], list[Max(t)]>>] = LoadEntry(it[t \ {Max(t)}], list[Max(t)], m)
    <3>1. Max(t) \in 1 .. n
      <4> HIDE DEF n
      <4> QED BY <1>1, <2>1, MaxIsLast
    <3>2. t \ {Max(t)} \in SUBSET (1 .. n)
      OBVIOUS
    <3>3. <<it[t \ {Max(t)}], list[Max(t)]>> \in X \X E
      BY <1>1, <1>4, <3>1, <3>2
    <3> QED BY <3>3
  <2> HIDE DEF step
  <2> QED BY <1>4, <2>1 DEF FoldEq
<1> HIDE DEF step
<1> DEFINE f == LoadEnd(base, list, m)
<1>6. f = (CHOOSE jt : Eq(jt))[1 .. n]
  BY <1>1 DEF LoadEnd, FoldLeft, MapThenFoldSet, LoadEntry
<1> HIDE DEF f
<1>7. PICK jt : Eq(jt) /\ f = jt[1 .. n]
  BY <1>5, <1>6
<1> DEFINE tr == [k \in 0 .. n |-> jt[1 .. k]]
<1>8. jt[{}] = base /\ \A k \in 1 .. n : jt[1 .. k] = LoadEntry(jt[1 .. (k - 1)], list[k], m)
  <2>1. {} \in SUBSET (1 .. n)
    OBVIOUS
  <2> HIDE DEF n
  <2>2. \A k \in 1 .. n : /\ 1 .. k \in SUBSET (1 .. n) /\ 1 .. k # {}
                          /\ Max(1 .. k) = k /\ (1 .. k) \ {k} = 1 .. (k - 1)
    BY <1>1, FoldSteps
  <2>3. jt[{}] = base
    BY <1>7, <2>1
  <2>4. ASSUME NEW k \in 1 .. n
        PROVE  jt[1 .. k] = LoadEntry(jt[1 .. (k - 1)], list[k], m)
    <3>1. 1 .. k \in SUBSET (1 .. n) /\ 1 .. k # {} /\ Max(1 .. k) = k
          /\ (1 .. k) \ {k} = 1 .. (k - 1)
      BY <2>2
    <3>2. jt[1 .. k] = LoadEntry(jt[(1 .. k) \ {Max(1 .. k)}], list[Max(1 .. k)], m)
      BY ONLY <1>7, <3>1
    <3> QED BY <3>1, <3>2
  <2> QED BY <2>3, <2>4
<1>9. 1 .. 0 = {} /\ 0 \in 0 .. n /\ n \in 0 .. n
      /\ \A k \in 1 .. n : k \in 0 .. n /\ k - 1 \in 0 .. n
  BY <1>1
<1>10. /\ tr[0] = base /\ tr[n] = f
       /\ \A k \in 1 .. n : tr[k] = LoadEntry(tr[k - 1], list[k], m)
  BY <1>7, <1>8, <1>9
<1> HIDE DEF tr
<1>11. \A k \in 0 .. n : tr[k] \in X
  <2> DEFINE S == {k \in 0 .. n : tr[k] \in X}
  <2>1. 0 \in S
    BY <1>1, <1>9, <1>10
  <2>2. \A k \in 1 .. n : k - 1 \in S => k \in S
    BY <1>1, <1>2, <1>9, <1>10
  <2> HIDE DEF S, n
  <2>3. \A k \in 0 .. n : k \in S
    BY <1>1, <2>1, <2>2, StepsInduct
  <2> QED BY <2>3 DEF S
<1>12. LoadTrace(tr, base, list, m)
  BY <1>10, <1>11 DEF LoadTrace, X, f
<1> QED BY <1>12

-----------------------------------------------------------------------------
(* What the folds make of a key with no id and no place twice. *)

\* A count that is off by m stays so when it follows the number it counts.
LEMMA CountUp ==
  ASSUME NEW a \in Nat, NEW m \in Int, NEW r, NEW t, NEW b, r = a - m, t = r + 1, b = a + 1
  PROVE  t = b - m
OBVIOUS

LEMMA CountDown ==
  ASSUME NEW a \in Nat, NEW m \in Int, NEW r, NEW t, NEW b, r = a - m, t = r - 1, b = a - 1
  PROVE  t = b - m
OBVIOUS

KnownAs(meta, list) ==
    /\ DOMAIN meta = Ids(list)
    /\ \A k \in DOMAIN list : meta[list[k].id] = list[k].place

ThereAre(ps, meta, n) ==
    /\ DOMAIN ps = {i \in DOMAIN meta : meta[i][1] < n}
    /\ \A i \in DOMAIN ps : ps[i] = meta[i]

\* The first k entries of the list are known, and those panels are there whose
\* monitor is one of the n.
KnownUpTo(r, list, k, n) ==
    /\ DOMAIN r.meta = {list[j].id : j \in 1 .. k}
    /\ \A j \in 1 .. k : r.meta[list[j].id] = list[j].place
    /\ ThereAre(r.panels, r.meta, n)

Extended(r, t, e, n) ==
    /\ t.meta = With(r.meta, e.id, e.place)
    /\ t.panels = IF e.place[1] >= n THEN r.panels ELSE With(r.panels, e.id, e.place)

LEMMA PlaceIs ==
  ASSUME NEW p \in Places
  PROVE  p[1] \in Int
BY PanelsAssumption DEF Places

LEMMA EntryIs ==
  ASSUME NEW list \in Seq(Entry), NEW j \in DOMAIN list
  PROVE  list[j].id \in PanelIds /\ list[j].place \in Places /\ list[j].place[1] \in Int
<1>1. list[j] \in Entry
  OBVIOUS
<1>2. list[j].id \in PanelIds /\ list[j].place \in Places
  BY <1>1 DEF Entry
<1> QED BY <1>2, PlaceIs

LEMMA ExtendedStep ==
  ASSUME NEW n \in Int, NEW list \in Seq(Entry), KeySound(list), NEW k \in DOMAIN list,
         NEW r, r.meta \in PlaceMaps, r.panels \in PlaceMaps, KnownUpTo(r, list, k - 1, n),
         NEW t, Extended(r, t, list[k], n)
  PROVE  /\ list[k].id \notin DOMAIN r.meta /\ list[k].id \notin DOMAIN r.panels
         /\ KnownUpTo(t, list, k, n)
         /\ DOMAIN t.panels = DOMAIN r.panels
              \cup (IF list[k].place[1] < n THEN {list[k].id} ELSE {})
<1> DEFINE id == list[k].id
           place == list[k].place
<1>1. /\ id \in PanelIds /\ place \in Places /\ place[1] \in Int
      /\ k \in Nat \ {0} /\ 1 .. k = 1 .. (k - 1) \cup {k}
      /\ \A j \in 1 .. (k - 1) : j \in DOMAIN list /\ j # k
      /\ \A j \in 1 .. k : j \in DOMAIN list /\ list[j].place[1] \in Int
  <2>1. ASSUME NEW j \in DOMAIN list
        PROVE  list[j].id \in PanelIds /\ list[j].place \in Places /\ list[j].place[1] \in Int
    BY EntryIs
  <2>2. /\ k \in Nat \ {0} /\ 1 .. k = 1 .. (k - 1) \cup {k}
        /\ \A j \in 1 .. (k - 1) : j \in DOMAIN list /\ j # k
        /\ \A j \in 1 .. k : j \in DOMAIN list
    OBVIOUS
  <2> QED BY <2>1, <2>2
<1>2. \A j \in 1 .. (k - 1) : list[j].id # id
  BY <1>1 DEF KeySound
<1>3. id \notin DOMAIN r.meta /\ id \notin DOMAIN r.panels
  BY <1>2 DEF KnownUpTo, ThereAre
<1>4. /\ DOMAIN t.meta = DOMAIN r.meta \cup {id} /\ t.meta[id] = place
      /\ \A x \in DOMAIN r.meta : t.meta[x] = r.meta[x]
  <2> DEFINE f == r.meta
  <2>1. f \in PlaceMaps /\ id \in PanelIds /\ place \in Places /\ id \notin DOMAIN f
    BY <1>1, <1>3
  <2> DEFINE g == With(f, id, place)
  <2>2. t.meta = g
    BY DEF Extended
  <2> HIDE DEF f, id, place
  <2>3. DOMAIN g = DOMAIN f \cup {id} /\ g[id] = place /\ \A x \in DOMAIN f \ {id} : g[x] = f[x]
    BY ONLY <2>1, WithParts
  <2> QED BY <2>1, <2>2, <2>3 DEF f
<1>5. /\ DOMAIN t.panels = DOMAIN r.panels \cup (IF place[1] < n THEN {id} ELSE {})
      /\ place[1] < n => t.panels[id] = place
      /\ \A x \in DOMAIN r.panels : t.panels[x] = r.panels[x]
  <2>1. CASE place[1] >= n
    BY <1>1, <2>1 DEF Extended
  <2>2. CASE ~(place[1] >= n)
    <3> DEFINE f == r.panels
    <3>1. f \in PlaceMaps /\ id \in PanelIds /\ place \in Places /\ id \notin DOMAIN f
      BY <1>1, <1>3
    <3> DEFINE g == With(f, id, place)
    <3>2. t.panels = g /\ place[1] < n
      BY <1>1, <2>2 DEF Extended
    <3> HIDE DEF f, id, place
    <3>3. DOMAIN g = DOMAIN f \cup {id} /\ g[id] = place /\ \A x \in DOMAIN f \ {id} : g[x] = f[x]
      BY ONLY <3>1, WithParts
    <3> QED BY <3>1, <3>2, <3>3 DEF f
  <2> QED BY <2>1, <2>2
<1> HIDE DEF id, place
<1>6. DOMAIN t.meta = {list[j].id : j \in 1 .. k}
  BY <1>1, <1>4 DEF KnownUpTo, id
<1>7. ASSUME NEW j \in 1 .. k PROVE t.meta[list[j].id] = list[j].place
  <2>1. CASE j = k
    BY <1>4, <2>1 DEF id, place
  <2>2. CASE j # k
    BY <1>1, <1>4, <2>2 DEF KnownUpTo
  <2> QED BY <2>1, <2>2
<1>8. ThereAre(t.panels, t.meta, n)
  <2> DEFINE f == r.meta
             h == t.meta
             ps == r.panels
             qs == t.panels
  <2>1. /\ DOMAIN ps = {x \in DOMAIN f : f[x][1] < n} /\ \A x \in DOMAIN ps : ps[x] = f[x]
    BY <1>1 DEF KnownUpTo, ThereAre
  <2>2. /\ DOMAIN h = DOMAIN f \cup {id} /\ h[id] = place /\ \A x \in DOMAIN f : h[x] = f[x]
        /\ DOMAIN qs = DOMAIN ps \cup (IF place[1] < n THEN {id} ELSE {})
        /\ place[1] < n => qs[id] = place
        /\ \A x \in DOMAIN ps : qs[x] = ps[x]
    BY <1>4, <1>5
  <2> HIDE DEF f, h, ps, qs
  <2>3. \A x : x \in DOMAIN qs <=> x \in DOMAIN h /\ h[x][1] < n
    BY ONLY <2>1, <2>2
  <2>4. \A x \in DOMAIN qs : qs[x] = h[x]
    BY ONLY <2>1, <2>2
  <2> QED BY <2>3, <2>4 DEF ThereAre, h, qs
<1> QED BY <1>3, <1>5, <1>6, <1>7, <1>8 DEF KnownUpTo, id, place

\* An entry of a sound key is not refused.
LEMMA LoadedStep ==
  ASSUME NEW n \in Int, NEW list \in Seq(Entry), KeySound(list), NEW k \in DOMAIN list,
         NEW r, r.meta \in PlaceMaps, r.panels \in PlaceMaps, KnownUpTo(r, list, k - 1, n),
         NEW t, LoadedPanel(r, t, list[k].id, list[k].place, n)
  PROVE  /\ Extended(r, t, list[k], n)
         /\ t.count = IF list[k].place[1] < n THEN r.count + 1 ELSE r.count
<1>1. \A j \in 1 .. (k - 1) : j \in DOMAIN list /\ j # k
  OBVIOUS
<1>2. \A j \in 1 .. (k - 1) : list[j].id # list[k].id /\ list[j].place # list[k].place
  BY <1>1 DEF KeySound
<1>3. ~Refuses(r, list[k].id, list[k].place)
  BY <1>2 DEF Refuses, KnownUpTo, ThereAre
<1>4. list[k].place[1] \in Int
  BY EntryIs
<1> QED BY <1>3, <1>4 DEF LoadedPanel, Extended

\* All entries known is the key known.
LEMMA AllKnown ==
  ASSUME NEW n, NEW list \in Seq(Entry), NEW r, KnownUpTo(r, list, Len(list), n)
  PROVE  KnownAs(r.meta, list) /\ ThereAre(r.panels, r.meta, n)
<1>1. DOMAIN list = 1 .. Len(list)
  OBVIOUS
<1> QED BY <1>1 DEF KnownUpTo, KnownAs, Ids

\* _onPanelsEnabledChanged: count starts as the number of panels that stay.
KeyTaken(list, old, count) ==
    FoldLeft(TakeEntry, [panels |-> <<>>, meta |-> <<>>, old |-> old, count |-> count], list)

LEMMA KeyTakenTyped ==
  ASSUME monitorCount \in Int, NEW old \in PlaceMaps, NEW list \in Seq(Entry), NEW count \in Int
  PROVE  KeyTaken(list, old, count) \in Changes
<1> DEFINE base == [panels |-> <<>>, meta |-> <<>>, old |-> old, count |-> count]
<1>1. base \in Changes
  BY NoPanelsIs DEF Changes
<1>2. Len(list) \in 0 .. Len(list)
  OBVIOUS
<1> HIDE DEF base
<1>3. FoldLeft(TakeEntry, base, list) \in Changes
  BY <1>1, <1>2, KeyFold
<1> QED BY <1>3 DEF KeyTaken, base

LEMMA KeyTakenIs ==
  ASSUME monitorCount \in Int, NEW old \in PlaceMaps, NEW list \in Seq(Entry), KeySound(list),
         NEW count \in Int, NEW miss \in Int,
         count = Cardinality(DOMAIN old \cap Ids(list)) - miss,
         \A k \in DOMAIN list : list[k].id \in DOMAIN old => list[k].place[1] < monitorCount
  PROVE  LET r == KeyTaken(list, old, count)
         IN  /\ KnownAs(r.meta, list) /\ ThereAre(r.panels, r.meta, monitorCount)
             /\ r.count = Cardinality(DOMAIN r.panels) - miss
<1> DEFINE base == [panels |-> <<>>, meta |-> <<>>, old |-> old, count |-> count]
           n == Len(list)
           kept == DOMAIN old \cap Ids(list)
           mc == monitorCount
           end == KeyTaken(list, old, count)
<1>1. /\ base \in Changes /\ base.panels = <<>> /\ base.meta = <<>> /\ base.old = old
      /\ base.count = count
  BY NoPanelsIs DEF Changes
<1>2. n \in Nat /\ DOMAIN list = 1 .. n /\ list \in Seq(Entry)
  OBVIOUS
<1>3. IsFiniteSet(kept) /\ kept \subseteq PanelIds
  BY PlaceMapIs, FS_Subset
<1> HIDE DEF base
<1>4. PICK tr : /\ tr[0] = base
                /\ \A k \in 1 .. n : tr[k] = TakeEntry(tr[k - 1], list[k])
                /\ \A k \in 0 .. n : tr[k] \in Changes
                /\ end = tr[n]
  BY <1>1, KeyFold DEF KeyTaken, base
<1> HIDE DEF end, kept
<1> DEFINE Q(k) == /\ KnownUpTo(tr[k], list, k, mc)
                   /\ DOMAIN tr[k].old = DOMAIN old \ {list[j].id : j \in 1 .. k}
                   /\ tr[k].count = Cardinality(DOMAIN tr[k].panels \cup kept) - miss
           S == {k \in 0 .. n : Q(k)}
<1>5. 0 \in S
  <2>1. 1 .. 0 = {}
    OBVIOUS
  <2>2. KnownUpTo(base, list, 0, mc)
    BY <1>1, <2>1, NoPanelsIs DEF KnownUpTo, ThereAre
  <2>3. base.count = Cardinality(DOMAIN base.panels \cup kept) - miss
    BY <1>1, NoPanelsIs DEF kept
  <2>4. tr[0] = base
    BY <1>4
  <2>5. DOMAIN base.old = DOMAIN old \ {list[j].id : j \in 1 .. 0}
    BY <1>1, <2>1
  <2>6. Q(0)
    BY <2>2, <2>3, <2>4, <2>5
  <2>7. 0 \in 0 .. n
    BY <1>2
  <2> HIDE DEF n, Q
  <2> QED BY <2>6, <2>7
<1>6. ASSUME NEW k \in 1 .. n, k - 1 \in S PROVE k \in S
  <2> DEFINE r == tr[k - 1]
             t == tr[k]
             id == list[k].id
             place == list[k].place
  <2>0. k - 1 \in 0 .. n /\ k \in 0 .. n /\ k \in DOMAIN list
    BY <1>2
  <2>1. r \in Changes /\ t = TakeEntry(r, list[k]) /\ Q(k - 1) /\ list[k] \in Entry
    BY <1>2, <1>4, <1>6, <2>0
  <2>2. /\ r.meta \in PlaceMaps /\ r.panels \in PlaceMaps /\ r.old \in PlaceMaps
        /\ r.count \in Int
    BY <2>1 DEF Changes
  <2>3. TakenEntry(r, t, list[k])
    BY <2>1, TakeEntryIs
  <2>4. place[1] \in Int /\ id \in PanelIds
    BY <2>1, PlaceIs DEF Entry
  <2>5. /\ 1 .. k = 1 .. (k - 1) \cup {k}
        /\ \A j \in 1 .. (k - 1) : j \in DOMAIN list /\ j # k
    BY <1>2, <2>0
  <2>6. \A j \in 1 .. (k - 1) : list[j].id # id
    BY <2>0, <2>5 DEF KeySound
  <2>7. id \in DOMAIN r.old <=> id \in DOMAIN old
    BY <2>1, <2>6
  <2>8. /\ Extended(r, t, list[k], mc)
        /\ t.old = Removing(r.old, {id})
        /\ t.count = IF place[1] < mc /\ id \notin DOMAIN old THEN r.count + 1 ELSE r.count
    <3>1. CASE id \in DOMAIN old
      <4>1. place[1] < mc /\ ~(place[1] >= mc)
        BY <2>0, <2>4, <3>1
      <4> QED BY <2>3, <2>7, <3>1, <4>1 DEF TakenEntry, Extended
    <3>2. CASE id \notin DOMAIN old
      <4>1. LoadedPanel(r, t, id, place, mc) /\ t.old = r.old
        BY <2>3, <2>7, <3>2 DEF TakenEntry
      <4> HIDE DEF r, t
      <4>2. /\ Extended(r, t, list[k], mc)
            /\ t.count = IF place[1] < mc THEN r.count + 1 ELSE r.count
        BY <2>0, <2>1, <2>2, <4>1, LoadedStep DEF r
      <4> DEFINE f == r.old
      <4>3. f \in PlaceMaps /\ DOMAIN f \ {id} = DOMAIN f
        BY <2>2, <2>7, <3>2 DEF r
      <4> HIDE DEF f, id
      <4>4. Removing(f, {id}) = f
        <5> DEFINE g == Removing(f, {id})
        <5>1. g \in PlaceMaps /\ DOMAIN g = DOMAIN f \ {id} /\ \A x \in DOMAIN g : g[x] = f[x]
          BY <4>3, RemovingIs
        <5> HIDE DEF g
        <5>2. g = f
          BY <4>3, <5>1, SamePlaces
        <5> QED BY <5>2 DEF g
      <4> QED BY <3>2, <4>1, <4>2, <4>4 DEF f, id
    <3> QED BY <3>1, <3>2
  <2> HIDE DEF r, t
  <2>9. /\ id \notin DOMAIN r.panels
        /\ KnownUpTo(t, list, k, mc)
        /\ DOMAIN t.panels = DOMAIN r.panels \cup (IF place[1] < mc THEN {id} ELSE {})
    BY <2>0, <2>1, <2>2, <2>8, ExtendedStep DEF r
  <2>10. DOMAIN t.old = DOMAIN old \ {list[j].id : j \in 1 .. k}
    <3>1. DOMAIN t.old = DOMAIN r.old \ {id}
      BY <2>2, <2>8, RemovingIs
    <3> QED BY <2>1, <2>5, <3>1 DEF r
  <2>11. t.count = Cardinality(DOMAIN t.panels \cup kept) - miss
    <3>1. r.count = Cardinality(DOMAIN r.panels \cup kept) - miss /\ IsFiniteSet(DOMAIN r.panels \cup kept)
      <4>1. IsFiniteSet(DOMAIN r.panels)
        BY <2>2, PlaceMapIs
      <4>2. IsFiniteSet(DOMAIN r.panels \cup kept)
        BY <1>3, <4>1, FS_Union
      <4>3. tr[k - 1].count = Cardinality(DOMAIN tr[k - 1].panels \cup kept) - miss
        BY <2>1
      <4> QED BY <4>2, <4>3 DEF r
    <3>2. id \in kept <=> id \in DOMAIN old
      BY <2>0 DEF kept, Ids
    <3>3. CASE place[1] < mc /\ id \notin DOMAIN old
      <4>1. DOMAIN t.panels \cup kept = (DOMAIN r.panels \cup kept) \cup {id}
            /\ id \notin DOMAIN r.panels \cup kept
        BY <2>9, <3>2, <3>3
      <4> DEFINE A == DOMAIN r.panels \cup kept
      <4>2. IsFiniteSet(A) /\ r.count = Cardinality(A) - miss /\ id \notin A
        BY <3>1, <4>1
      <4>3. DOMAIN t.panels \cup kept = A \cup {id}
        BY <4>1
      <4>4. t.count = r.count + 1
        BY <2>8, <3>3
      <4> HIDE DEF A, id
      <4>5. Cardinality(A \cup {id}) = Cardinality(A) + 1 /\ Cardinality(A) \in Nat
        BY <4>2, FS_AddElement, FS_CardinalityType
      <4>6. t.count = Cardinality(A \cup {id}) - miss
        BY <4>2, <4>4, <4>5, CountUp
      <4> QED BY <4>3, <4>6
    <3>4. CASE ~(place[1] < mc /\ id \notin DOMAIN old)
      <4>1. DOMAIN t.panels \cup kept = DOMAIN r.panels \cup kept
        BY <2>9, <3>2, <3>4
      <4> QED BY <2>8, <3>1, <3>4, <4>1
    <3> QED BY <3>3, <3>4
  <2> QED BY <2>0, <2>9, <2>10, <2>11 DEF t
<1>7. Q(n)
  <2> HIDE DEF S, n, Q
  <2>1. \A k \in 0 .. n : k \in S
    BY <1>2, <1>5, <1>6, StepsInduct
  <2>2. n \in 0 .. n
    BY <1>2
  <2> QED BY <2>1, <2>2 DEF S
<1>8. KnownAs(end.meta, list) /\ ThereAre(end.panels, end.meta, mc)
  BY <1>4, <1>7, AllKnown
<1>9. kept \subseteq DOMAIN end.panels
  <2> SUFFICES ASSUME NEW id \in kept PROVE id \in DOMAIN end.panels
    OBVIOUS
  <2>1. PICK k \in DOMAIN list : id = list[k].id
    BY DEF kept, Ids
  <2>2. id \in DOMAIN end.meta /\ end.meta[id][1] < mc
    BY <1>8, <2>1 DEF KnownAs, Ids, kept
  <2> QED BY <1>8, <2>2 DEF ThereAre
<1>10. end.count = Cardinality(DOMAIN end.panels) - miss
  <2>1. DOMAIN end.panels \cup kept = DOMAIN end.panels
    BY <1>9
  <2> QED BY <1>4, <1>7, <2>1
<1> QED BY <1>8, <1>10 DEF end

-----------------------------------------------------------------------------
(* What a change of the monitors makes of the known panels. *)

Distinct(meta) == \A i, j \in DOMAIN meta : meta[i] = meta[j] => i = j

MonitorsTaken(ps, meta, count, n) ==
    FoldLeft(Reconsider,
             [panels |-> ps, meta |-> meta, count |-> count, monitors |-> n],
             SetToSeq(DOMAIN meta))

\* The panels whose id is in D have been looked at, the others have not.
LookedAt(r, ps, meta, n, D, miss) ==
    /\ r.meta = meta /\ r.monitors = n
    /\ DOMAIN r.panels = {i \in DOMAIN meta : IF i \in D THEN meta[i][1] < n
                                              ELSE i \in DOMAIN ps}
    /\ \A i \in DOMAIN r.panels : r.panels[i] = meta[i]
    /\ r.count = Cardinality(DOMAIN r.panels) - miss

LEMMA MetaPlace ==
  ASSUME NEW meta \in PlaceMaps, NEW i \in DOMAIN meta
  PROVE  i \in PanelIds /\ meta[i] \in Places /\ meta[i][1] \in Int
<1>1. i \in PanelIds /\ meta[i] \in Places
  BY PlaceMapIs
<1> QED BY <1>1, PlaceIs

LEMMA WithSame ==
  ASSUME NEW f \in PlaceMaps, NEW id \in DOMAIN f
  PROVE  With(f, id, f[id]) = f
<1> DEFINE g == With(f, id, f[id])
<1>1. id \in PanelIds /\ f[id] \in Places
  BY MetaPlace
<1> DEFINE v == f[id]
<1>2. g \in PlaceMaps /\ DOMAIN g = DOMAIN f \cup {id} /\ g[id] = f[id]
      /\ \A x \in DOMAIN f \ {id} : g[x] = f[x]
  <2>1. f \in PlaceMaps /\ id \in PanelIds /\ v \in Places
    BY <1>1
  <2> HIDE DEF v
  <2>2. /\ With(f, id, v) \in PlaceMaps /\ DOMAIN With(f, id, v) = DOMAIN f \cup {id}
        /\ With(f, id, v)[id] = v
        /\ \A x \in DOMAIN f \ {id} : With(f, id, v)[x] = f[x]
    BY <2>1, WithIs, WithParts
  <2> QED BY <2>2 DEF v
<1> HIDE DEF g
<1>3. DOMAIN g = DOMAIN f /\ \A x \in DOMAIN g : g[x] = f[x]
  BY <1>2
<1>4. g = f
  BY <1>2, <1>3, SamePlaces
<1> QED BY <1>4 DEF g

LEMMA ReconsiderStep ==
  ASSUME NEW meta \in PlaceMaps, Distinct(meta), NEW ps, NEW n \in Int, NEW D,
         NEW miss \in Int, NEW r \in Monitors(DOMAIN meta),
         LookedAt(r, ps, meta, n, D, miss),
         NEW id \in DOMAIN meta
  PROVE  LookedAt(Reconsider(r, id), ps, meta, n, D \cup {id}, miss)
<1> DEFINE t == Reconsider(r, id)
           place == meta[id]
           E == {i \in DOMAIN meta : IF i \in D \cup {id} THEN meta[i][1] < n ELSE i \in DOMAIN ps}
           P == DOMAIN r.panels
           f == r.panels
<1>1. Reconsidered(r, t, id) /\ t.monitors = r.monitors
  BY ReconsiderIs
<1>2. /\ f \in PlaceMaps /\ IsFiniteSet(P) /\ r.count \in Int /\ r.count = Cardinality(P) - miss
      /\ r.meta = meta /\ r.monitors = n /\ \A i \in P : f[i] = meta[i]
      /\ P = {i \in DOMAIN meta : IF i \in D THEN meta[i][1] < n ELSE i \in DOMAIN ps}
      /\ Cardinality(P) \in Nat
  BY PlaceMapIs DEF LookedAt, Monitors
<1>3. id \in PanelIds /\ place \in Places /\ place[1] \in Int
  BY MetaPlace
<1>4. E = IF place[1] < n THEN P \cup {id} ELSE P \ {id}
  BY <1>2
<1> HIDE DEF t, E, P, f, place
<1>5. CASE id \notin P /\ place[1] < n
  <2>1. LoadedPanel(r, t, id, place, n)
    BY <1>1, <1>2, <1>5 DEF Reconsidered, P, place
  <2>2. ~Refuses(r, id, place)
    <3>1. id \notin DOMAIN r.panels
      BY <1>5 DEF P
    <3>2. \A i \in DOMAIN meta \ {id} : meta[i] # meta[id]
      BY DEF Distinct
    <3> QED BY <1>2, <3>1, <3>2 DEF Refuses, place
  <2>3. t.meta = With(meta, id, place) /\ t.panels = With(f, id, place) /\ t.count = r.count + 1
    BY <1>2, <1>3, <1>5, <2>1, <2>2 DEF LoadedPanel, f
  <2>4. t.meta = meta
    BY <2>3, WithSame DEF place
  <2> DEFINE g == With(f, id, place)
  <2>5. DOMAIN g = DOMAIN f \cup {id} /\ g[id] = place /\ \A x \in DOMAIN f \ {id} : g[x] = f[x]
    BY ONLY <1>2, <1>3, WithParts
  <2>6. t.panels = g /\ DOMAIN f = P
    BY <2>3 DEF f, P
  <2> HIDE DEF g
  <2>7. DOMAIN t.panels = E /\ \A i \in E : t.panels[i] = meta[i]
    BY <1>2, <1>4, <1>5, <2>5, <2>6 DEF place
  <2>8. Cardinality(P \cup {id}) = Cardinality(P) + 1 /\ Cardinality(P) \in Nat
    BY <1>2, <1>5, FS_AddElement, FS_CardinalityType
  <2>9. t.count = Cardinality(P \cup {id}) - miss
    <3> DEFINE a == Cardinality(P)
               b == Cardinality(P \cup {id})
    <3>1. /\ a \in Nat /\ miss \in Int /\ r.count = a - miss
          /\ t.count = r.count + 1 /\ b = a + 1
      BY <1>2, <2>3, <2>8
    <3> HIDE DEF a, b
    <3>2. t.count = b - miss
      BY ONLY <3>1, CountUp
    <3> QED BY <3>2 DEF b
  <2>10. t.count = Cardinality(E) - miss
    BY <1>4, <1>5, <2>9
  <2> QED BY <1>1, <1>2, <2>4, <2>7, <2>10 DEF LookedAt, E, t
<1>6. CASE id \notin P /\ ~(place[1] < n)
  <2>1. t = r
    BY <1>1, <1>2, <1>6 DEF Reconsidered, P, place
  <2>2. E = P
    BY <1>4, <1>6
  <2>3. DOMAIN t.panels = E /\ \A i \in E : t.panels[i] = meta[i]
    BY <1>2, <2>1, <2>2 DEF f, P
  <2>4. t.count = Cardinality(E) - miss
    BY <1>2, <2>1, <2>2
  <2> QED BY <1>1, <1>2, <2>1, <2>3, <2>4 DEF LookedAt, E, t
<1>7. CASE id \in P /\ place[1] >= n
  <2>1. t.panels = Removing(f, {id}) /\ t.meta = meta /\ t.count = r.count - 1
    BY <1>1, <1>2, <1>7 DEF Reconsidered, P, place, f
  <2> DEFINE g == Removing(f, {id})
  <2>2. DOMAIN g = DOMAIN f \ {id} /\ \A x \in DOMAIN g : g[x] = f[x]
    BY ONLY <1>2, RemovingIs
  <2>3. t.panels = g /\ DOMAIN f = P /\ E = P \ {id}
    BY <1>3, <1>4, <1>7, <2>1 DEF f, P
  <2> HIDE DEF g
  <2>4. DOMAIN t.panels = E /\ \A i \in E : t.panels[i] = meta[i]
    BY <1>2, <2>2, <2>3
  <2>5. Cardinality(P \ {id}) = Cardinality(P) - 1 /\ Cardinality(P) \in Nat
    BY <1>2, <1>7, FS_RemoveElement, FS_CardinalityType
  <2>6. t.count = Cardinality(E) - miss
    <3> DEFINE a == Cardinality(P)
               b == Cardinality(E)
    <3>1. /\ a \in Nat /\ miss \in Int /\ r.count = a - miss
          /\ t.count = r.count - 1 /\ b = a - 1
      BY <1>2, <2>1, <2>3, <2>5
    <3> HIDE DEF a, b
    <3>2. t.count = b - miss
      BY ONLY <3>1, CountDown
    <3> QED BY <3>2 DEF b
  <2> QED BY <1>1, <1>2, <2>1, <2>4, <2>6 DEF LookedAt, E, t
<1>8. CASE id \in P /\ ~(place[1] >= n)
  <2>1. /\ DOMAIN t.panels = DOMAIN f /\ t.panels[id] = place /\ t.meta = meta
        /\ \A i \in DOMAIN f \ {id} : t.panels[i] = f[i]
        /\ t.count = r.count
    BY <1>1, <1>2, <1>8 DEF Reconsidered, P, place, f
  <2>2. E = P /\ DOMAIN f = P
    <3>1. E = P \cup {id}
      BY <1>2, <1>3, <1>4, <1>8
    <3> QED BY <1>8, <3>1 DEF f, P
  <2>3. DOMAIN t.panels = E /\ \A i \in E : t.panels[i] = meta[i]
    BY <1>2, <2>1, <2>2 DEF place
  <2>4. t.count = Cardinality(E) - miss
    BY <1>2, <2>1, <2>2
  <2> QED BY <1>1, <1>2, <2>1, <2>3, <2>4 DEF LookedAt, E, t
<1> QED BY <1>5, <1>6, <1>7, <1>8

LEMMA MonitorsTakenTyped ==
  ASSUME NEW meta \in PlaceMaps, NEW ps \in PlaceMaps, NEW count \in Int, NEW n \in Int
  PROVE  MonitorsTaken(ps, meta, count, n) \in Monitors(DOMAIN meta)
<1> DEFINE base == [panels |-> ps, meta |-> meta, count |-> count, monitors |-> n]
           ids == DOMAIN meta
           list == SetToSeq(ids)
<1>1. base \in Monitors(ids)
  BY DEF Monitors
<1>2. list \in Seq(ids)
  <2>1. IsFiniteSet(ids)
    BY PlaceMapIs
  <2> HIDE DEF ids
  <2> QED BY <2>1, SetToSeqLists
<1>3. Len(list) \in 0 .. Len(list)
  BY <1>2
<1> HIDE DEF base, list, ids
<1>4. MonitorsEnd(base, list) \in Monitors(ids)
  <2>1. \E tr : (\A k \in 0 .. Len(list) : tr[k] \in Monitors(ids))
                /\ MonitorsEnd(base, list) = tr[Len(list)]
    BY ONLY <1>1, <1>2, MonitorsFold
  <2> QED BY <1>3, <2>1
<1> QED BY <1>4 DEF MonitorsTaken, MonitorsEnd, base, list, ids

LEMMA MonitorsTakenIs ==
  ASSUME NEW meta \in PlaceMaps, Distinct(meta), NEW ps \in PlaceMaps,
         NEW old, ThereAre(ps, meta, old), NEW count \in Int, NEW miss \in Int,
         count = Cardinality(DOMAIN ps) - miss, NEW n \in Int
  PROVE  LET r == MonitorsTaken(ps, meta, count, n)
         IN  ThereAre(r.panels, meta, n) /\ r.count = Cardinality(DOMAIN r.panels) - miss
<1> DEFINE base == [panels |-> ps, meta |-> meta, count |-> count, monitors |-> n]
           ids == DOMAIN meta
           list == SetToSeq(ids)
           m == Len(list)
           end == MonitorsTaken(ps, meta, count, n)
<1>1. base \in Monitors(ids)
  BY DEF Monitors
<1>2. list \in Seq(ids) /\ ToSet(list) = ids
  <2>1. IsFiniteSet(ids)
    BY PlaceMapIs
  <2> HIDE DEF ids
  <2> QED BY <2>1, SetToSeqLists
<1>3. m \in Nat /\ m \in 0 .. m /\ 0 \in 0 .. m /\ DOMAIN list = 1 .. m
      /\ \A k \in 1 .. m : k - 1 \in 0 .. m /\ k \in 0 .. m /\ 1 .. k = 1 .. (k - 1) \cup {k}
  <2> HIDE DEF list
  <2> QED BY <1>2
<1>4. LookedAt(base, ps, meta, n, {}, miss)
  <2>1. DOMAIN ps = {i \in DOMAIN meta : i \in DOMAIN ps} /\ \A i \in DOMAIN ps : ps[i] = meta[i]
    BY DEF ThereAre
  <2>2. base.panels = ps /\ base.meta = meta /\ base.count = count /\ base.monitors = n
    OBVIOUS
  <2> HIDE DEF base
  <2> QED BY <2>1, <2>2 DEF LookedAt
<1> HIDE DEF base, list
<1>5. PICK tr : /\ tr[0] = base
                /\ \A k \in 1 .. m : tr[k] = Reconsider(tr[k - 1], list[k])
                /\ \A k \in 0 .. m : tr[k] \in Monitors(ids)
                /\ MonitorsEnd(base, list) = tr[m]
  <2> HIDE DEF ids
  <2>1. base \in Monitors(ids) /\ list \in Seq(ids)
    BY <1>1, <1>2
  <2> QED BY ONLY <2>1, MonitorsFold
<1>6. end = tr[m]
  BY <1>5 DEF MonitorsTaken, MonitorsEnd, base, list
<1> HIDE DEF end
<1> DEFINE Done(k) == {list[j] : j \in 1 .. k}
           Q(k) == LookedAt(tr[k], ps, meta, n, Done(k), miss)
           S == {k \in 0 .. m : Q(k)}
<1>7. 0 \in S
  <2>1. Done(0) = {}
    OBVIOUS
  <2> HIDE DEF Done
  <2>2. Q(0)
    BY <1>4, <1>5, <2>1
  <2> QED BY <1>3, <2>2
<1>8. ASSUME NEW k \in 1 .. m, k - 1 \in S PROVE k \in S
  <2>1. Done(k) = Done(k - 1) \cup {list[k]}
    BY <1>3
  <2>2. Q(k - 1) /\ k \in 0 .. m
    BY <1>3, <1>8
  <2>3. tr[k - 1] \in Monitors(ids) /\ list[k] \in ids
    BY <1>2, <1>3, <1>5, <2>2
  <2> HIDE DEF Done
  <2> DEFINE r == tr[k - 1]
             D == Done(k - 1)
             id == list[k]
  <2>4. r \in Monitors(DOMAIN meta) /\ LookedAt(r, ps, meta, n, D, miss) /\ id \in DOMAIN meta
    BY <2>2, <2>3
  <2> HIDE DEF r, D, id
  <2>5. LookedAt(Reconsider(r, id), ps, meta, n, D \cup {id}, miss)
    BY <2>4, ReconsiderStep
  <2>6. tr[k] = Reconsider(r, id)
    BY <1>5 DEF r, id
  <2>7. Q(k)
    BY <2>1, <2>5, <2>6 DEF D, id
  <2> QED BY <2>2, <2>7
<1>9. Q(m)
  <2> HIDE DEF Q, m
  <2>1. \A k \in 0 .. m : k \in S
    <3> HIDE DEF S
    <3> QED BY <1>3, <1>7, <1>8, StepsInduct
  <2> QED BY <1>3, <2>1
<1>10. Done(m) = DOMAIN meta
  BY <1>2, <1>3 DEF ToSet
<1> HIDE DEF Done
<1>11. LookedAt(end, ps, meta, n, DOMAIN meta, miss)
  BY <1>6, <1>9, <1>10
<1>12. ThereAre(end.panels, meta, n) /\ end.count = Cardinality(DOMAIN end.panels) - miss
  BY <1>11 DEF LookedAt, ThereAre
<1> QED BY <1>12 DEF end

\* updatePanelsMeta keeps the places places, and changes none when the key gives
\* each known panel the place that is known of it.
LEMMA UpdateTyped ==
  ASSUME NEW meta \in PlaceMaps, NEW list \in Seq(Entry)
  PROVE  UpdatePanelsMeta(meta, list) \in PlaceMaps
<1> DEFINE g == UpdatePanelsMeta(meta, list)
           At(i) == {k \in DOMAIN list : list[k].id = i}
<1>1. /\ DOMAIN meta \in SUBSET PanelIds /\ IsFiniteSet(DOMAIN meta)
      /\ \A i \in DOMAIN meta : meta[i] \in Places
  BY PlaceMapIs
<1>2. ASSUME NEW i \in DOMAIN meta
      PROVE  (IF At(i) = {} THEN meta[i] ELSE <<list[Max(At(i))].place[1], meta[i][2]>>) \in Places
  <2>1. meta[i] \in Places
    BY <1>1
  <2>2. CASE At(i) # {}
    <3> DEFINE S == At(i)
    <3>1. S \in SUBSET (1 .. Len(list)) /\ S # {} /\ Len(list) \in Nat
      BY <2>2
    <3>2. S \subseteq DOMAIN list
      OBVIOUS
    <3> HIDE DEF S
    <3>3. Max(S) \in S
      BY <3>1, MaxIsLast
    <3>4. list[Max(S)].place \in Places
      BY <3>2, <3>3, EntryIs
    <3>5. <<list[Max(S)].place[1], meta[i][2]>> \in Places
      BY <2>1, <3>4 DEF Places
    <3> QED BY <2>2, <3>5 DEF S
  <2> QED BY <2>1, <2>2
<1>3. g = [i \in DOMAIN meta |-> IF At(i) = {} THEN meta[i]
                                ELSE <<list[Max(At(i))].place[1], meta[i][2]>>]
  BY DEF UpdatePanelsMeta
<1> HIDE DEF g, At
<1>4. g \in [DOMAIN meta -> Places]
  BY <1>2, <1>3
<1> QED BY <1>1, <1>4, IsPlaceMap DEF g

LEMMA UpdateSame ==
  ASSUME NEW meta \in PlaceMaps, NEW list \in Seq(Entry),
         \A k \in DOMAIN list : list[k].id \in DOMAIN meta => meta[list[k].id] = list[k].place
  PROVE  UpdatePanelsMeta(meta, list) = meta
<1> DEFINE At(i) == {k \in DOMAIN list : list[k].id = i}
<1>1. meta = [i \in DOMAIN meta |-> meta[i]] /\ \A i \in DOMAIN meta : meta[i] \in Places
  BY PlaceMapIs
<1>2. ASSUME NEW i \in DOMAIN meta, At(i) # {}
      PROVE  <<list[Max(At(i))].place[1], meta[i][2]>> = meta[i]
  <2> DEFINE S == At(i)
  <2>1. S \in SUBSET (1 .. Len(list)) /\ S # {} /\ Len(list) \in Nat
    BY <1>2
  <2>2. \A k \in S : list[k].place = meta[i]
    OBVIOUS
  <2> HIDE DEF S
  <2>3. Max(S) \in S
    BY <2>1, MaxIsLast
  <2>4. list[Max(S)].place = meta[i] /\ meta[i] \in Places
    BY <1>1, <2>2, <2>3
  <2>5. <<list[Max(S)].place[1], meta[i][2]>> = meta[i]
    BY <2>4 DEF Places
  <2> QED BY <2>5 DEF S
<1> HIDE DEF At
<1>3. [i \in DOMAIN meta |-> IF At(i) = {} THEN meta[i]
                             ELSE <<list[Max(At(i))].place[1], meta[i][2]>>]
      = [i \in DOMAIN meta |-> meta[i]]
  BY <1>2
<1> QED BY <1>1, <1>3 DEF UpdatePanelsMeta, At

-----------------------------------------------------------------------------
(* What a session finds. *)

NoneLoaded == [panels |-> <<>>, meta |-> <<>>, count |-> 0]

LEMMA FullLoadTyped ==
  ASSUME InitialPanels \in Seq(Entry), NEW n \in Int
  PROVE  FullPanelLoad(n) \in Loads
<1>1. NoneLoaded \in Loads
  BY NoPanelsIs DEF Loads, NoneLoaded
<1>2. ASSUME NEW list \in Seq(Entry) PROVE LoadEnd(NoneLoaded, list, n) \in Loads
  <2>1. Len(list) \in 0 .. Len(list)
    OBVIOUS
  <2>2. PICK tr : LoadTrace(tr, NoneLoaded, list, n)
    BY <1>1, LoadFold
  <2> QED BY <2>1, <2>2 DEF LoadTrace
<1> QED BY <1>2 DEF FullPanelLoad, LoadEnd, NoneLoaded

\* The first k entries of the list that have one of the n monitors are loaded.
LoadedUpTo(r, list, k, n) ==
    /\ DOMAIN r.meta = {list[j].id : j \in {i \in 1 .. k : list[i].place[1] < n}}
    /\ \A j \in 1 .. k : list[j].place[1] < n => r.meta[list[j].id] = list[j].place
    /\ r.panels = r.meta
    /\ r.count = Cardinality(DOMAIN r.meta)

LEMMA LoadedUpToStep ==
  ASSUME NEW n \in Int, NEW list \in Seq(Entry), KeySound(list), NEW k \in DOMAIN list,
         NEW r \in Loads, LoadedUpTo(r, list, k - 1, n)
  PROVE  LoadedUpTo(LoadEntry(r, list[k], n), list, k, n)
<1> DEFINE id == list[k].id
           place == list[k].place
           t == LoadEntry(r, list[k], n)
           On(m) == {list[j].id : j \in {i \in 1 .. m : list[i].place[1] < n}}
<1>1. /\ id \in PanelIds /\ place \in Places /\ place[1] \in Int /\ list[k] \in Entry
      /\ k \in Nat \ {0} /\ 1 .. k = 1 .. (k - 1) \cup {k}
      /\ \A j \in 1 .. (k - 1) : j \in DOMAIN list /\ j # k
  BY EntryIs
<1>2. \A j \in 1 .. (k - 1) : list[j].id # id /\ list[j].place # place
  BY <1>1 DEF KeySound
<1>3. r.meta \in PlaceMaps /\ IsFiniteSet(DOMAIN r.meta)
  BY PlaceMapIs DEF Loads
<1>4. /\ DOMAIN r.meta = On(k - 1) /\ r.panels = r.meta /\ r.count = Cardinality(DOMAIN r.meta)
      /\ \A j \in 1 .. (k - 1) : list[j].place[1] < n => r.meta[list[j].id] = list[j].place
  BY DEF LoadedUpTo
<1>5. IF place[1] >= n THEN t = r ELSE LoadedPanel(r, t, id, place, n)
  BY <1>1, LoadEntryIs
<1>6. id \notin DOMAIN r.meta /\ \A i \in DOMAIN r.meta : r.meta[i] # place
  BY <1>2, <1>4
<1>7. On(k) = IF place[1] < n THEN On(k - 1) \cup {id} ELSE On(k - 1)
  BY <1>1
<1>8. \A j \in 1 .. (k - 1) : list[j].place[1] < n => list[j].id \in On(k - 1)
  OBVIOUS
<1> HIDE DEF t, On
<1>9. CASE place[1] >= n
  <2>1. t = r /\ ~(place[1] < n)
    BY <1>1, <1>5, <1>9
  <2> QED BY <1>1, <1>4, <1>7, <2>1 DEF LoadedUpTo, On, t
<1>10. CASE ~(place[1] >= n)
  <2> DEFINE f == r.meta
             g == With(f, id, place)
  <2>1. place[1] < n /\ ~Refuses(r, id, place)
    BY <1>1, <1>4, <1>6, <1>10 DEF Refuses
  <2>2. t.meta = g /\ t.panels = g /\ t.count = r.count + 1
    BY <1>4, <1>5, <1>10, <2>1 DEF LoadedPanel
  <2>3. f \in PlaceMaps /\ id \in PanelIds /\ place \in Places
    BY <1>1, <1>3
  <2> HIDE DEF g, id, place
  <2>4. DOMAIN g = DOMAIN f \cup {id} /\ g[id] = place /\ \A x \in DOMAIN f \ {id} : g[x] = f[x]
    <3> HIDE DEF f
    <3> QED BY <2>3, WithParts DEF g
  <2>5. Cardinality(DOMAIN f \cup {id}) = Cardinality(DOMAIN f) + 1
    BY <1>3, <1>6, FS_AddElement
  <2>6. t.count = Cardinality(DOMAIN t.meta)
    BY <1>4, <2>2, <2>4, <2>5
  <2>7. ASSUME NEW j \in 1 .. k, list[j].place[1] < n PROVE t.meta[list[j].id] = list[j].place
    <3>1. CASE j = k
      BY <2>2, <2>4, <3>1 DEF id, place
    <3>2. CASE j # k
      <4>1. j \in 1 .. (k - 1)
        BY <1>1, <3>2
      <4>2. list[j].id \in DOMAIN f \ {id} /\ f[list[j].id] = list[j].place
        BY <1>2, <1>4, <1>8, <2>7, <4>1
      <4> QED BY <2>2, <2>4, <4>2
    <3> QED BY <3>1, <3>2
  <2>8. DOMAIN t.meta = On(k)
    BY <1>4, <1>7, <2>1, <2>2, <2>4
  <2> QED BY <2>2, <2>6, <2>7, <2>8 DEF LoadedUpTo, On, t
<1> QED BY <1>9, <1>10

\* What is loaded at the start is what has a monitor.
LEMMA FullLoadIs ==
  ASSUME NEW list \in Seq(Entry), KeySound(list), NEW n \in Int
  PROVE  LoadedUpTo(LoadEnd(NoneLoaded, list, n), list, Len(list), n)
<1> DEFINE m == Len(list)
           base == NoneLoaded
           end == LoadEnd(base, list, n)
<1>1. base \in Loads /\ base.panels = <<>> /\ base.meta = <<>> /\ base.count = 0
  BY NoPanelsIs DEF Loads, NoneLoaded
<1>2. DOMAIN list = 1 .. m
  OBVIOUS
<1>3. m \in Nat /\ m \in 0 .. m /\ 0 \in 0 .. m
      /\ \A k \in 1 .. m : k - 1 \in 0 .. m /\ k \in 0 .. m
  OBVIOUS
<1> HIDE DEF base
<1>4. PICK tr : /\ tr[0] = base
                /\ \A k \in 1 .. m : tr[k] = LoadEntry(tr[k - 1], list[k], n)
                /\ \A k \in 0 .. m : tr[k] \in Loads
                /\ end = tr[m]
  <2>1. \E tr : LoadTrace(tr, base, list, n)
    BY <1>1, LoadFold
  <2> QED BY ONLY <2>1 DEF LoadTrace
<1> HIDE DEF end, m
<1> DEFINE Q(k) == LoadedUpTo(tr[k], list, k, n)
           S == {k \in 0 .. m : Q(k)}
<1>5. 0 \in S
  <2>1. 1 .. 0 = {}
    OBVIOUS
  <2>2. Cardinality(DOMAIN base.meta) = 0 /\ DOMAIN base.meta = {}
    BY <1>1, NoPanelsIs, FS_EmptySet
  <2>3. LoadedUpTo(base, list, 0, n)
    BY <1>1, <2>1, <2>2 DEF LoadedUpTo
  <2>4. Q(0)
    BY <1>4, <2>3
  <2> HIDE DEF Q
  <2> QED BY <1>3, <2>4
<1>6. ASSUME NEW k \in 1 .. m, k - 1 \in S PROVE k \in S
  <2>1. k \in DOMAIN list /\ k - 1 \in 0 .. m /\ k \in 0 .. m /\ Q(k - 1)
    BY <1>2, <1>3, <1>6
  <2> DEFINE r == tr[k - 1]
  <2>2. r \in Loads /\ LoadedUpTo(r, list, k - 1, n) /\ tr[k] = LoadEntry(r, list[k], n)
    BY <1>4, <2>1
  <2> HIDE DEF r
  <2>3. LoadedUpTo(LoadEntry(r, list[k], n), list, k, n)
    BY <2>1, <2>2, LoadedUpToStep
  <2>4. Q(k)
    BY <2>2, <2>3
  <2> HIDE DEF Q
  <2> QED BY <2>1, <2>4
<1>7. Q(m)
  <2> HIDE DEF Q
  <2>1. \A k \in 0 .. m : k \in S
    <3> HIDE DEF S
    <3> QED BY <1>3, <1>5, <1>6, StepsInduct
  <2> QED BY <1>3, <2>1
<1> QED BY <1>4, <1>7 DEF end, base, m

-----------------------------------------------------------------------------
(* The types of the panel manager. *)

PanelsTyped ==
    /\ monitorCount \in 1 .. MaxMonitors
    /\ panelsEnabled \in Seq(Entry)
    /\ panels \in PlaceMaps
    /\ panelsMeta \in PlaceMaps
    /\ panelCount \in Int
    /\ dummies \subseteq Places
    /\ clash \in BOOLEAN
    /\ miscounted \in Nat

LEMMA InitialEntries == InitialPanels \in Seq(Entry)
BY PanelsAssumption DEF Entry, PanelIds, Places

LEMMA MonitorInt ==
  ASSUME NEW n \in 1 .. MaxMonitors
  PROVE  n \in Int /\ \A meta : FreePlaces(meta, n) \subseteq Places
BY PanelsAssumption DEF FreePlaces, Places

\* _onPanelsEnabledChanged keeps the types.
LEMMA KeyChange ==
  ASSUME PanelsTyped, NEW list \in Seq(Entry), NEW count \in Int,
         OnPanelsEnabledChanged(list, count)
  PROVE  LET r == KeyTaken(list, panels, count)
         IN  /\ panelsEnabled' = list /\ panels' = r.panels /\ panelsMeta' = r.meta
             /\ panelCount' = r.count /\ canAdd' = HasRoom(panelCount', monitorCount')
             /\ monitorCount' = monitorCount /\ overlooked' = {}
             /\ panels' \in PlaceMaps /\ panelsMeta' \in PlaceMaps /\ panelCount' \in Int
<1> DEFINE r == KeyTaken(list, panels, count)
<1>1. /\ panelsEnabled' = list /\ panels' = r.panels /\ panelsMeta' = r.meta
      /\ panelCount' = r.count /\ canAdd' = HasRoom(panelCount', monitorCount')
      /\ monitorCount' = monitorCount /\ overlooked' = {}
  BY DEF OnPanelsEnabledChanged, KeyTaken
<1>2. r \in Changes
  BY KeyTakenTyped, MonitorInt DEF PanelsTyped
<1> HIDE DEF r
<1>3. r.panels \in PlaceMaps /\ r.meta \in PlaceMaps /\ r.count \in Int
  BY <1>2 DEF Changes
<1> QED BY <1>1, <1>3 DEF r

\* addPanel finds an id.
LEMMA FreeIdIs ==
  ASSUME panelsMeta \in PlaceMaps
  PROVE  FreeId \in PanelIds /\ FreeId \notin DOMAIN panelsMeta
<1> DEFINE D == DOMAIN panelsMeta
           n == Cardinality(D) + 1
           I == {i \in 1 .. n : i \notin D}
           P(i) == i \notin D /\ \A j \in 1 .. i - 1 : j \in D
<1>1. IsFiniteSet(D) /\ n \in Nat
  BY PlaceMapIs
<1>2. \E i \in 1 .. n : i \notin D
  <2> HIDE DEF D
  <2> QED BY <1>1, FreshNumber
<1> HIDE DEF D, n
<1>3. I \in SUBSET (1 .. n) /\ I # {}
  BY <1>2
<1>4. Min(I) \in I /\ \A j \in I : Min(I) <= j
  <2> HIDE DEF I
  <2> QED BY <1>1, <1>3, MinIsFirst
<1>5. \E i \in 1 .. n : P(i)
  <2> DEFINE i == Min(I)
  <2>1. i \in 1 .. n /\ i \notin D /\ \A j \in 1 .. n : j \notin D => i <= j
    BY <1>4
  <2> HIDE DEF i
  <2>2. \A j \in 1 .. i - 1 : j \in D
    BY <1>1, <2>1
  <2> QED BY <2>1, <2>2
<1>6. FreeId = CHOOSE i \in 1 .. n : P(i)
  BY DEF FreeId, D, n
<1> HIDE DEF P
<1>7. FreeId \in 1 .. n /\ P(FreeId)
  BY <1>5, <1>6
<1> QED BY <1>1, <1>7 DEF P, D, PanelIds

\* The keys that a user's actions write.
AddedKey(place) == Append(panelsEnabled, [id |-> FreeId, place |-> place])

MovedKey(place) ==
    [k \in DOMAIN panelsEnabled |-> IF k \in EntryOf(picking)
                                    THEN [panelsEnabled[k] EXCEPT !.place = place]
                                    ELSE panelsEnabled[k]]

KeptKey ==
    IF EntryOf(confirm) = {} THEN panelsEnabled
    ELSE RemoveAt(panelsEnabled, CHOOSE k \in EntryOf(confirm) : TRUE)

LEMMA AddedKeyIs ==
  ASSUME PanelsTyped, NEW place \in Places
  PROVE  LET list == AddedKey(place)
         IN  /\ list \in Seq(Entry)
             /\ Len(list) = Len(panelsEnabled) + 1
             /\ \A k \in DOMAIN panelsEnabled : k \in DOMAIN list /\ list[k] = panelsEnabled[k]
             /\ list[Len(panelsEnabled) + 1].id = FreeId
             /\ list[Len(panelsEnabled) + 1].place = place
             /\ \A k \in DOMAIN list : k \in DOMAIN panelsEnabled \/ k = Len(panelsEnabled) + 1
<1> DEFINE e == [id |-> FreeId, place |-> place]
           q == panelsEnabled
<1>1. q \in Seq(Entry) /\ e \in Entry /\ e.id = FreeId /\ e.place = place
  BY FreeIdIs DEF PanelsTyped, Entry
<1> HIDE DEF e, q
<1> DEFINE r == Append(q, e)
<1>2. /\ r \in Seq(Entry) /\ Len(r) = Len(q) + 1
      /\ \A k \in DOMAIN q : k \in DOMAIN r /\ r[k] = q[k]
      /\ r[Len(q) + 1] = e
      /\ \A k \in DOMAIN r : k \in DOMAIN q \/ k = Len(q) + 1
  BY ONLY <1>1, AppendKeeps
<1>3. AddedKey(place) = r
  BY DEF AddedKey, e, q
<1> QED BY <1>1, <1>2, <1>3 DEF q

LEMMA MovedKeyIs ==
  ASSUME PanelsTyped, NEW place \in Places
  PROVE  LET list == MovedKey(place)
         IN  /\ list \in Seq(Entry) /\ DOMAIN list = DOMAIN panelsEnabled
             /\ \A k \in DOMAIN list :
                   /\ list[k].id = panelsEnabled[k].id
                   /\ list[k].place = IF k \in EntryOf(picking) THEN place
                                      ELSE panelsEnabled[k].place
<1> DEFINE q == panelsEnabled
           n == Len(q)
           list == MovedKey(place)
<1>1. q \in Seq(Entry)
  BY DEF PanelsTyped
<1>2. n \in Nat /\ DOMAIN q = 1 .. n /\ \A k \in DOMAIN q : q[k] \in Entry
  <2> HIDE DEF q
  <2> QED BY <1>1
<1>3. /\ DOMAIN list = DOMAIN q
      /\ \A k \in DOMAIN q : list[k] = IF k \in EntryOf(picking) THEN [q[k] EXCEPT !.place = place]
                                       ELSE q[k]
      /\ list = [k \in DOMAIN q |-> list[k]]
  BY DEF MovedKey
<1> HIDE DEF q, n, list
<1>4. ASSUME NEW k \in DOMAIN q
      PROVE  /\ list[k] \in Entry /\ list[k].id = q[k].id
             /\ list[k].place = IF k \in EntryOf(picking) THEN place ELSE q[k].place
  <2> DEFINE p == list[k]
             e == q[k]
  <2>1. e \in Entry
    BY <1>2
  <2> HIDE DEF p, e
  <2>2. CASE k \in EntryOf(picking)
    <3>1. p = [e EXCEPT !.place = place]
      BY <1>3, <2>2 DEF p, e
    <3>2. p = [id |-> e.id, place |-> place]
      BY <2>1, <3>1 DEF Entry
    <3>3. p \in Entry /\ p.id = e.id /\ p.place = place
      BY <2>1, <3>2 DEF Entry
    <3> QED BY <2>2, <3>3 DEF p, e
  <2>3. CASE k \notin EntryOf(picking)
    <3>1. p = e
      BY <1>3, <2>3 DEF p, e
    <3> QED BY <2>1, <2>3, <3>1 DEF p, e
  <2> QED BY <2>2, <2>3
<1>5. list \in [1 .. n -> Entry]
  BY <1>2, <1>3, <1>4
<1>6. list \in Seq(Entry)
  BY <1>2, <1>5
<1> QED BY <1>3, <1>4, <1>6 DEF list, q

LEMMA KeptKeyIs ==
  ASSUME PanelsTyped
  PROVE  /\ KeptKey \in Seq(Entry)
         /\ EntryOf(confirm) # {} =>
              \E i \in EntryOf(confirm) :
                 /\ \A k \in DOMAIN KeptKey : Skip(i, k) \in DOMAIN panelsEnabled \ {i}
                                              /\ KeptKey[k] = panelsEnabled[Skip(i, k)]
                 /\ \A k, l \in DOMAIN KeptKey : Skip(i, k) = Skip(i, l) => k = l
                 /\ \A j \in DOMAIN panelsEnabled \ {i} :
                       \E k \in DOMAIN KeptKey : Skip(i, k) = j /\ KeptKey[k] = panelsEnabled[j]
<1> DEFINE q == panelsEnabled
           i == CHOOSE k \in EntryOf(confirm) : TRUE
           r == RemoveAt(q, i)
<1>1. q \in Seq(Entry)
  BY DEF PanelsTyped
<1>2. CASE EntryOf(confirm) = {}
  <2>1. KeptKey = q
    BY <1>2 DEF KeptKey
  <2> QED BY <1>1, <1>2, <2>1
<1>3. CASE EntryOf(confirm) # {}
  <2>1. i \in EntryOf(confirm)
    BY <1>3
  <2>2. i \in DOMAIN q
    BY <2>1 DEF EntryOf
  <2>3. KeptKey = r
    BY <1>3 DEF KeptKey
  <2> HIDE DEF i, q
  <2>4. /\ r \in Seq(Entry)
        /\ \A k \in DOMAIN r : Skip(i, k) \in DOMAIN q \ {i} /\ r[k] = q[Skip(i, k)]
        /\ \A k, l \in DOMAIN r : Skip(i, k) = Skip(i, l) => k = l
        /\ \A j \in DOMAIN q \ {i} : \E k \in DOMAIN r : Skip(i, k) = j /\ r[k] = q[j]
    BY ONLY <1>1, <2>2, RemoveAtKeeps
  <2> HIDE DEF r
  <2> QED BY <2>1, <2>3, <2>4 DEF q
<1> QED BY <1>2, <1>3

LEMMA TypedInit == PanelsInit => PanelsTyped
<1> SUFFICES ASSUME PanelsInit PROVE PanelsTyped
  OBVIOUS
<1>1. /\ monitorCount \in 1 .. MaxMonitors /\ panelsEnabled = InitialPanels /\ dummies = {}
      /\ clash \in BOOLEAN /\ miscounted = 0
  BY DEF PanelsInit
<1> DEFINE r == FullPanelLoad(monitorCount)
<1>2. r \in Loads
  BY <1>1, InitialEntries, MonitorInt, FullLoadTyped
<1>3. panels = r.panels /\ panelsMeta = r.meta /\ panelCount = r.count
  BY DEF PanelsInit
<1> HIDE DEF r
<1>4. r.panels \in PlaceMaps /\ r.meta \in PlaceMaps /\ r.count \in Int
  BY <1>2 DEF Loads
<1> QED BY <1>1, <1>3, <1>4, InitialEntries DEF PanelsTyped

\* The actions of the key, by what they do.
LEMMA AddPanelIs ==
  ASSUME NEW place, AddPanel(place)
  PROVE  /\ picking = Adding /\ confirm = Nothing /\ place \in dummies
         /\ OnPanelsEnabledChanged(AddedKey(place), panelCount)
         /\ dummies' = {} /\ picking' = Nothing /\ confirm' = confirm
         /\ clash' = (clash \/ \E e \in overlooked : e.id = FreeId \/ e.place = place)
         /\ miscounted' = miscounted
BY DEF AddPanel, AddedKey, DestroyDummies

LEMMA MovePanelIs ==
  ASSUME NEW place, MovePanel(place)
  PROVE  /\ confirm = Nothing /\ place \in dummies
         /\ OnPanelsEnabledChanged(MovedKey(place), panelCount)
         /\ dummies' = {} /\ picking' = Nothing /\ confirm' = confirm
         /\ clash' = (clash \/ \E e \in overlooked : e.place = place)
         /\ miscounted' = miscounted
BY DEF MovePanel, MovedKey, DestroyDummies

LEMMA RemovePanelIs ==
  ASSUME RemovePanel
  PROVE  /\ confirm # Nothing /\ confirm' = Nothing
         /\ OnPanelsEnabledChanged(KeptKey, panelCount - 1)
         /\ dummies' = dummies /\ picking' = picking
         /\ clash' = (clash \/ \E e \in overlooked : e.place \in dummies)
         /\ miscounted' = IF confirm \in DOMAIN panels THEN miscounted ELSE miscounted + 1
BY DEF RemovePanel, KeptKey

LEMMA MonitorsChangedIs ==
  ASSUME NEW n, MonitorsChanged(n)
  PROVE  LET meta == UpdatePanelsMeta(panelsMeta, panelsEnabled)
             r == MonitorsTaken(panels, meta, panelCount, n)
         IN  /\ monitorCount' = n /\ panels' = r.panels /\ panelCount' = r.count
             /\ canAdd' = HasRoom(panelCount', n) /\ panelsMeta' = meta
             /\ dummies' = IF picking = Nothing THEN {} ELSE FreePlaces(meta, n)
             /\ panelsEnabled' = panelsEnabled /\ picking' = picking /\ confirm' = confirm
             /\ overlooked' = overlooked /\ clash' = clash /\ miscounted' = miscounted
BY DEF MonitorsChanged, MonitorsTaken, histories

LEMMA TypedStep == PanelsTyped /\ [PanelsNext]_panelVars => PanelsTyped'
<1> SUFFICES ASSUME PanelsTyped, [PanelsNext]_panelVars PROVE PanelsTyped'
  OBVIOUS
<1>1. ASSUME NEW place, AddPanel(place) PROVE PanelsTyped'
  <2>1. place \in Places /\ panelCount \in Int
    BY <1>1, AddPanelIs DEF PanelsTyped
  <2>2. AddedKey(place) \in Seq(Entry)
    BY <2>1, AddedKeyIs
  <2>3. /\ OnPanelsEnabledChanged(AddedKey(place), panelCount) /\ dummies' = {}
        /\ clash' \in BOOLEAN /\ miscounted' \in Nat
    BY <1>1, AddPanelIs DEF PanelsTyped
  <2>4. /\ panelsEnabled' = AddedKey(place) /\ monitorCount' = monitorCount
        /\ panels' \in PlaceMaps /\ panelsMeta' \in PlaceMaps /\ panelCount' \in Int
    BY <2>1, <2>2, <2>3, KeyChange
  <2> QED BY <2>2, <2>3, <2>4 DEF PanelsTyped
<1>2. ASSUME NEW place, MovePanel(place) PROVE PanelsTyped'
  <2>1. place \in Places /\ panelCount \in Int
    BY <1>2, MovePanelIs DEF PanelsTyped
  <2>2. MovedKey(place) \in Seq(Entry)
    BY <2>1, MovedKeyIs
  <2>3. /\ OnPanelsEnabledChanged(MovedKey(place), panelCount) /\ dummies' = {}
        /\ clash' \in BOOLEAN /\ miscounted' \in Nat
    BY <1>2, MovePanelIs DEF PanelsTyped
  <2>4. /\ panelsEnabled' = MovedKey(place) /\ monitorCount' = monitorCount
        /\ panels' \in PlaceMaps /\ panelsMeta' \in PlaceMaps /\ panelCount' \in Int
    BY <2>1, <2>2, <2>3, KeyChange
  <2> QED BY <2>2, <2>3, <2>4 DEF PanelsTyped
<1>3. ASSUME RemovePanel PROVE PanelsTyped'
  <2> DEFINE count == panelCount - 1
  <2>1. count \in Int
    BY DEF PanelsTyped
  <2>2. KeptKey \in Seq(Entry)
    BY KeptKeyIs
  <2>3. /\ OnPanelsEnabledChanged(KeptKey, count) /\ dummies' = dummies
        /\ clash' \in BOOLEAN /\ miscounted' \in Nat
    BY <1>3, RemovePanelIs DEF PanelsTyped
  <2> HIDE DEF count
  <2>4. /\ panelsEnabled' = KeptKey /\ monitorCount' = monitorCount
        /\ panels' \in PlaceMaps /\ panelsMeta' \in PlaceMaps /\ panelCount' \in Int
    BY <2>1, <2>2, <2>3, KeyChange
  <2> QED BY <2>2, <2>3, <2>4 DEF PanelsTyped
<1>4. ASSUME NEW n \in 1 .. MaxMonitors, MonitorsChanged(n) PROVE PanelsTyped'
  <2> DEFINE meta == UpdatePanelsMeta(panelsMeta, panelsEnabled)
             r == MonitorsTaken(panels, meta, panelCount, n)
  <2>1. n \in Int /\ FreePlaces(meta, n) \subseteq Places
    BY MonitorInt
  <2>2. meta \in PlaceMaps
    BY UpdateTyped DEF PanelsTyped
  <2>3. /\ monitorCount' = n /\ panels' = r.panels /\ panelCount' = r.count /\ panelsMeta' = meta
        /\ dummies' = IF picking = Nothing THEN {} ELSE FreePlaces(meta, n)
        /\ panelsEnabled' = panelsEnabled /\ clash' = clash /\ miscounted' = miscounted
    BY <1>4, MonitorsChangedIs
  <2> HIDE DEF meta
  <2>4. r \in Monitors(DOMAIN meta)
    BY <2>1, <2>2, MonitorsTakenTyped DEF PanelsTyped
  <2> HIDE DEF r
  <2>5. r.panels \in PlaceMaps /\ r.count \in Int
    BY <2>4 DEF Monitors
  <2> QED BY <2>1, <2>2, <2>3, <2>5 DEF PanelsTyped
<1>5. ASSUME NEW what, AskForPlace(what) PROVE PanelsTyped'
  <2>1. FreePlaces(panelsMeta, monitorCount) \subseteq Places
    BY MonitorInt DEF PanelsTyped
  <2> QED BY <1>5, <2>1 DEF AskForPlace, histories, PanelsTyped
<1>6. CASE CloseDummies
  BY <1>6 DEF CloseDummies, DestroyDummies, histories, PanelsTyped
<1>7. ASSUME NEW id, AskToRemove(id) PROVE PanelsTyped'
  BY <1>7 DEF AskToRemove, histories, PanelsTyped
<1>8. CASE KeepPanel
  BY <1>8 DEF KeepPanel, histories, PanelsTyped
<1>9. CASE UNCHANGED panelVars
  BY <1>9 DEF panelVars, histories, PanelsTyped
<1> QED
  BY <1>1, <1>2, <1>3, <1>4, <1>5, <1>6, <1>7, <1>8, <1>9
  DEF PanelsNext, AddPanelQuery, MovePanelQuery, AddedOrMoved

\* The panel manager keeps its types, whatever it finds when the session starts.
THEOREM PanelsTypedAlways == PanelsSpec => []PanelsTyped
BY TypedInit, TypedStep, PTL DEF PanelsSpec

-----------------------------------------------------------------------------
(* The panels are those of the key. *)

\* The entries of the list that are not hidden are known, and nothing else is.
KnownBut(meta, list, hidden) ==
    /\ DOMAIN meta = {list[k].id : k \in {j \in DOMAIN list : list[j] \notin hidden}}
    /\ \A k \in DOMAIN list : list[k] \notin hidden => meta[list[k].id] = list[k].place

Sound ==
    /\ KeySound(panelsEnabled)
    /\ KnownBut(panelsMeta, panelsEnabled, overlooked)
    /\ ThereAre(panels, panelsMeta, monitorCount)
    /\ panelCount = Cardinality(DOMAIN panels) - miscounted
    /\ canAdd = HasRoom(panelCount, monitorCount)
    /\ dummies \subseteq FreePlaces(panelsMeta, monitorCount)
    /\ picking = Nothing => dummies = {}
    /\ confirm # Nothing => confirm \in DOMAIN panelsMeta

PanelsInv == ~clash => Sound

LEMMA KnownDistinct ==
  ASSUME NEW list, KeySound(list), NEW meta, NEW hidden, KnownBut(meta, list, hidden)
  PROVE  Distinct(meta)
<1> SUFFICES ASSUME NEW i \in DOMAIN meta, NEW j \in DOMAIN meta, meta[i] = meta[j]
             PROVE  i = j
  BY DEF Distinct
<1>1. PICK k \in DOMAIN list : list[k].id = i /\ list[k] \notin hidden
  BY DEF KnownBut
<1>2. PICK l \in DOMAIN list : list[l].id = j /\ list[l] \notin hidden
  BY DEF KnownBut
<1>3. list[k].place = list[l].place
  BY <1>1, <1>2 DEF KnownBut
<1> QED BY <1>1, <1>2, <1>3 DEF KeySound

\* What is known of an entry of the key: nothing of an overlooked one.
LEMMA KeyIsOfPanels ==
  ASSUME PanelsTyped, Sound, NEW k \in DOMAIN panelsEnabled
  PROVE  /\ panelsEnabled[k].id \in DOMAIN panelsMeta <=> panelsEnabled[k] \notin overlooked
         /\ panelsEnabled[k].id \in DOMAIN panelsMeta =>
              panelsMeta[panelsEnabled[k].id] = panelsEnabled[k].place
         /\ panelsEnabled[k].id \in DOMAIN panels =>
              /\ panelsEnabled[k].id \in DOMAIN panelsMeta
              /\ panelsEnabled[k].place[1] < monitorCount
         /\ panelsEnabled[k] \notin overlooked => panelsEnabled[k].place \notin dummies
<1> DEFINE q == panelsEnabled
           id == q[k].id
<1>1. /\ DOMAIN panelsMeta = {q[j].id : j \in {i \in DOMAIN q : q[i] \notin overlooked}}
      /\ \A j \in DOMAIN q : q[j] \notin overlooked => panelsMeta[q[j].id] = q[j].place
      /\ \A i, j \in DOMAIN q : q[i].id = q[j].id => i = j
  BY DEF Sound, KnownBut, KeySound
<1>2. id \in DOMAIN panelsMeta <=> q[k] \notin overlooked
  <2>1. ASSUME id \in DOMAIN panelsMeta PROVE q[k] \notin overlooked
    <3>1. PICK j \in DOMAIN q : q[j].id = id /\ q[j] \notin overlooked
      BY <1>1, <2>1
    <3>2. j = k
      BY <1>1, <3>1
    <3> QED BY <3>1, <3>2
  <2>2. ASSUME q[k] \notin overlooked PROVE id \in DOMAIN panelsMeta
    BY <1>1, <2>2
  <2> QED BY <2>1, <2>2
<1>3. id \in DOMAIN panelsMeta => panelsMeta[id] = q[k].place
  BY <1>1, <1>2
<1>4. id \in DOMAIN panels => id \in DOMAIN panelsMeta /\ panelsMeta[id][1] < monitorCount
  BY DEF Sound, ThereAre
<1>5. \A i \in DOMAIN panelsMeta : panelsMeta[i] \notin dummies
  BY DEF Sound, FreePlaces
<1> QED BY <1>2, <1>3, <1>4, <1>5

LEMMA DummyIs ==
  ASSUME PanelsTyped, Sound, NEW place \in dummies
  PROVE  place \in Places /\ place[1] < monitorCount
<1>1. place \in (0 .. monitorCount - 1) \X Edges /\ monitorCount \in Int
  BY MonitorInt DEF Sound, FreePlaces, PanelsTyped
<1> QED BY <1>1 DEF PanelsTyped

\* The invariant's first half after a change of the key.
AfterKey ==
    /\ KeySound(panelsEnabled)
    /\ KnownAs(panelsMeta, panelsEnabled) /\ overlooked = {}
    /\ ThereAre(panels, panelsMeta, monitorCount)
    /\ canAdd = HasRoom(panelCount, monitorCount)

LEMMA AllKnownIs ==
  ASSUME NEW meta, NEW list, KnownAs(meta, list)
  PROVE  KnownBut(meta, list, {})
BY DEF KnownAs, KnownBut, Ids

\* A sound key that keeps the panels it keeps where a monitor is.
LEMMA KeyChangeSound ==
  ASSUME PanelsTyped, NEW list \in Seq(Entry), KeySound(list), NEW count \in Int,
         NEW miss \in Int, count = Cardinality(DOMAIN panels \cap Ids(list)) - miss,
         \A k \in DOMAIN list : list[k].id \in DOMAIN panels => list[k].place[1] < monitorCount,
         OnPanelsEnabledChanged(list, count)
  PROVE  AfterKey' /\ panelCount' = Cardinality(DOMAIN panels') - miss
<1> DEFINE r == KeyTaken(list, panels, count)
<1>1. KnownAs(r.meta, list) /\ ThereAre(r.panels, r.meta, monitorCount)
      /\ r.count = Cardinality(DOMAIN r.panels) - miss
  <2>1. monitorCount \in Int /\ panels \in PlaceMaps
    BY MonitorInt DEF PanelsTyped
  <2> DEFINE old == panels
  <2>2. /\ old \in PlaceMaps /\ count = Cardinality(DOMAIN old \cap Ids(list)) - miss
        /\ \A k \in DOMAIN list : list[k].id \in DOMAIN old => list[k].place[1] < monitorCount
    BY <2>1
  <2> HIDE DEF old
  <2> DEFINE s == KeyTaken(list, old, count)
  <2>3. KnownAs(s.meta, list) /\ ThereAre(s.panels, s.meta, monitorCount)
        /\ s.count = Cardinality(DOMAIN s.panels) - miss
    BY <2>1, <2>2, KeyTakenIs
  <2> QED BY <2>3 DEF old
<1>2. /\ panelsEnabled' = list /\ panels' = r.panels /\ panelsMeta' = r.meta
      /\ panelCount' = r.count /\ canAdd' = HasRoom(panelCount', monitorCount')
      /\ monitorCount' = monitorCount /\ overlooked' = {}
  BY KeyChange
<1> HIDE DEF r
<1> QED BY <1>1, <1>2 DEF AfterKey

LEMMA PanelsThere ==
  ASSUME PanelsTyped, Sound
  PROVE  /\ DOMAIN panels \subseteq DOMAIN panelsMeta
         /\ DOMAIN panelsMeta \subseteq Ids(panelsEnabled)
         /\ IsFiniteSet(DOMAIN panels) /\ panelCount \in Int
         /\ miscounted \in Int /\ panelCount = Cardinality(DOMAIN panels) - miscounted
BY PlaceMapIs DEF PanelsTyped, Sound, ThereAre, KnownBut, Ids

LEMMA AddSound ==
  ASSUME PanelsTyped, PanelsInv, NEW place, AddPanel(place), ~clash'
  PROVE  Sound'
<1> DEFINE list == AddedKey(place)
           q == panelsEnabled
           last == Len(q) + 1
<1>1. /\ confirm = Nothing /\ place \in dummies
      /\ OnPanelsEnabledChanged(list, panelCount)
      /\ dummies' = {} /\ picking' = Nothing /\ confirm' = confirm
      /\ \A e \in overlooked : e.id # FreeId /\ e.place # place
      /\ ~clash /\ miscounted' = miscounted
  BY AddPanelIs
<1>s. Sound
  BY <1>1 DEF PanelsInv
<1>2. place \in Places /\ place[1] < monitorCount
  BY <1>1, <1>s, DummyIs
<1>3. /\ list \in Seq(Entry) /\ last \notin DOMAIN q
      /\ \A k \in DOMAIN q : k \in DOMAIN list /\ list[k] = q[k]
      /\ list[last].id = FreeId /\ list[last].place = place
      /\ \A k \in DOMAIN list : k \in DOMAIN q \/ k = last
  <2>1. q \in Seq(Entry)
    BY DEF PanelsTyped
  <2>2. last \notin DOMAIN q
    <3> HIDE DEF q
    <3> QED BY <2>1
  <2> QED BY <1>2, <2>2, AddedKeyIs
<1>4. FreeId \notin DOMAIN panelsMeta /\ FreeId \notin DOMAIN panels
  BY <1>s, FreeIdIs, PanelsThere DEF PanelsTyped
<1> HIDE DEF list, last
<1>5. \A k \in DOMAIN q : q[k].id # FreeId /\ q[k].place # place
  BY <1>1, <1>s, <1>4, KeyIsOfPanels
<1>6. KeySound(list)
  <2>1. \A j, k \in DOMAIN q : q[j].id = q[k].id \/ q[j].place = q[k].place => j = k
    BY <1>s DEF Sound, KeySound
  <2> HIDE DEF q
  <2> QED BY <1>3, <1>5, <2>1 DEF KeySound
<1>7. DOMAIN panels \cap Ids(list) = DOMAIN panels
  <2>1. Ids(q) \subseteq Ids(list)
    BY <1>3 DEF Ids
  <2> QED BY <1>s, <2>1, PanelsThere
<1>8. \A k \in DOMAIN list : list[k].id \in DOMAIN panels => list[k].place[1] < monitorCount
  BY <1>s, <1>3, <1>4, KeyIsOfPanels
<1>9. /\ miscounted \in Int /\ panelCount \in Int
      /\ panelCount = Cardinality(DOMAIN panels \cap Ids(list)) - miscounted
  BY <1>s, <1>7, PanelsThere
<1>10. AfterKey' /\ panelCount' = Cardinality(DOMAIN panels') - miscounted
  BY <1>1, <1>3, <1>6, <1>8, <1>9, KeyChangeSound
<1>11. KnownBut(panelsMeta', panelsEnabled', overlooked')
  BY <1>10, AllKnownIs DEF AfterKey
<1> QED BY <1>1, <1>10, <1>11 DEF AfterKey, Sound

LEMMA MoveSound ==
  ASSUME PanelsTyped, PanelsInv, NEW place, MovePanel(place), ~clash'
  PROVE  Sound'
<1> DEFINE list == MovedKey(place)
           q == panelsEnabled
<1>1. /\ confirm = Nothing /\ place \in dummies
      /\ OnPanelsEnabledChanged(list, panelCount)
      /\ dummies' = {} /\ picking' = Nothing /\ confirm' = confirm
      /\ \A e \in overlooked : e.place # place
      /\ ~clash /\ miscounted' = miscounted
  BY MovePanelIs
<1>s. Sound
  BY <1>1 DEF PanelsInv
<1>2. place \in Places /\ place[1] < monitorCount
  BY <1>1, <1>s, DummyIs
<1>3. /\ list \in Seq(Entry) /\ DOMAIN list = DOMAIN q
      /\ \A k \in DOMAIN q : /\ list[k].id = q[k].id
                             /\ list[k].place = IF k \in EntryOf(picking) THEN place ELSE q[k].place
  BY <1>2, MovedKeyIs
<1>4. \A j, k \in EntryOf(picking) : j \in DOMAIN q /\ q[j].id = q[k].id
  BY DEF EntryOf
<1> HIDE DEF list
<1>5. \A k \in DOMAIN q : q[k].place # place
  BY <1>1, <1>s, KeyIsOfPanels
<1>6. KeySound(list)
  <2>1. \A j, k \in DOMAIN q : q[j].id = q[k].id \/ q[j].place = q[k].place => j = k
    BY <1>s DEF Sound, KeySound
  <2> HIDE DEF q
  <2>2. \A j, k \in DOMAIN q : list[j].id = list[k].id => j = k
    BY <1>3, <2>1
  <2>3. ASSUME NEW j \in DOMAIN q, NEW k \in DOMAIN q, list[j].place = list[k].place
        PROVE  j = k
    <3>1. CASE j \in EntryOf(picking) /\ k \in EntryOf(picking)
      BY <1>4, <2>1, <3>1
    <3>2. CASE j \in EntryOf(picking) /\ k \notin EntryOf(picking)
      BY <1>3, <1>5, <2>3, <3>2
    <3>3. CASE j \notin EntryOf(picking) /\ k \in EntryOf(picking)
      BY <1>3, <1>5, <2>3, <3>3
    <3>4. CASE j \notin EntryOf(picking) /\ k \notin EntryOf(picking)
      BY <1>3, <2>1, <2>3, <3>4
    <3> QED BY <3>1, <3>2, <3>3, <3>4
  <2> QED BY <1>3, <2>2, <2>3 DEF KeySound
<1>7. DOMAIN panels \cap Ids(list) = DOMAIN panels
  <2>1. Ids(list) = Ids(q)
    BY <1>3 DEF Ids
  <2> QED BY <1>s, <2>1, PanelsThere
<1>8. \A k \in DOMAIN list : list[k].id \in DOMAIN panels => list[k].place[1] < monitorCount
  BY <1>s, <1>2, <1>3, KeyIsOfPanels
<1>9. /\ miscounted \in Int /\ panelCount \in Int
      /\ panelCount = Cardinality(DOMAIN panels \cap Ids(list)) - miscounted
  BY <1>s, <1>7, PanelsThere
<1>10. AfterKey' /\ panelCount' = Cardinality(DOMAIN panels') - miscounted
  BY <1>1, <1>3, <1>6, <1>8, <1>9, KeyChangeSound
<1>11. KnownBut(panelsMeta', panelsEnabled', overlooked')
  BY <1>10, AllKnownIs DEF AfterKey
<1> QED BY <1>1, <1>10, <1>11 DEF AfterKey, Sound

LEMMA RemoveSound ==
  ASSUME PanelsTyped, PanelsInv, RemovePanel, ~clash'
  PROVE  Sound'
<1> DEFINE list == KeptKey
           q == panelsEnabled
           count == panelCount - 1
           miss == IF confirm \in DOMAIN panels THEN miscounted ELSE miscounted + 1
<1>1. /\ confirm # Nothing /\ confirm' = Nothing
      /\ OnPanelsEnabledChanged(list, count)
      /\ dummies' = dummies /\ picking' = picking
      /\ \A e \in overlooked : e.place \notin dummies
      /\ ~clash /\ miscounted' = miss
  BY RemovePanelIs
<1>s. Sound
  BY <1>1 DEF PanelsInv
<1>2. confirm \in DOMAIN panelsMeta /\ confirm \in Ids(q)
  BY <1>1, <1>s, PanelsThere DEF Sound
<1>3. PICK j \in DOMAIN q : q[j].id = confirm
  BY <1>2 DEF Ids
<1>4. j \in EntryOf(confirm)
  <2>1. q \in Seq(Entry) /\ KeySound(q)
    BY <1>s DEF PanelsTyped, Sound
  <2> HIDE DEF q
  <2>2. \A k \in 1 .. j - 1 : k \in DOMAIN q /\ k # j
    BY <2>1
  <2>3. \A k \in 1 .. j - 1 : q[k].id # confirm
    BY <1>3, <2>1, <2>2 DEF KeySound
  <2> QED BY <1>3, <2>3 DEF EntryOf, q
<1>5. PICK i \in EntryOf(confirm) :
         /\ \A k \in DOMAIN list : Skip(i, k) \in DOMAIN q \ {i} /\ list[k] = q[Skip(i, k)]
         /\ \A k, l \in DOMAIN list : Skip(i, k) = Skip(i, l) => k = l
         /\ \A m \in DOMAIN q \ {i} : \E k \in DOMAIN list : Skip(i, k) = m /\ list[k] = q[m]
  BY <1>4, KeptKeyIs
<1>6. i \in DOMAIN q /\ q[i].id = confirm
  BY DEF EntryOf
<1>7. list \in Seq(Entry) /\ count \in Int /\ miss \in Int
  <2>1. count \in Int /\ miss \in Int
    BY DEF PanelsTyped
  <2> QED BY <2>1, KeptKeyIs
<1>8. \A m, k \in DOMAIN q : q[m].id = q[k].id \/ q[m].place = q[k].place => m = k
  BY <1>s DEF Sound, KeySound
<1> HIDE DEF list
<1>9. KeySound(list)
  BY <1>5, <1>8 DEF KeySound
<1>10. Ids(list) = Ids(q) \ {confirm}
  BY <1>5, <1>6, <1>8 DEF Ids
<1>11. count = Cardinality(DOMAIN panels \cap Ids(list)) - miss
  <2>1. DOMAIN panels \cap Ids(list) = DOMAIN panels \ {confirm}
    BY <1>s, <1>10, PanelsThere
  <2>2. /\ Cardinality(DOMAIN panels) \in Nat /\ miscounted \in Int
        /\ panelCount = Cardinality(DOMAIN panels) - miscounted
    BY <1>s, PanelsThere, FS_CardinalityType
  <2>3. CASE confirm \in DOMAIN panels
    <3>1. Cardinality(DOMAIN panels \ {confirm}) = Cardinality(DOMAIN panels) - 1
      BY <1>s, <2>3, PanelsThere, FS_RemoveElement
    <3>2. count = Cardinality(DOMAIN panels \ {confirm}) - miscounted
      BY <2>2, <3>1, CountDown
    <3> QED BY <2>1, <2>3, <3>2
  <2>4. CASE confirm \notin DOMAIN panels
    <3>1. DOMAIN panels \ {confirm} = DOMAIN panels
      BY <2>4
    <3>2. count = Cardinality(DOMAIN panels) - (miscounted + 1)
      BY <2>2
    <3> QED BY <2>1, <2>4, <3>1, <3>2
  <2> QED BY <2>3, <2>4
<1>12. \A k \in DOMAIN list : list[k].id \in DOMAIN panels => list[k].place[1] < monitorCount
  BY <1>s, <1>5, KeyIsOfPanels
<1> HIDE DEF count, miss
<1>13. AfterKey' /\ panelCount' = Cardinality(DOMAIN panels') - miss
  BY <1>1, <1>7, <1>9, <1>11, <1>12, KeyChangeSound
<1>14. panelsEnabled' = list /\ monitorCount' = monitorCount
  BY <1>1, <1>7, KeyChange
<1>15. dummies' \subseteq FreePlaces(panelsMeta', monitorCount')
  <2>1. ASSUME NEW x \in DOMAIN panelsMeta'
        PROVE  panelsMeta'[x] \notin dummies
    <3>1. PICK k \in DOMAIN list : x = list[k].id
      BY <1>13, <1>14, <2>1 DEF AfterKey, KnownAs, Ids
    <3>2. panelsMeta'[x] = list[k].place
      BY <1>13, <1>14, <3>1 DEF AfterKey, KnownAs
    <3>3. Skip(i, k) \in DOMAIN q /\ list[k] = q[Skip(i, k)]
      BY <1>5
    <3> QED BY <1>1, <1>s, <3>2, <3>3, KeyIsOfPanels
  <2>2. dummies \subseteq FreePlaces(panelsMeta, monitorCount)
    BY <1>s DEF Sound
  <2> QED BY <1>1, <1>14, <2>1, <2>2 DEF FreePlaces
<1>16. KnownBut(panelsMeta', panelsEnabled', overlooked')
  BY <1>13, AllKnownIs DEF AfterKey
<1>17. picking = Nothing => dummies = {}
  BY <1>s DEF Sound
<1> QED BY <1>1, <1>13, <1>15, <1>16, <1>17 DEF AfterKey, Sound

LEMMA MonitorsSound ==
  ASSUME PanelsTyped, Sound, NEW n \in 1 .. MaxMonitors, MonitorsChanged(n)
  PROVE  Sound'
<1> DEFINE meta == UpdatePanelsMeta(panelsMeta, panelsEnabled)
           r == MonitorsTaken(panels, meta, panelCount, n)
<1>1. /\ monitorCount' = n /\ panels' = r.panels /\ panelCount' = r.count
      /\ canAdd' = HasRoom(panelCount', n) /\ panelsMeta' = meta
      /\ dummies' = IF picking = Nothing THEN {} ELSE FreePlaces(meta, n)
      /\ panelsEnabled' = panelsEnabled
      /\ picking' = picking /\ confirm' = confirm
      /\ overlooked' = overlooked /\ miscounted' = miscounted
  BY MonitorsChangedIs
<1>2. meta = panelsMeta
  <2>1. \A k \in DOMAIN panelsEnabled : panelsEnabled[k].id \in DOMAIN panelsMeta =>
           panelsMeta[panelsEnabled[k].id] = panelsEnabled[k].place
    BY KeyIsOfPanels
  <2> QED BY <2>1, UpdateSame DEF PanelsTyped
<1> HIDE DEF meta
<1>3. ThereAre(r.panels, meta, n) /\ r.count = Cardinality(DOMAIN r.panels) - miscounted
  <2>1. /\ n \in Int /\ meta \in PlaceMaps /\ panels \in PlaceMaps /\ panelCount \in Int
        /\ ThereAre(panels, meta, monitorCount) /\ miscounted \in Int
        /\ panelCount = Cardinality(DOMAIN panels) - miscounted
    BY <1>2, MonitorInt DEF PanelsTyped, Sound
  <2>2. Distinct(meta)
    BY <1>2, KnownDistinct DEF Sound
  <2> QED BY <2>1, <2>2, MonitorsTakenIs
<1> HIDE DEF r
<1>4. /\ KeySound(panelsEnabled') /\ KnownBut(panelsMeta', panelsEnabled', overlooked')
      /\ confirm' # Nothing => confirm' \in DOMAIN panelsMeta'
  BY <1>1, <1>2 DEF Sound
<1> QED BY <1>1, <1>3, <1>4 DEF Sound

LEMMA SoundInit ==
  ASSUME PanelsInit
  PROVE  PanelsInv
<1> SUFFICES ASSUME ~clash PROVE Sound
  BY DEF PanelsInv
<1> DEFINE list == InitialPanels
           n == monitorCount
           r == LoadEnd(NoneLoaded, list, n)
<1>1. /\ n \in 1 .. MaxMonitors /\ panelsEnabled = list
      /\ overlooked = {e \in Range(list) : ~(e.place[1] < n)} /\ miscounted = 0
      /\ canAdd = HasRoom(panelCount, n) /\ dummies = {} /\ picking = Nothing
      /\ confirm = Nothing
  BY DEF PanelsInit, IsConnected
<1>2. panels = r.panels /\ panelsMeta = r.meta /\ panelCount = r.count
  BY DEF PanelsInit, FullPanelLoad, LoadEnd, NoneLoaded
<1>3. list \in Seq(Entry) /\ KeySound(list) /\ n \in Int
  BY <1>1, InitialEntries, MonitorInt DEF PanelsInit
<1>4. DOMAIN list = 1 .. Len(list) /\ \A k \in DOMAIN list : list[k] \in Range(list)
  BY <1>3 DEF Range
<1> HIDE DEF list, n
<1>5. LoadedUpTo(r, list, Len(list), n)
  BY <1>3, FullLoadIs
<1>6. r \in Loads
  <2>1. NoneLoaded \in Loads /\ Len(list) \in 0 .. Len(list)
    BY <1>3, NoPanelsIs DEF Loads, NoneLoaded
  <2>2. \E tr : LoadTrace(tr, NoneLoaded, list, n)
    BY <1>3, <2>1, LoadFold
  <2> QED BY <2>1, <2>2 DEF LoadTrace
<1> HIDE DEF r
<1>7. \A k \in DOMAIN list : list[k] \notin overlooked <=> list[k].place[1] < n
  BY <1>1, <1>4
<1>8. KnownBut(r.meta, list, overlooked)
  <2>1. \A k \in DOMAIN list : list[k] \notin overlooked => r.meta[list[k].id] = list[k].place
    BY <1>4, <1>5, <1>7 DEF LoadedUpTo
  <2>2. {k \in DOMAIN list : list[k] \notin overlooked} = {k \in 1 .. Len(list) : list[k].place[1] < n}
    BY <1>4, <1>7
  <2>3. DOMAIN r.meta = {list[k].id : k \in {j \in DOMAIN list : list[j] \notin overlooked}}
    BY <1>5, <2>2 DEF LoadedUpTo
  <2> QED BY <2>1, <2>3 DEF KnownBut
<1>9. ThereAre(r.panels, r.meta, n)
  <2>1. \A i \in DOMAIN r.meta : r.meta[i][1] < n
    BY <1>7, <1>8 DEF KnownBut
  <2> QED BY <1>5, <2>1 DEF LoadedUpTo, ThereAre
<1>10. r.count = Cardinality(DOMAIN r.panels) - 0
  <2>1. r.count \in Int /\ r.count = Cardinality(DOMAIN r.panels)
    BY <1>5, <1>6 DEF LoadedUpTo, Loads
  <2> QED BY <2>1
<1> QED BY <1>1, <1>2, <1>3, <1>8, <1>9, <1>10 DEF Sound, n

LEMMA SoundStep == PanelsTyped /\ PanelsInv /\ [PanelsNext]_panelVars => PanelsInv'
<1> SUFFICES ASSUME PanelsTyped, PanelsInv, [PanelsNext]_panelVars PROVE PanelsInv'
  OBVIOUS
<1>1. ASSUME NEW place, AddPanel(place) PROVE PanelsInv'
  BY <1>1, AddSound DEF PanelsInv
<1>2. ASSUME NEW place, MovePanel(place) PROVE PanelsInv'
  BY <1>2, MoveSound DEF PanelsInv
<1>3. ASSUME RemovePanel PROVE PanelsInv'
  BY <1>3, RemoveSound DEF PanelsInv
<1>4. ASSUME NEW n \in 1 .. MaxMonitors, MonitorsChanged(n) PROVE PanelsInv'
  <2>1. clash' = clash
    BY <1>4, MonitorsChangedIs
  <2> QED BY <1>4, <2>1, MonitorsSound DEF PanelsInv
<1>5. ASSUME NEW what, what # Nothing, AskForPlace(what) PROVE PanelsInv'
  BY <1>5 DEF AskForPlace, histories, PanelsInv, Sound
<1>6. CASE CloseDummies
  BY <1>6 DEF CloseDummies, DestroyDummies, histories, PanelsInv, Sound
<1>7. ASSUME NEW id, AskToRemove(id) PROVE PanelsInv'
  BY <1>7, PanelsThere DEF AskToRemove, histories, PanelsInv, Sound
<1>8. CASE KeepPanel
  BY <1>8 DEF KeepPanel, histories, PanelsInv, Sound
<1>9. CASE UNCHANGED panelVars
  BY <1>9 DEF panelVars, histories, PanelsInv, Sound
<1>10. Adding # Nothing /\ \A id \in DOMAIN panels : id # Nothing
  <2>1. DOMAIN panels \subseteq PanelIds
    BY PlaceMapIs DEF PanelsTyped
  <2> QED BY <2>1 DEF Adding, Nothing, PanelIds
<1> QED
  BY <1>1, <1>2, <1>3, <1>4, <1>5, <1>6, <1>7, <1>8, <1>9, <1>10
  DEF PanelsNext, AddPanelQuery, MovePanelQuery, AddedOrMoved

\* The invariant of the panel manager, whatever monitors and whatever key the session
\* finds and whatever monitors go while a dialog asks: until a clash with an entry that
\* the start overlooked, what is known, made and counted agrees with the key.
THEOREM PanelsInvAlways == PanelsSpec => [](PanelsTyped /\ PanelsInv)
<1>1. PanelsInit => PanelsTyped /\ PanelsInv
  BY TypedInit, SoundInit
<1>2. PanelsTyped /\ PanelsInv /\ [PanelsNext]_panelVars => (PanelsTyped /\ PanelsInv)'
  BY TypedStep, SoundStep
<1> QED BY <1>1, <1>2, PTL DEF PanelsSpec

LEMMA InvPanelsAsEnabled == PanelsTyped /\ PanelsInv => PanelsAsEnabled
<1> SUFFICES ASSUME PanelsTyped, PanelsInv PROVE PanelsAsEnabled
  OBVIOUS
<1> DEFINE q == panelsEnabled
           seen == Range(q) \ overlooked
           Exact == /\ KeySound(q)
                    /\ DOMAIN panels = {e.id : e \in {x \in seen : IsConnected(x.place)}}
                    /\ \A e \in seen : IsConnected(e.place) => panels[e.id] = e.place
<1> SUFFICES ASSUME ~clash PROVE Exact
  BY DEF PanelsAsEnabled
<1>s. Sound
  BY DEF PanelsInv
<1>1. /\ DOMAIN panels = {i \in DOMAIN panelsMeta : panelsMeta[i][1] < monitorCount}
      /\ \A i \in DOMAIN panels : panels[i] = panelsMeta[i]
      /\ DOMAIN panelsMeta = {q[k].id : k \in {j \in DOMAIN q : q[j] \notin overlooked}}
      /\ \A k \in DOMAIN q : q[k] \notin overlooked => panelsMeta[q[k].id] = q[k].place
      /\ KeySound(q)
  BY <1>s DEF Sound, ThereAre, KnownBut
<1>2. \A e : e \in seen <=> \E k \in DOMAIN q : e = q[k] /\ q[k] \notin overlooked
  BY DEF Range
<1> HIDE DEF q, seen
<1>3. \A e \in seen : /\ e.id \in DOMAIN panelsMeta /\ panelsMeta[e.id] = e.place
                      /\ e.id \in DOMAIN panels <=> IsConnected(e.place)
  BY <1>1, <1>2 DEF IsConnected
<1>4. \A e \in seen : IsConnected(e.place) => panels[e.id] = e.place
  BY <1>1, <1>3
<1>5. \A i : i \in DOMAIN panels <=> i \in {e.id : e \in {x \in seen : IsConnected(x.place)}}
  <2>1. ASSUME NEW i \in DOMAIN panels PROVE \E e \in seen : e.id = i /\ IsConnected(e.place)
    <3>1. PICK k \in DOMAIN q : q[k].id = i /\ q[k] \notin overlooked
      BY <1>1
    <3> QED BY <1>2, <1>3, <3>1
  <2> QED BY <1>3, <2>1
<1> QED BY <1>1, <1>4, <1>5

\* Until such a clash, the panels are exactly those of the key whose monitor is
\* connected, at its places, but for the entries that the start overlooked.
THEOREM PanelsAsEnabledAlways == PanelsSpec => []PanelsAsEnabled
BY PanelsInvAlways, InvPanelsAsEnabled, PTL

LEMMA InvPlacesSound == PanelsTyped /\ PanelsInv => PlacesSound
<1> SUFFICES ASSUME PanelsTyped, Sound PROVE RoomIsKnown /\ NoOverlap
  BY DEF PanelsInv, PlacesSound
<1>1. RoomIsKnown
  BY DEF Sound, RoomIsKnown
<1>2. Distinct(panelsMeta)
  BY KnownDistinct DEF Sound
<1>3. NoOverlap
  BY <1>2 DEF NoOverlap, Sound, ThereAre, FreePlaces, Distinct
<1> QED BY <1>1, <1>3

\* Until such a clash, the room that is left is known but for the panels that were
\* counted out twice, and no panel lies on another or on a dummy.
THEOREM PlacesSoundAlways == PanelsSpec => []PlacesSound
BY PanelsInvAlways, InvPlacesSound, PTL

-----------------------------------------------------------------------------
(* The applets: the key, the definitions, and what the boxes show. *)

AppletEntry == [id : AppletIds, panel : Nat, slot : Nat]

Def == [id : AppletIds, panel : Nat, slot : Nat, side : Sides, applet : Nat]

Uniq(list) == \A j, k \in DOMAIN list : list[j].id = list[k].id => j = k

LEMMA NothingIs == Nothing \in Nat /\ Nothing \notin PanelIds /\ Nothing \in Sides
BY DEF Nothing, PanelIds, Sides

LEMMA TakeOffIs ==
  ASSUME NEW d \in Def
  PROVE  /\ TakeOff(d) \in Def /\ TakeOff(d).id = d.id /\ TakeOff(d).panel = d.panel
         /\ TakeOff(d).slot = d.slot /\ TakeOff(d).side = d.side /\ TakeOff(d).applet = Nothing
<1> DEFINE t == TakeOff(d)
           z == Nothing
<1>1. t = [d EXCEPT !.applet = z]
  BY DEF TakeOff
<1>2. z \in Nat
  BY NothingIs
<1> HIDE DEF t, z
<1>3. t = [id |-> d.id, panel |-> d.panel, slot |-> d.slot, side |-> d.side, applet |-> z]
  BY <1>1 DEF Def
<1>4. t \in Def /\ t.id = d.id /\ t.panel = d.panel /\ t.slot = d.slot /\ t.side = d.side
      /\ t.applet = z
  BY <1>2, <1>3 DEF Def
<1> QED BY <1>4 DEF t, z

LEMMA PutOnIs ==
  ASSUME NEW d \in Def
  PROVE  /\ PutOn(d) \in Def /\ PutOn(d).id = d.id /\ PutOn(d).panel = d.panel
         /\ PutOn(d).slot = d.slot /\ PutOn(d).side = d.side /\ PutOn(d).applet = d.panel
<1> DEFINE t == PutOn(d)
           z == d.panel
<1>1. t = [d EXCEPT !.applet = z]
  BY DEF PutOn
<1>2. z \in Nat
  BY DEF Def
<1> HIDE DEF t
<1>3. t = [id |-> d.id, panel |-> d.panel, slot |-> d.slot, side |-> d.side, applet |-> z]
  BY <1>1 DEF Def
<1>4. t \in Def /\ t.id = d.id /\ t.panel = d.panel /\ t.slot = d.slot /\ t.side = d.side
      /\ t.applet = z
  BY <1>2, <1>3 DEF Def
<1> QED BY <1>4 DEF t

\* The definition d turned to a side.
Turned(d, s) == [d EXCEPT !.side = s]

LEMMA TurnedIs ==
  ASSUME NEW d \in Def, NEW s \in Sides
  PROVE  LET t == Turned(d, s)
         IN  /\ t \in Def /\ t.id = d.id /\ t.panel = d.panel /\ t.slot = d.slot
             /\ t.side = s /\ t.applet = d.applet
<1> DEFINE t == Turned(d, s)
<1>1. t = [d EXCEPT !.side = s]
  BY DEF Turned
<1> HIDE DEF t
<1>2. t = [id |-> d.id, panel |-> d.panel, slot |-> d.slot, side |-> s, applet |-> d.applet]
  BY <1>1 DEF Def
<1>3. t \in Def /\ t.id = d.id /\ t.panel = d.panel /\ t.slot = d.slot /\ t.side = s
      /\ t.applet = d.applet
  BY <1>2 DEF Def
<1> QED BY <1>3 DEF t

LEMMA PlaceSide ==
  ASSUME NEW f \in PlaceMaps, NEW i \in DOMAIN f
  PROVE  f[i][2] \in Sides
<1>1. f[i] \in Places
  BY MetaPlace
<1> QED BY <1>1 DEF Places, Sides

LEMMA DefinitionIs ==
  ASSUME panels \in PlaceMaps, NEW e \in AppletEntry
  PROVE  /\ Definition(e) \in Def /\ Definition(e).id = e.id /\ Definition(e).panel = e.panel
         /\ Definition(e).slot = e.slot /\ Definition(e).applet = Nothing
         /\ e.panel \in DOMAIN panels => Definition(e).side = panels[e.panel][2]
<1> DEFINE s == IF e.panel \in DOMAIN panels THEN panels[e.panel][2] ELSE Nothing
           t == Definition(e)
           z == Nothing
<1>1. s \in Sides /\ z \in Nat
  BY PlaceSide, NothingIs
<1>2. t = [id |-> e.id, panel |-> e.panel, slot |-> e.slot, side |-> s, applet |-> z]
  BY DEF Definition
<1>3. e.panel \in DOMAIN panels => s = panels[e.panel][2]
  OBVIOUS
<1> HIDE DEF s, t, z
<1>4. t \in Def /\ t.id = e.id /\ t.panel = e.panel /\ t.slot = e.slot /\ t.side = s /\ t.applet = z
  BY <1>1, <1>2 DEF Def, AppletEntry
<1> QED BY <1>3, <1>4 DEF t, z

\* Definitions that are equal for the code agree on all but the applet.
LEMMA EqualIs ==
  ASSUME NEW a \in Def, NEW b \in Def, Equal(a, b)
  PROVE  a.id = b.id /\ a.panel = b.panel /\ a.slot = b.slot /\ a.side = b.side
<1>1. TakeOff(a) = TakeOff(b)
  BY DEF Equal
<1> QED BY <1>1, TakeOffIs

LEMMA DefsIs ==
  ASSUME NEW q \in Seq(Def)
  PROVE  /\ \A k \in DOMAIN q : q[k] \in Def
         /\ \A d : d \in Range(q) <=> \E k \in DOMAIN q : d = q[k]
<1>1. \A k \in DOMAIN q : q[k] \in Def
  OBVIOUS
<1>2. Range(q) = {q[k] : k \in DOMAIN q}
  BY DEF Range
<1> QED BY <1>1, <1>2

LEMMA ShownIs ==
  ASSUME NEW ds, NEW b
  PROVE  b \in Shown(ds) <=> \E d \in ds : d.applet # Nothing /\ b = <<d.id, d.applet>>
BY DEF Shown

\* A list of definitions, given by the definition at each position.
LEMMA DefSeq ==
  ASSUME NEW q \in Seq(Def), NEW r, DOMAIN r = DOMAIN q, r = [k \in DOMAIN q |-> r[k]],
         \A k \in DOMAIN q : r[k] \in Def
  PROVE  r \in Seq(Def)
<1>1. DOMAIN q = 1 .. Len(q) /\ Len(q) \in Nat
  OBVIOUS
<1>2. r \in [1 .. Len(q) -> Def]
  BY <1>1
<1> QED BY <1>1, <1>2

-----------------------------------------------------------------------------
(* The lists that a user's actions make of the key. *)

KeepEntry(kept, e, ids) == IF e.id \in ids THEN Append(kept, e) ELSE kept

LEMMA KeepEntryIs ==
  ASSUME NEW kept \in Seq(AppletEntry), NEW e \in AppletEntry, NEW ids
  PROVE  KeepEntry(kept, e, ids) \in Seq(AppletEntry)
BY AppendKeeps DEF KeepEntry

KeepEnd(base, list, ids) ==
    FoldLeft(LAMBDA kept, e : IF e.id \in ids THEN Append(kept, e) ELSE kept, base, list)

\* The values the fold goes through, entry by entry.
KeepTrace(tr, base, list, ids) ==
    /\ tr[0] = base
    /\ \A k \in 1 .. Len(list) : tr[k] = KeepEntry(tr[k - 1], list[k], ids)
    /\ \A k \in 0 .. Len(list) : tr[k] \in Seq(AppletEntry)
    /\ KeepEnd(base, list, ids) = tr[Len(list)]

LEMMA KeepFold ==
  ASSUME NEW ids, NEW base \in Seq(AppletEntry), NEW list \in Seq(AppletEntry)
  PROVE  \E tr : KeepTrace(tr, base, list, ids)
<1> DEFINE X == Seq(AppletEntry)
           E == AppletEntry
           n == Len(list)
           step == [p \in X \X E |-> KeepEntry(p[1], p[2], ids)]
           Eq(jt) == jt = [t \in SUBSET (1 .. n) |->
                             IF t = {} THEN base ELSE KeepEntry(jt[t \ {Max(t)}], list[Max(t)], ids)]
<1>1. n \in Nat /\ list \in [1 .. n -> E] /\ DOMAIN list = 1 .. n /\ base \in X
  OBVIOUS
<1>2. \A y \in X, e \in E : KeepEntry(y, e, ids) \in X
  BY KeepEntryIs
<1> HIDE DEF X, E
<1>3. step \in [X \X E -> X]
  BY <1>2
<1>4. PICK it \in [SUBSET (1 .. n) -> X] : FoldEq(it, step, base, list, n)
  <2> HIDE DEF step, n
  <2> QED BY <1>1, <1>3, FoldExists
<1>5. Eq(it)
  <2>1. ASSUME NEW t \in SUBSET (1 .. n), t # {}
        PROVE  step[<<it[t \ {Max(t)}], list[Max(t)]>>] = KeepEntry(it[t \ {Max(t)}], list[Max(t)], ids)
    <3>1. Max(t) \in 1 .. n
      <4> HIDE DEF n
      <4> QED BY <1>1, <2>1, MaxIsLast
    <3>2. t \ {Max(t)} \in SUBSET (1 .. n)
      OBVIOUS
    <3>3. <<it[t \ {Max(t)}], list[Max(t)]>> \in X \X E
      BY <1>1, <1>4, <3>1, <3>2
    <3> QED BY <3>3
  <2> HIDE DEF step
  <2> QED BY <1>4, <2>1 DEF FoldEq
<1> HIDE DEF step
<1> DEFINE f == KeepEnd(base, list, ids)
<1>6. f = (CHOOSE jt : Eq(jt))[1 .. n]
  BY <1>1 DEF KeepEnd, FoldLeft, MapThenFoldSet, KeepEntry
<1> HIDE DEF f
<1>7. PICK jt : Eq(jt) /\ f = jt[1 .. n]
  BY <1>5, <1>6
<1> DEFINE tr == [k \in 0 .. n |-> jt[1 .. k]]
<1>8. jt[{}] = base /\ \A k \in 1 .. n : jt[1 .. k] = KeepEntry(jt[1 .. (k - 1)], list[k], ids)
  <2>1. {} \in SUBSET (1 .. n)
    OBVIOUS
  <2> HIDE DEF n
  <2>2. \A k \in 1 .. n : /\ 1 .. k \in SUBSET (1 .. n) /\ 1 .. k # {}
                          /\ Max(1 .. k) = k /\ (1 .. k) \ {k} = 1 .. (k - 1)
    BY <1>1, FoldSteps
  <2>3. jt[{}] = base
    BY <1>7, <2>1
  <2>4. ASSUME NEW k \in 1 .. n
        PROVE  jt[1 .. k] = KeepEntry(jt[1 .. (k - 1)], list[k], ids)
    <3>1. 1 .. k \in SUBSET (1 .. n) /\ 1 .. k # {} /\ Max(1 .. k) = k
          /\ (1 .. k) \ {k} = 1 .. (k - 1)
      BY <2>2
    <3>2. jt[1 .. k] = KeepEntry(jt[(1 .. k) \ {Max(1 .. k)}], list[Max(1 .. k)], ids)
      BY ONLY <1>7, <3>1
    <3> QED BY <3>1, <3>2
  <2> QED BY <2>3, <2>4
<1>9. 1 .. 0 = {} /\ 0 \in 0 .. n /\ n \in 0 .. n
      /\ \A k \in 1 .. n : k \in 0 .. n /\ k - 1 \in 0 .. n
  BY <1>1
<1>10. /\ tr[0] = base /\ tr[n] = f
       /\ \A k \in 1 .. n : tr[k] = KeepEntry(tr[k - 1], list[k], ids)
  BY <1>7, <1>8, <1>9
<1> HIDE DEF tr
<1>11. \A k \in 0 .. n : tr[k] \in X
  <2> DEFINE S == {k \in 0 .. n : tr[k] \in X}
  <2>1. 0 \in S
    BY <1>1, <1>9, <1>10
  <2>2. \A k \in 1 .. n : k - 1 \in S => k \in S
    BY <1>1, <1>2, <1>9, <1>10
  <2> HIDE DEF S, n
  <2>3. \A k \in 0 .. n : k \in S
    BY <1>1, <2>1, <2>2, StepsInduct
  <2> QED BY <2>3 DEF S
<1>12. KeepTrace(tr, base, list, ids)
  BY <1>10, <1>11 DEF KeepTrace, X, f
<1> QED BY <1>12

LEMMA KeepingIs ==
  ASSUME NEW list \in Seq(AppletEntry), NEW ids
  PROVE  LET r == Keeping(list, ids)
         IN  r \in Seq(AppletEntry) /\ Ids(r) \subseteq Ids(list) /\ (Uniq(list) => Uniq(r))
<1> DEFINE n == Len(list)
           base == <<>>
           end == Keeping(list, ids)
           Of(q, k) == \A i \in DOMAIN q : \E j \in 1 .. k : q[i].id = list[j].id
<1>1. n \in Nat /\ n \in 0 .. n /\ 0 \in 0 .. n /\ DOMAIN list = 1 .. n
      /\ \A k \in 1 .. n : k \in 0 .. n /\ k - 1 \in 0 .. n
                           /\ \A j \in 1 .. (k - 1) : j \in 1 .. n /\ j \in 1 .. k /\ j # k
  OBVIOUS
<1>2. base \in Seq(AppletEntry) /\ DOMAIN base = {}
  OBVIOUS
<1> HIDE DEF base
<1>3. PICK tr : /\ tr[0] = base
                /\ \A k \in 1 .. n : tr[k] = KeepEntry(tr[k - 1], list[k], ids)
                /\ \A k \in 0 .. n : tr[k] \in Seq(AppletEntry)
                /\ KeepEnd(base, list, ids) = tr[n]
  <2>1. \E tr : KeepTrace(tr, base, list, ids)
    BY <1>2, KeepFold
  <2> QED BY ONLY <2>1 DEF KeepTrace
<1>4. end = tr[n]
  BY <1>3 DEF Keeping, KeepEnd, base
<1> HIDE DEF end, n
<1> DEFINE Q(k) == Of(tr[k], k) /\ (Uniq(list) => Uniq(tr[k]))
           S == {k \in 0 .. n : Q(k)}
<1>5. 0 \in S
  BY <1>1, <1>2, <1>3 DEF Uniq
<1>6. ASSUME NEW k \in 1 .. n, k - 1 \in S PROVE k \in S
  <2> DEFINE q == tr[k - 1]
             t == tr[k]
             e == list[k]
  <2>1. /\ k \in 0 .. n /\ k \in DOMAIN list /\ Of(q, k - 1) /\ (Uniq(list) => Uniq(q))
        /\ q \in Seq(AppletEntry) /\ t = KeepEntry(q, e, ids) /\ k \in 1 .. k
    BY <1>1, <1>3, <1>6
  <2>2. e \in AppletEntry
    BY <2>1
  <2>3. Of(q, k)
    BY <1>1, <2>1
  <2> HIDE DEF q, t, e, Of
  <2>4. CASE e.id \in ids
    <3>1. t = Append(q, e)
      BY <2>1, <2>4 DEF KeepEntry
    <3> DEFINE last == Len(q) + 1
    <3>2. /\ \A i \in DOMAIN q : t[i] = q[i]
          /\ t[last] = e /\ \A i \in DOMAIN t : i \in DOMAIN q \/ i = last
      BY <2>1, <2>2, <3>1, AppendKeeps
    <3> HIDE DEF last
    <3>3. Of(t, k)
      BY <2>1, <2>3, <3>2 DEF Of, e
    <3>4. ASSUME Uniq(list) PROVE Uniq(t)
      <4>1. \A i \in DOMAIN q : q[i].id # e.id
        BY <1>1, <2>1, <3>4 DEF Of, Uniq, e
      <4> QED BY <2>1, <3>2, <3>4, <4>1 DEF Uniq
    <3>5. Q(k)
      BY <3>3, <3>4 DEF t
    <3> QED BY <2>1, <3>5
  <2>5. CASE e.id \notin ids
    <3>1. t = q
      BY <2>1, <2>5 DEF KeepEntry
    <3>2. Q(k)
      BY <2>1, <2>3, <3>1 DEF t
    <3> QED BY <2>1, <3>2
  <2> QED BY <2>4, <2>5
<1>7. Q(n)
  <2> HIDE DEF Q
  <2>1. \A k \in 0 .. n : k \in S
    <3> HIDE DEF S
    <3> QED BY <1>1, <1>5, <1>6, StepsInduct
  <2> QED BY <1>1, <2>1
<1>8. end \in Seq(AppletEntry) /\ Of(end, n) /\ (Uniq(list) => Uniq(end))
  BY <1>1, <1>3, <1>4, <1>7
<1>9. Ids(end) \subseteq Ids(list)
  BY <1>1, <1>8 DEF Ids
<1> QED BY <1>8, <1>9 DEF end

-----------------------------------------------------------------------------
(* The invariant of the applets. *)

AppletsTyped ==
    /\ enabledApplets \in Seq(AppletEntry)
    /\ definitions \in Seq(Def)
    /\ copies \in [Uuids -> Nat]
    /\ modules \subseteq Uuids

\* A definition is turned as its panel ps[d.panel] is, its applet is on that panel or
\* nowhere, and it has one if its module is in mods and nothing throws.
AppletSound(d, ps, mods) ==
    /\ d.panel \in DOMAIN ps => d.side = ps[d.panel][2]
    /\ d.applet \in {Nothing, d.panel}
    /\ d.applet # Nothing => d.panel \in DOMAIN ps
    /\ /\ d.panel \in DOMAIN ps
       /\ UuidOf[d.id] \in mods
       /\ FaultlessUuid(UuidOf[d.id])
       => d.applet # Nothing

AppletsInv ==
    /\ Uniq(enabledApplets)
    /\ Uniq(definitions)
    /\ \A u \in modules : copies[u] > 0
    /\ \A k \in DOMAIN definitions : AppletSound(definitions[k], panels, modules)
    /\ boxes = Shown(Range(definitions))

LEMMA FaultlessIs ==
  ASSUME NEW i \in AppletIds, FaultlessUuid(UuidOf[i])
  PROVE  Fault[i] # "main" /\ Fault[i] = "none"
BY DEF FaultlessUuid

\* What is shown, by positions.
LEMMA ShownBy ==
  ASSUME NEW q \in Seq(Def), NEW b
  PROVE  b \in Shown(Range(q)) <=> \E k \in DOMAIN q : q[k].applet # Nothing
                                                       /\ b = <<q[k].id, q[k].applet>>
BY DefsIs, ShownIs

-----------------------------------------------------------------------------
(* The key changes. *)

LEMMA NewDefs ==
  ASSUME PanelsTyped, AppletsTyped, NEW list \in Seq(AppletEntry)
  PROVE  LET new == GetDefinitions(list)
         IN  /\ new \in Seq(Def) /\ DOMAIN new = DOMAIN list /\ Ids(new) = Ids(list)
             /\ \A k \in DOMAIN list :
                   /\ new[k].id = list[k].id
                   /\ new[k].panel \in DOMAIN panels => new[k].side = panels[new[k].panel][2]
                   /\ new[k] \in Range(definitions) \/ new[k].applet = Nothing
<1> DEFINE new == GetDefinitions(list)
           old(k) == {d \in Range(definitions) : Equal(d, Definition(list[k]))}
<1>1. /\ DOMAIN new = DOMAIN list /\ new = [k \in DOMAIN list |-> new[k]]
      /\ \A k \in DOMAIN list :
            new[k] = IF old(k) = {} THEN Definition(list[k]) ELSE CHOOSE d \in old(k) : TRUE
  BY DEF GetDefinitions
<1> HIDE DEF new
<1>2. panels \in PlaceMaps /\ definitions \in Seq(Def)
  BY DEF PanelsTyped, AppletsTyped
<1>3. ASSUME NEW k \in DOMAIN list
      PROVE  /\ new[k] \in Def /\ new[k].id = list[k].id
             /\ new[k].panel \in DOMAIN panels => new[k].side = panels[new[k].panel][2]
             /\ new[k] \in Range(definitions) \/ new[k].applet = Nothing
  <2> DEFINE e == list[k]
             f == Definition(e)
  <2>1. e \in AppletEntry
    OBVIOUS
  <2>2. /\ f \in Def /\ f.id = e.id /\ f.panel = e.panel /\ f.slot = e.slot /\ f.applet = Nothing
        /\ e.panel \in DOMAIN panels => f.side = panels[e.panel][2]
    BY <1>2, <2>1, DefinitionIs
  <2> HIDE DEF e, f
  <2>3. CASE old(k) = {}
    <3>1. new[k] = f
      BY <1>1, <2>3 DEF e, f
    <3> QED BY <2>2, <3>1 DEF e
  <2>4. CASE old(k) # {}
    <3>1. new[k] \in old(k)
      BY <1>1, <2>4
    <3>2. new[k] \in Range(definitions) /\ Equal(new[k], f)
      BY <3>1 DEF f, e
    <3>3. new[k] \in Def
      BY <1>2, <3>2, DefsIs
    <3> DEFINE d == new[k]
    <3> HIDE DEF d
    <3>4. d.id = f.id /\ d.panel = f.panel /\ d.slot = f.slot /\ d.side = f.side
      <4>1. d \in Def /\ f \in Def /\ Equal(d, f)
        BY <2>2, <3>2, <3>3 DEF d
      <4> QED BY <4>1, EqualIs
    <3>5. d.panel \in DOMAIN panels => d.side = panels[d.panel][2]
      BY <2>2, <3>4
    <3> QED BY <2>2, <3>2, <3>3, <3>4, <3>5 DEF d, e
  <2> QED BY <2>3, <2>4
<1>4. new \in Seq(Def)
  <2>1. DOMAIN list = 1 .. Len(list) /\ Len(list) \in Nat
    OBVIOUS
  <2>2. new \in [1 .. Len(list) -> Def]
    BY <1>1, <1>3, <2>1
  <2> QED BY <2>1, <2>2
<1>5. Ids(new) = Ids(list)
  BY <1>1, <1>3 DEF Ids
<1> QED BY <1>1, <1>3, <1>4, <1>5 DEF new

\* What a watched key makes of the definitions.
AddedOf(new) == {k \in DOMAIN new : /\ new[k] \notin Range(definitions)
                                    /\ CanCreate(new[k], DOMAIN panels)}

AfterOf(new) == [k \in DOMAIN new |-> IF k \in AddedOf(new) THEN PutOn(new[k]) ELSE new[k]]

LEMMA WatchedKeyIs ==
  ASSUME NEW list, OnEnabledAppletsChanged(list)
  PROVE  LET new   == GetDefinitions(list)
             after == AfterOf(new)
         IN  /\ definitions' = after
             /\ boxes' = (boxes \ Shown(Dropped(new)))
                         \cup {<<after[k].id, after[k].applet>> : k \in AddedOf(new)}
             /\ configs' = (configs \ DeletesConfig(new)) \cup {after[k].id : k \in AddedOf(new)}
BY DEF OnEnabledAppletsChanged, AddedOf, AfterOf

LEMMA AfterIs ==
  ASSUME PanelsTyped, NEW new \in Seq(Def)
  PROVE  LET after == AfterOf(new)
         IN  /\ after \in Seq(Def) /\ DOMAIN after = DOMAIN new
             /\ \A k \in DOMAIN new :
                   /\ after[k] \in Def
                   /\ after[k].id = new[k].id /\ after[k].panel = new[k].panel
                   /\ after[k].side = new[k].side
                   /\ IF k \in AddedOf(new)
                      THEN /\ new[k] \notin Range(definitions)
                           /\ after[k].panel \in DOMAIN panels /\ after[k].applet = after[k].panel
                           /\ after[k].applet # Nothing
                      ELSE after[k] = new[k]
<1> DEFINE after == AfterOf(new)
<1>1. /\ DOMAIN after = DOMAIN new /\ after = [k \in DOMAIN new |-> after[k]]
      /\ \A k \in DOMAIN new : after[k] = IF k \in AddedOf(new) THEN PutOn(new[k]) ELSE new[k]
  BY DEF AfterOf
<1> HIDE DEF after
<1>2. ASSUME NEW k \in DOMAIN new
      PROVE  /\ after[k] \in Def
             /\ after[k].id = new[k].id /\ after[k].panel = new[k].panel
             /\ after[k].side = new[k].side
             /\ IF k \in AddedOf(new)
                THEN /\ new[k] \notin Range(definitions)
                     /\ after[k].panel \in DOMAIN panels /\ after[k].applet = after[k].panel
                     /\ after[k].applet # Nothing
                ELSE after[k] = new[k]
  <2> DEFINE d == new[k]
  <2>1. d \in Def
    OBVIOUS
  <2> HIDE DEF d
  <2>2. CASE k \in AddedOf(new)
    <3>1. d.panel \in DOMAIN panels /\ d \notin Range(definitions)
      BY <2>2 DEF AddedOf, CanCreate, d
    <3>2. d.panel # Nothing
      <4>1. DOMAIN panels \subseteq PanelIds
        BY PlaceMapIs DEF PanelsTyped
      <4> QED BY <3>1, <4>1, NothingIs
    <3>3. after[k] = PutOn(d)
      BY <1>1, <2>2 DEF d
    <3> QED BY <2>1, <2>2, <3>1, <3>2, <3>3, PutOnIs DEF d
  <2>3. CASE k \notin AddedOf(new)
    BY <1>1, <2>1, <2>3 DEF d
  <2> QED BY <2>2, <2>3
<1>3. after \in Seq(Def)
  BY <1>1, <1>2, DefSeq
<1> QED BY <1>1, <1>2, <1>3 DEF after

LEMMA WatchedTyped ==
  ASSUME PanelsTyped, AppletsTyped, NEW list \in Seq(AppletEntry),
         OnEnabledAppletsChanged(list)
  PROVE  definitions' \in Seq(Def)
<1> DEFINE new == GetDefinitions(list)
<1>1. new \in Seq(Def)
  BY NewDefs
<1>2. definitions' = AfterOf(new)
  BY WatchedKeyIs
<1> HIDE DEF new
<1> QED BY <1>1, <1>2, AfterIs

LEMMA WatchedSound ==
  ASSUME PanelsTyped, AppletsTyped, AppletsInv, NEW list \in Seq(AppletEntry), Uniq(list),
         OnEnabledAppletsChanged(list)
  PROVE  /\ Uniq(definitions')
         /\ \A k \in DOMAIN definitions' : AppletSound(definitions'[k], panels, modules)
         /\ boxes' = Shown(Range(definitions'))
<1> DEFINE new == GetDefinitions(list)
           after == AfterOf(new)
           A == AddedOf(new)
           old == definitions
<1>1. /\ new \in Seq(Def) /\ DOMAIN new = DOMAIN list
      /\ \A k \in DOMAIN list :
            /\ new[k].id = list[k].id
            /\ new[k].panel \in DOMAIN panels => new[k].side = panels[new[k].panel][2]
            /\ new[k] \in Range(old) \/ new[k].applet = Nothing
  BY NewDefs
<1>2. /\ definitions' = after
      /\ boxes' = (boxes \ Shown(Dropped(new))) \cup {<<after[k].id, after[k].applet>> : k \in A}
  BY WatchedKeyIs
<1> HIDE DEF new
<1>3. /\ after \in Seq(Def) /\ DOMAIN after = DOMAIN new
      /\ \A k \in DOMAIN new :
            /\ after[k] \in Def
            /\ after[k].id = new[k].id /\ after[k].panel = new[k].panel
            /\ after[k].side = new[k].side
            /\ IF k \in A
               THEN /\ new[k] \notin Range(old)
                    /\ after[k].panel \in DOMAIN panels /\ after[k].applet = after[k].panel
                    /\ after[k].applet # Nothing
               ELSE after[k] = new[k]
  BY <1>1, AfterIs
<1>4. \A k \in A : k \in DOMAIN new
  BY DEF AddedOf
<1>5. \A k \in DOMAIN new : k \notin A /\ new[k] \notin Range(old) => ~CanCreate(new[k], DOMAIN panels)
  BY DEF AddedOf
<1> HIDE DEF after, A
<1>6. old \in Seq(Def) /\ Uniq(old) /\ boxes = Shown(Range(old))
      /\ (\A j \in DOMAIN old : AppletSound(old[j], panels, modules))
      /\ \A u \in modules : copies[u] > 0
  BY DEF AppletsTyped, AppletsInv
<1>7. /\ \A d : d \in Range(old) <=> \E j \in DOMAIN old : d = old[j]
      /\ \A d : d \in Range(new) <=> \E k \in DOMAIN new : d = new[k]
  BY <1>1, <1>6, DefsIs
<1> HIDE DEF old
<1>8. Uniq(after)
  BY <1>1, <1>3 DEF Uniq
<1>9. ASSUME NEW k \in DOMAIN after PROVE AppletSound(after[k], panels, modules)
  <2> DEFINE a == after[k]
             d == new[k]
  <2>1. /\ k \in DOMAIN new /\ k \in DOMAIN list /\ a \in Def /\ d \in Def
        /\ a.id = d.id /\ a.panel = d.panel /\ a.side = d.side
    BY <1>1, <1>3
  <2>2. d.panel \in DOMAIN panels => d.side = panels[d.panel][2]
    BY <1>1, <2>1
  <2>3. CASE k \in A
    <3>1. a.panel \in DOMAIN panels /\ a.applet = a.panel /\ a.applet # Nothing
      BY <1>3, <2>1, <2>3
    <3> HIDE DEF a, d
    <3>2. AppletSound(a, panels, modules)
      BY <2>1, <2>2, <3>1 DEF AppletSound
    <3> QED BY <3>2 DEF a
  <2>4. CASE k \notin A /\ d \in Range(old)
    <3>1. a = d
      BY <1>3, <2>1, <2>4
    <3>2. AppletSound(d, panels, modules)
      BY <1>6, <1>7, <2>4
    <3> HIDE DEF a, d
    <3>3. AppletSound(a, panels, modules)
      BY <3>1, <3>2
    <3> QED BY <3>3 DEF a
  <2>5. CASE k \notin A /\ d \notin Range(old)
    <3>1. a = d /\ d.applet = Nothing /\ ~CanCreate(d, DOMAIN panels)
      BY <1>1, <1>3, <1>5, <2>1, <2>5
    <3> HIDE DEF a, d
    <3>2. d.id \in AppletIds
      BY <2>1 DEF Def
    <3>3. ASSUME d.panel \in DOMAIN panels, UuidOf[d.id] \in modules, FaultlessUuid(UuidOf[d.id])
          PROVE  FALSE
      <4>1. copies[UuidOf[d.id]] > 0 /\ Fault[d.id] # "main"
        BY <1>6, <3>2, <3>3, FaultlessIs
      <4> QED BY <3>1, <3>3, <4>1 DEF CanCreate
    <3>4. AppletSound(a, panels, modules)
      BY <2>2, <3>1, <3>3 DEF AppletSound
    <3> QED BY <3>4 DEF a
  <2> QED BY <2>3, <2>4, <2>5
<1>10. ASSUME NEW b
       PROVE  b \in boxes' <=> \E k \in DOMAIN after : after[k].applet # Nothing
                                                      /\ b = <<after[k].id, after[k].applet>>
  <2>1. b \in boxes' <=> \/ b \in boxes /\ b \notin Shown(Dropped(new))
                         \/ \E k \in A : b = <<after[k].id, after[k].applet>>
    BY <1>2
  <2>2. \A d : d \in Dropped(new) <=> (\E j \in DOMAIN old : d = old[j]) /\ ~(\E k \in DOMAIN new : d = new[k])
    BY <1>7 DEF Dropped, old
  <2>3. ASSUME NEW k \in DOMAIN after, after[k].applet # Nothing,
               b = <<after[k].id, after[k].applet>>
        PROVE  b \in boxes'
    <3>1. CASE k \in A
      BY <2>1, <2>3, <3>1
    <3>2. CASE k \notin A
      <4>1. after[k] = new[k] /\ k \in DOMAIN new /\ k \in DOMAIN list
        BY <1>1, <1>3, <3>2
      <4>2. PICK j \in DOMAIN old : new[k] = old[j]
        BY <1>1, <1>7, <2>3, <4>1
      <4>3. b \in boxes
        BY <1>6, <2>3, <4>1, <4>2, ShownBy
      <4>4. ASSUME b \in Shown(Dropped(new)) PROVE FALSE
        <5>1. PICK d \in Dropped(new) : b = <<d.id, d.applet>>
          BY <4>4, ShownIs
        <5>2. PICK i \in DOMAIN old : d = old[i]
          BY <2>2, <5>1
        <5>3. old[i].id = old[j].id
          BY <2>3, <4>1, <4>2, <5>1, <5>2
        <5>4. i = j
          BY <1>6, <5>3 DEF Uniq
        <5> QED BY <2>2, <4>1, <4>2, <5>1, <5>2, <5>4
      <4> QED BY <2>1, <4>3, <4>4
    <3> QED BY <3>1, <3>2
  <2>4. ASSUME b \in boxes'
        PROVE  \E k \in DOMAIN after : after[k].applet # Nothing /\ b = <<after[k].id, after[k].applet>>
    <3>1. CASE \E k \in A : b = <<after[k].id, after[k].applet>>
      BY <1>3, <1>4, <3>1
    <3>2. CASE b \in boxes /\ b \notin Shown(Dropped(new))
      <4>1. PICK j \in DOMAIN old : old[j].applet # Nothing /\ b = <<old[j].id, old[j].applet>>
        BY <1>6, <3>2, ShownBy
      <4>2. old[j] \notin Dropped(new)
        BY <3>2, <4>1, ShownIs
      <4>3. PICK k \in DOMAIN new : old[j] = new[k]
        BY <2>2, <4>2
      <4>4. k \notin A
        BY <1>3, <1>7, <4>3
      <4>5. after[k] = old[j] /\ k \in DOMAIN after
        BY <1>3, <4>3, <4>4
      <4> QED BY <4>1, <4>5
    <3> QED BY <2>1, <2>4, <3>1, <3>2
  <2> QED BY <2>3, <2>4
<1>11. boxes' = Shown(Range(after))
  <2> DEFINE B == boxes'
  <2>1. \A b : b \in B <=> \E k \in DOMAIN after : after[k].applet # Nothing
                                                  /\ b = <<after[k].id, after[k].applet>>
    BY <1>10
  <2> HIDE DEF B
  <2>2. \A b : b \in Shown(Range(after)) <=> \E k \in DOMAIN after : after[k].applet # Nothing
                                                  /\ b = <<after[k].id, after[k].applet>>
    BY <1>3, ShownBy
  <2>3. \A b : b \in B <=> b \in Shown(Range(after))
    BY <2>1, <2>2
  <2>4. B = Shown(Range(after))
    BY <2>3
  <2> QED BY <2>4 DEF B
<1> QED BY <1>2, <1>8, <1>9, <1>11

LEMMA WriteKeyKeeps ==
  ASSUME PanelsTyped, AppletsTyped, NEW list \in Seq(AppletEntry), WriteKey(list)
  PROVE  AppletsTyped' /\ (AppletsInv /\ Uniq(list) => AppletsInv')
<1>1. /\ enabledApplets' = list /\ UNCHANGED <<panels, copies, modules>>
      /\ IF started THEN OnEnabledAppletsChanged(list) ELSE UNCHANGED <<definitions, boxes>>
  BY DEF WriteKey, panelVars
<1>2. CASE started
  <2>1. OnEnabledAppletsChanged(list)
    BY <1>1, <1>2
  <2>2. definitions' \in Seq(Def)
    BY <2>1, WatchedTyped
  <2>3. ASSUME AppletsInv, Uniq(list) PROVE AppletsInv'
    <3>1. /\ Uniq(definitions')
          /\ \A k \in DOMAIN definitions' : AppletSound(definitions'[k], panels, modules)
          /\ boxes' = Shown(Range(definitions'))
      BY <2>1, <2>3, WatchedSound
    <3>2. \A u \in modules : copies[u] > 0
      BY <2>3 DEF AppletsInv
    <3> QED BY <1>1, <2>3, <3>1, <3>2 DEF AppletsInv
  <2> QED BY <1>1, <2>2, <2>3 DEF AppletsTyped
<1>3. CASE ~started
  <2>1. definitions' = definitions /\ boxes' = boxes
    BY <1>1, <1>3
  <2>2. AppletsTyped'
    BY <1>1, <2>1 DEF AppletsTyped
  <2>3. ASSUME AppletsInv, Uniq(list) PROVE AppletsInv'
    BY <1>1, <2>1, <2>3 DEF AppletsInv
  <2> QED BY <2>2, <2>3
<1> QED BY <1>2, <1>3

-----------------------------------------------------------------------------
(* What users do with the key. *)

\* A list of entries, given by the entry at each position, with the ids of another.
LEMMA EntrySeq ==
  ASSUME NEW q \in Seq(AppletEntry), NEW r, DOMAIN r = DOMAIN q, r = [k \in DOMAIN q |-> r[k]],
         \A k \in DOMAIN q : r[k] \in AppletEntry /\ r[k].id = q[k].id
  PROVE  r \in Seq(AppletEntry) /\ Ids(r) = Ids(q) /\ (Uniq(q) => Uniq(r))
<1>1. DOMAIN q = 1 .. Len(q) /\ Len(q) \in Nat
  OBVIOUS
<1>2. r \in [1 .. Len(q) -> AppletEntry]
  BY <1>1
<1>3. r \in Seq(AppletEntry)
  BY <1>1, <1>2
<1>4. Ids(r) = Ids(q)
  BY DEF Ids
<1>5. Uniq(q) => Uniq(r)
  BY DEF Uniq
<1> QED BY <1>3, <1>4, <1>5

PutAt(e, s, p) == [e EXCEPT !.slot = s, !.panel = p]

LEMMA PutAtIs ==
  ASSUME NEW e \in AppletEntry, NEW s \in Nat, NEW p \in Nat
  PROVE  PutAt(e, s, p) \in AppletEntry /\ PutAt(e, s, p).id = e.id
<1> DEFINE t == PutAt(e, s, p)
<1>1. t = [e EXCEPT !.slot = s, !.panel = p]
  BY DEF PutAt
<1> HIDE DEF t
<1>2. t = [id |-> e.id, panel |-> p, slot |-> s]
  BY <1>1 DEF AppletEntry
<1>3. t \in AppletEntry /\ t.id = e.id
  BY <1>2 DEF AppletEntry
<1> QED BY <1>3 DEF t

\* The key is written with entries of which no two are of one applet.
KeyWritten ==
    \E list \in Seq(AppletEntry) : WriteKey(list) /\ (AppletsInv => Uniq(list))

LEMMA AddAppletWrites ==
  ASSUME PanelsTyped, AppletsTyped, NEW id \in AppletIds, NEW panel, NEW slot \in Slots,
         AddApplet(id, panel, slot)
  PROVE  KeyWritten
<1> DEFINE q == enabledApplets
           r == [k \in DOMAIN q |-> IF q[k].panel = panel /\ q[k].slot >= slot
                                    THEN [q[k] EXCEPT !.slot = @ + 1] ELSE q[k]]
           e == [id |-> id, panel |-> panel, slot |-> slot]
           list == Append(r, e)
<1>1. id \notin Ids(q) /\ panel \in Ids(panelsEnabled) /\ WriteKey(list)
  BY DEF AddApplet
<1>2. q \in Seq(AppletEntry)
  BY DEF AppletsTyped
<1>3. panel \in Nat
  <2>1. \A k \in DOMAIN panelsEnabled : panelsEnabled[k].id \in PanelIds
    BY EntryIs DEF PanelsTyped
  <2> QED BY <1>1, <2>1 DEF Ids, PanelIds
<1>4. e \in AppletEntry /\ e.id = id
  BY <1>3, AppletsAssumption DEF AppletEntry
<1>5. DOMAIN r = DOMAIN q /\ r = [k \in DOMAIN q |-> r[k]]
      /\ \A k \in DOMAIN q : r[k] = IF q[k].panel = panel /\ q[k].slot >= slot
                                    THEN [q[k] EXCEPT !.slot = @ + 1] ELSE q[k]
  OBVIOUS
<1> HIDE DEF q, r, e
<1>6. ASSUME NEW k \in DOMAIN q PROVE r[k] \in AppletEntry /\ r[k].id = q[k].id
  <2> DEFINE d == q[k]
             t == r[k]
             s == d.slot + 1
  <2>1. d \in AppletEntry
    BY <1>2
  <2>2. s \in Nat
    BY <2>1 DEF AppletEntry
  <2>3. t = d \/ t = [d EXCEPT !.slot = @ + 1]
    BY <1>5
  <2> HIDE DEF d, t
  <2>4. ASSUME t = [d EXCEPT !.slot = @ + 1] PROVE t \in AppletEntry /\ t.id = d.id
    <3>1. t = [d EXCEPT !.slot = s]
      BY <2>1, <2>4 DEF AppletEntry
    <3> HIDE DEF s
    <3>2. t = [id |-> d.id, panel |-> d.panel, slot |-> s]
      BY <2>1, <3>1 DEF AppletEntry
    <3> QED BY <2>1, <2>2, <3>2 DEF AppletEntry
  <2>5. t \in AppletEntry /\ t.id = d.id
    BY <2>1, <2>3, <2>4
  <2> QED BY <2>5 DEF d, t
<1>7. r \in Seq(AppletEntry) /\ Ids(r) = Ids(q) /\ (Uniq(q) => Uniq(r))
  BY ONLY <1>2, <1>5, <1>6, EntrySeq
<1> DEFINE last == Len(r) + 1
<1>8. /\ list \in Seq(AppletEntry) /\ \A k \in DOMAIN r : list[k] = r[k]
      /\ list[last] = e /\ \A k \in DOMAIN list : k \in DOMAIN r \/ k = last
  BY ONLY <1>4, <1>7, AppendKeeps
<1> HIDE DEF list, last
<1>9. ASSUME Uniq(q) PROVE Uniq(list)
  <2>1. \A k \in DOMAIN r : r[k].id # e.id
    BY <1>1, <1>4, <1>7 DEF Ids
  <2> QED BY <1>7, <1>8, <1>9, <2>1 DEF Uniq
<1>10. AppletsInv => Uniq(list)
  BY <1>9 DEF AppletsInv, q
<1> QED BY <1>1, <1>8, <1>10 DEF KeyWritten

LEMMA KeepingWrites ==
  ASSUME PanelsTyped, AppletsTyped, NEW ids, WriteKey(Keeping(enabledApplets, ids))
  PROVE  KeyWritten
<1> DEFINE q == enabledApplets
           list == Keeping(q, ids)
<1>1. q \in Seq(AppletEntry) /\ (AppletsInv => Uniq(q)) /\ WriteKey(list)
  BY DEF AppletsTyped, AppletsInv
<1> HIDE DEF q
<1>2. list \in Seq(AppletEntry) /\ (Uniq(q) => Uniq(list))
  BY <1>1, KeepingIs
<1> HIDE DEF list
<1> QED BY <1>1, <1>2 DEF KeyWritten

LEMMA DropAppletWrites ==
  ASSUME PanelsTyped, AppletsTyped, NEW id \in AppletIds, NEW panel, DropApplet(id, panel)
  PROVE  KeyWritten
<1>1. PICK orders \in [{id} \cup {b[1] : b \in {x \in boxes : x[2] = panel}} -> Slots] :
         WriteKey(SavedPositions(orders, id, panel))
  BY DEF DropApplet
<1>2. panel \in Nat
  <2>1. panel \in DOMAIN panels
    BY DEF DropApplet
  <2> QED BY <2>1, PlaceMapIs DEF PanelsTyped, PanelIds
<1> DEFINE ids == {i \in AppletIds : HasApplet(i)}
           q == Keeping(enabledApplets, ids)
           Saved(e) == IF e.id \notin DOMAIN orders THEN e
                       ELSE [e EXCEPT !.slot = orders[e.id],
                                      !.panel = IF e.id = id THEN panel ELSE @]
           list == [k \in DOMAIN q |-> Saved(q[k])]
<1>3. WriteKey(list)
  BY <1>1 DEF SavedPositions
<1>4. \A i \in DOMAIN orders : orders[i] \in Nat
  BY AppletsAssumption
<1>5. q \in Seq(AppletEntry) /\ (AppletsInv => Uniq(q))
  <2> HIDE DEF ids
  <2> DEFINE f == enabledApplets
  <2>1. f \in Seq(AppletEntry) /\ (AppletsInv => Uniq(f))
    BY DEF AppletsTyped, AppletsInv
  <2> HIDE DEF f
  <2> DEFINE g == Keeping(f, ids)
  <2>2. g \in Seq(AppletEntry) /\ (Uniq(f) => Uniq(g))
    BY <2>1, KeepingIs
  <2> QED BY <2>1, <2>2 DEF f
<1> HIDE DEF q
<1>6. DOMAIN list = DOMAIN q /\ list = [k \in DOMAIN q |-> list[k]]
      /\ \A k \in DOMAIN q : list[k] = Saved(q[k])
  OBVIOUS
<1> HIDE DEF list
<1>7. ASSUME NEW k \in DOMAIN q PROVE list[k] \in AppletEntry /\ list[k].id = q[k].id
  <2> DEFINE e == q[k]
             t == list[k]
             s == orders[e.id]
             p == IF e.id = id THEN panel ELSE e.panel
  <2>1. e \in AppletEntry /\ t = Saved(e)
    <3>1. e \in AppletEntry
      BY <1>5
    <3>2. t = Saved(e)
      BY <1>6
    <3> QED BY <3>1, <3>2
  <2> HIDE DEF e, t
  <2>2. CASE e.id \notin DOMAIN orders
    <3>1. t = e
      BY <2>1, <2>2
    <3> QED BY <2>1, <3>1 DEF e, t
  <2>3. CASE e.id \in DOMAIN orders
    <3>1. s \in Nat /\ p \in Nat
      BY <1>2, <1>4, <2>1, <2>3 DEF AppletEntry
    <3>2. t = PutAt(e, s, p)
      <4>1. t = [e EXCEPT !.slot = s, !.panel = p]
        BY <2>1, <2>3 DEF AppletEntry
      <4> QED BY <4>1 DEF PutAt
    <3> HIDE DEF s, p
    <3>3. t \in AppletEntry /\ t.id = e.id
      BY <2>1, <3>1, <3>2, PutAtIs
    <3> QED BY <3>3 DEF e, t
  <2> QED BY <2>2, <2>3
<1>8. list \in Seq(AppletEntry) /\ (Uniq(q) => Uniq(list))
  BY <1>5, <1>6, <1>7, EntrySeq
<1> QED BY <1>3, <1>5, <1>8 DEF KeyWritten

-----------------------------------------------------------------------------
(* Loads and reloads. *)

LEMMA LoadEndsKeeps ==
  ASSUME PanelsTyped, AppletsTyped, NEW uuid \in Uuids, LoadEnds(uuid)
  PROVE  AppletsTyped' /\ (AppletsInv => AppletsInv')
<1> DEFINE q == definitions
           made == {k \in Reached(uuid) : Fault[q[k].id] # "main"}
           r == [k \in DOMAIN q |-> IF k \in made THEN PutOn(q[k]) ELSE q[k]]
<1>1. /\ copies' = [copies EXCEPT ![uuid] = @ + 1] /\ modules' = modules \cup {uuid}
      /\ definitions' = r
      /\ boxes' = boxes \cup {<<q[k].id, q[k].panel>> : k \in made}
      /\ panels' = panels /\ enabledApplets' = enabledApplets
  BY DEF LoadEnds, panelVars
<1>2. q \in Seq(Def) /\ copies \in [Uuids -> Nat] /\ modules \subseteq Uuids
  BY DEF AppletsTyped
<1>3. \A k \in made : /\ k \in DOMAIN q /\ UuidOf[q[k].id] = uuid /\ q[k].applet = Nothing
                      /\ q[k].panel \in DOMAIN panels
  BY DEF Reached, Waiting
<1>4. ASSUME NEW k \in DOMAIN q, UuidOf[q[k].id] = uuid, FaultlessUuid(uuid),
             q[k].panel \in DOMAIN panels, q[k].applet = Nothing
      PROVE  k \in made
  <2>1. \A j \in Waiting(uuid) : Fault[q[j].id] = "none"
    <3> SUFFICES ASSUME NEW j \in Waiting(uuid) PROVE Fault[q[j].id] = "none"
      OBVIOUS
    <3>1. j \in DOMAIN q /\ UuidOf[q[j].id] = uuid
      BY DEF Waiting
    <3>2. q[j].id \in AppletIds
      <4>1. q[j] \in Def
        BY <1>2, <3>1
      <4> QED BY <4>1 DEF Def
    <3> QED BY <1>4, <3>1, <3>2, FaultlessIs
  <2>2. k \in Waiting(uuid)
    BY <1>4 DEF Waiting
  <2> QED BY <2>1, <2>2 DEF Reached
<1>5. DOMAIN r = DOMAIN q /\ r = [k \in DOMAIN q |-> r[k]]
      /\ \A k \in DOMAIN q : r[k] = IF k \in made THEN PutOn(q[k]) ELSE q[k]
  OBVIOUS
<1> HIDE DEF q, made, r
<1>6. ASSUME NEW k \in DOMAIN q
      PROVE  /\ r[k] \in Def /\ q[k] \in Def
             /\ r[k].id = q[k].id /\ r[k].panel = q[k].panel /\ r[k].side = q[k].side
             /\ r[k].applet = IF k \in made THEN q[k].panel ELSE q[k].applet
  <2> DEFINE d == q[k]
             t == r[k]
  <2>1. d \in Def /\ t = IF k \in made THEN PutOn(d) ELSE d
    BY <1>2, <1>5
  <2> HIDE DEF d, t
  <2>2. /\ t \in Def /\ t.id = d.id /\ t.panel = d.panel /\ t.side = d.side
        /\ t.applet = IF k \in made THEN d.panel ELSE d.applet
    BY <2>1, PutOnIs
  <2> QED BY <2>1, <2>2 DEF d, t
<1>7. r \in Seq(Def)
  BY <1>2, <1>5, <1>6, DefSeq
<1>8. copies' \in [Uuids -> Nat] /\ modules' \subseteq Uuids
      /\ \A u \in Uuids : copies'[u] = IF u = uuid THEN copies[u] + 1 ELSE copies[u]
  BY <1>1, <1>2
<1>9. AppletsTyped'
  BY <1>1, <1>7, <1>8 DEF AppletsTyped
<1>10. ASSUME AppletsInv PROVE AppletsInv'
  <2>1. /\ Uniq(q) /\ (\A u \in modules : copies[u] > 0)
        /\ (\A k \in DOMAIN q : AppletSound(q[k], panels, modules))
        /\ boxes = Shown(Range(q)) /\ Uniq(enabledApplets)
    BY <1>10 DEF AppletsInv, q
  <2>2. Uniq(r)
    BY <1>5, <1>6, <2>1 DEF Uniq
  <2>3. \A u \in modules' : copies'[u] > 0
    BY <1>1, <1>2, <1>8, <2>1
  <2>4. DOMAIN panels \subseteq PanelIds
    BY PlaceMapIs DEF PanelsTyped
  <2>5. ASSUME NEW k \in DOMAIN r PROVE AppletSound(r[k], panels, modules \cup {uuid})
    <3> DEFINE d == q[k]
               t == r[k]
    <3>1. /\ t \in Def /\ d \in Def /\ k \in DOMAIN q
          /\ t.id = d.id /\ t.panel = d.panel /\ t.side = d.side
          /\ t.applet = IF k \in made THEN d.panel ELSE d.applet
          /\ AppletSound(d, panels, modules)
          /\ k \in made => d.panel \in DOMAIN panels
      BY <1>3, <1>5, <1>6, <2>1
    <3>2. ASSUME d.panel \in DOMAIN panels, UuidOf[d.id] = uuid, FaultlessUuid(uuid),
                 d.applet = Nothing
          PROVE  k \in made
      BY <1>4, <3>1, <3>2
    <3> HIDE DEF d, t
    <3>3. CASE k \in made
      <4>1. t.applet = d.panel /\ d.panel \in DOMAIN panels /\ d.panel # Nothing
        BY <2>4, <3>1, <3>3, NothingIs
      <4>2. AppletSound(t, panels, modules \cup {uuid})
        BY <3>1, <4>1 DEF AppletSound
      <4> QED BY <4>2 DEF t
    <3>4. CASE k \notin made
      <4>1. t.applet = d.applet
        BY <3>1, <3>4
      <4>2. AppletSound(t, panels, modules \cup {uuid})
        BY <3>1, <3>2, <3>4, <4>1 DEF AppletSound
      <4> QED BY <4>2 DEF t
    <3> QED BY <3>3, <3>4
  <2>6. \A b : b \in Shown(Range(r)) <=> \E k \in DOMAIN r : r[k].applet # Nothing
                                                            /\ b = <<r[k].id, r[k].applet>>
    BY <1>7, ShownBy
  <2>7. \A b : b \in Shown(Range(q)) <=> \E k \in DOMAIN q : q[k].applet # Nothing
                                                            /\ b = <<q[k].id, q[k].applet>>
    BY <1>2, ShownBy
  <2>8. \A k \in made : k \in DOMAIN q /\ q[k].panel # Nothing /\ q[k].applet = Nothing
    BY <1>3, <2>4, NothingIs
  <2>9. \A b : b \in boxes' <=> b \in boxes \/ \E k \in made : b = <<q[k].id, q[k].panel>>
    BY <1>1
  <2>10. \A b : b \in boxes' <=> b \in Shown(Range(r))
    <3> SUFFICES ASSUME NEW b PROVE b \in boxes' <=> b \in Shown(Range(r))
      OBVIOUS
    <3>1. ASSUME b \in boxes' PROVE b \in Shown(Range(r))
      <4>1. CASE b \in boxes
        <5>1. PICK k \in DOMAIN q : q[k].applet # Nothing /\ b = <<q[k].id, q[k].applet>>
          BY <2>1, <2>7, <4>1
        <5>2. k \notin made
          BY <2>8, <5>1
        <5>3. k \in DOMAIN r /\ r[k].applet = q[k].applet /\ r[k].id = q[k].id
          BY <1>5, <1>6, <5>2
        <5> QED BY <2>6, <5>1, <5>3
      <4>2. CASE \E k \in made : b = <<q[k].id, q[k].panel>>
        <5>1. PICK k \in made : b = <<q[k].id, q[k].panel>>
          BY <4>2
        <5>2. k \in DOMAIN r /\ r[k].applet = q[k].panel /\ r[k].id = q[k].id /\ q[k].panel # Nothing
          BY <1>5, <1>6, <2>8
        <5> QED BY <2>6, <5>1, <5>2
      <4> QED BY <2>9, <3>1, <4>1, <4>2
    <3>2. ASSUME b \in Shown(Range(r)) PROVE b \in boxes'
      <4>1. PICK k \in DOMAIN r : r[k].applet # Nothing /\ b = <<r[k].id, r[k].applet>>
        BY <2>6, <3>2
      <4>2. /\ k \in DOMAIN q /\ r[k].id = q[k].id
            /\ r[k].applet = IF k \in made THEN q[k].panel ELSE q[k].applet
        BY <1>5, <1>6
      <4>3. CASE k \in made
        BY <2>9, <4>1, <4>2, <4>3
      <4>4. CASE k \notin made
        BY <2>1, <2>7, <2>9, <4>1, <4>2, <4>4
      <4> QED BY <4>3, <4>4
    <3> QED BY <3>1, <3>2
  <2>11. boxes' = Shown(Range(r))
    <3> DEFINE B == boxes'
    <3>1. \A b : b \in B <=> b \in Shown(Range(r))
      BY <2>10
    <3> HIDE DEF B
    <3>2. B = Shown(Range(r))
      BY <3>1
    <3> QED BY <3>2 DEF B
  <2> QED BY <1>1, <2>1, <2>2, <2>3, <2>5, <2>11 DEF AppletsInv
<1> QED BY <1>9, <1>10

LEMMA ReloadKeeps ==
  ASSUME PanelsTyped, AppletsTyped, NEW uuid \in Uuids, ReloadXlet(uuid)
  PROVE  AppletsTyped' /\ (AppletsInv => AppletsInv')
<1>1. panels' = panels /\ enabledApplets' = enabledApplets
  BY DEF ReloadXlet, panelVars
<1>2. CASE copies[uuid] = 0
  <2>1. UNCHANGED <<definitions, boxes, copies, modules>>
    BY <1>2 DEF ReloadXlet
  <2>2. AppletsTyped'
    BY <1>1, <2>1 DEF AppletsTyped
  <2>3. ASSUME AppletsInv PROVE AppletsInv'
    BY <1>1, <2>1, <2>3 DEF AppletsInv
  <2> QED BY <2>2, <2>3
<1>3. CASE copies[uuid] # 0
  <2> DEFINE q == definitions
             r == [k \in DOMAIN q |-> IF UuidOf[q[k].id] = uuid THEN TakeOff(q[k]) ELSE q[k]]
             gone == {d \in Range(q) : UuidOf[d.id] = uuid}
  <2>1. /\ definitions' = r /\ boxes' = boxes \ Shown(gone)
        /\ copies' = [copies EXCEPT ![uuid] = @ - 1] /\ modules' = modules \ {uuid}
    BY <1>3 DEF ReloadXlet
  <2>2. q \in Seq(Def) /\ copies \in [Uuids -> Nat] /\ modules \subseteq Uuids
    BY DEF AppletsTyped
  <2>3. DOMAIN r = DOMAIN q /\ r = [k \in DOMAIN q |-> r[k]]
        /\ \A k \in DOMAIN q : r[k] = IF UuidOf[q[k].id] = uuid THEN TakeOff(q[k]) ELSE q[k]
    OBVIOUS
  <2> HIDE DEF q, r
  <2>4. ASSUME NEW k \in DOMAIN q
        PROVE  /\ r[k] \in Def /\ q[k] \in Def
               /\ r[k].id = q[k].id /\ r[k].panel = q[k].panel /\ r[k].side = q[k].side
               /\ r[k].applet = IF UuidOf[q[k].id] = uuid THEN Nothing ELSE q[k].applet
    <3> DEFINE d == q[k]
               t == r[k]
    <3>1. d \in Def /\ t = IF UuidOf[d.id] = uuid THEN TakeOff(d) ELSE d
      BY <2>2, <2>3
    <3> HIDE DEF d, t
    <3>2. /\ t \in Def /\ t.id = d.id /\ t.panel = d.panel /\ t.side = d.side
          /\ t.applet = IF UuidOf[d.id] = uuid THEN Nothing ELSE d.applet
      BY <3>1, TakeOffIs
    <3> QED BY <3>1, <3>2 DEF d, t
  <2>5. r \in Seq(Def)
    BY <2>2, <2>3, <2>4, DefSeq
  <2>6. copies' \in [Uuids -> Nat] /\ modules' \subseteq Uuids
        /\ \A u \in Uuids : u # uuid => copies'[u] = copies[u]
    BY <1>3, <2>1, <2>2
  <2>7. AppletsTyped'
    BY <1>1, <2>1, <2>5, <2>6 DEF AppletsTyped
  <2>8. ASSUME AppletsInv PROVE AppletsInv'
    <3>1. /\ Uniq(q) /\ (\A u \in modules : copies[u] > 0)
          /\ (\A k \in DOMAIN q : AppletSound(q[k], panels, modules))
          /\ boxes = Shown(Range(q)) /\ Uniq(enabledApplets)
      BY <2>8 DEF AppletsInv, q
    <3>2. Uniq(r)
      BY <2>3, <2>4, <3>1 DEF Uniq
    <3>3. \A u \in modules' : copies'[u] > 0
      BY <2>1, <2>2, <2>6, <3>1
    <3>4. ASSUME NEW k \in DOMAIN r PROVE AppletSound(r[k], panels, modules \ {uuid})
      <4> DEFINE d == q[k]
                 t == r[k]
      <4>1. /\ t \in Def /\ d \in Def
            /\ t.id = d.id /\ t.panel = d.panel /\ t.side = d.side
            /\ t.applet = IF UuidOf[d.id] = uuid THEN Nothing ELSE d.applet
            /\ AppletSound(d, panels, modules)
        BY <2>3, <2>4, <3>1
      <4> HIDE DEF d, t
      <4>2. AppletSound(t, panels, modules \ {uuid})
        BY <4>1 DEF AppletSound
      <4> QED BY <4>2 DEF t
    <3>5. \A b : b \in Shown(Range(r)) <=> \E k \in DOMAIN r : r[k].applet # Nothing
                                                              /\ b = <<r[k].id, r[k].applet>>
      BY <2>5, ShownBy
    <3>6. \A b : b \in Shown(Range(q)) <=> \E k \in DOMAIN q : q[k].applet # Nothing
                                                              /\ b = <<q[k].id, q[k].applet>>
      BY <2>2, ShownBy
    <3>7. \A d : d \in gone <=> \E k \in DOMAIN q : d = q[k] /\ UuidOf[q[k].id] = uuid
      BY <2>2, DefsIs
    <3> HIDE DEF gone
    <3>8. \A b : b \in Shown(gone) <=> \E k \in DOMAIN q : /\ UuidOf[q[k].id] = uuid
                                                           /\ q[k].applet # Nothing
                                                           /\ b = <<q[k].id, q[k].applet>>
      BY <3>7, ShownIs
    <3>9. \A b : b \in boxes \ Shown(gone) <=> b \in Shown(Range(r))
      <4> SUFFICES ASSUME NEW b PROVE b \in boxes \ Shown(gone) <=> b \in Shown(Range(r))
        OBVIOUS
      <4>1. ASSUME b \in boxes \ Shown(gone) PROVE b \in Shown(Range(r))
        <5>1. PICK k \in DOMAIN q : q[k].applet # Nothing /\ b = <<q[k].id, q[k].applet>>
          BY <3>1, <3>6, <4>1
        <5>2. UuidOf[q[k].id] # uuid
          BY <3>8, <4>1, <5>1
        <5>3. k \in DOMAIN r /\ r[k].applet = q[k].applet /\ r[k].id = q[k].id
          BY <2>3, <2>4, <5>2
        <5> QED BY <3>5, <5>1, <5>3
      <4>2. ASSUME b \in Shown(Range(r)) PROVE b \in boxes \ Shown(gone)
        <5>1. PICK k \in DOMAIN r : r[k].applet # Nothing /\ b = <<r[k].id, r[k].applet>>
          BY <3>5, <4>2
        <5>2. k \in DOMAIN q /\ UuidOf[q[k].id] # uuid /\ r[k].applet = q[k].applet
              /\ r[k].id = q[k].id
          BY <2>3, <2>4, <5>1
        <5>3. b \in boxes
          BY <3>1, <3>6, <5>1, <5>2
        <5>4. ASSUME NEW j \in DOMAIN q, UuidOf[q[j].id] = uuid, b = <<q[j].id, q[j].applet>>
              PROVE  FALSE
          <6>1. q[j].id = q[k].id
            BY <5>1, <5>2, <5>4
          <6> QED BY <5>2, <5>4, <6>1
        <5> QED BY <3>8, <5>3, <5>4
      <4> QED BY <4>1, <4>2
    <3>10. boxes' = Shown(Range(r))
      BY <2>1, <3>9
    <3> QED BY <1>1, <2>1, <3>1, <3>2, <3>3, <3>4, <3>10 DEF AppletsInv
  <2> QED BY <2>7, <2>8
<1> QED BY <1>2, <1>3

-----------------------------------------------------------------------------
(* The applets follow the panels. *)

\* What AppletsFollow makes of a definition.
Followed(d) ==
    LET new  == DOMAIN panels' \ DOMAIN panels
        gone == DOMAIN panels \ DOMAIN panels'
    IN  CASE d.panel \in new -> LoadAppletsOnPanel(d)
          [] d.panel \in gone -> UnloadAppletsOnPanel(d)
          [] d.panel \in DOMAIN panels \cap DOMAIN panels' -> UpdateAppletsOnPanel(d)
          [] OTHER -> d

LEMMA AppletsFollowIs ==
  ASSUME AppletsFollow
  PROVE  LET new  == DOMAIN panels' \ DOMAIN panels
             gone == DOMAIN panels \ DOMAIN panels'
             added == {d \in Range(definitions) : d.panel \in new /\ CanCreate(d, new)}
         IN  /\ definitions' = [k \in DOMAIN definitions |-> Followed(definitions[k])]
             /\ boxes' = {b \in boxes : b[2] \notin gone} \cup {<<d.id, d.panel>> : d \in added}
             /\ UNCHANGED <<enabledApplets, copies, modules>>
             /\ configs \subseteq configs'
BY DEF AppletsFollow, Followed

LEMMA FollowedIs ==
  ASSUME NEW d \in Def, panels \in PlaceMaps, panels' \in PlaceMaps
  PROVE  LET t == Followed(d)
             on == d.panel \in DOMAIN panels' \ DOMAIN panels
                   /\ CanCreate(d, DOMAIN panels' \ DOMAIN panels)
             off == d.panel \in DOMAIN panels \ DOMAIN panels'
         IN  /\ t \in Def /\ t.id = d.id /\ t.panel = d.panel
             /\ d.panel \in DOMAIN panels' => t.side = panels'[d.panel][2]
             /\ on => t.applet = d.panel
             /\ off => t.applet = Nothing
             /\ ~on /\ ~off => t.applet = d.applet
<1> DEFINE t == Followed(d)
           p == d.panel
           s == panels'[p][2]
<1>1. CASE p \in DOMAIN panels' \ DOMAIN panels
  <2> DEFINE u == Turned(d, s)
  <2>1. t = IF CanCreate(d, DOMAIN panels') THEN PutOn(u) ELSE u
    BY <1>1 DEF Followed, LoadAppletsOnPanel, Turned
  <2>2. CanCreate(d, DOMAIN panels') <=> CanCreate(d, DOMAIN panels' \ DOMAIN panels)
    BY <1>1 DEF CanCreate
  <2>3. s \in Sides
    BY <1>1, PlaceSide
  <2> HIDE DEF t, s
  <2>4. u \in Def /\ u.id = d.id /\ u.panel = d.panel /\ u.side = s /\ u.applet = d.applet
    BY <2>3, TurnedIs
  <2> HIDE DEF u
  <2>5. PutOn(u) \in Def /\ PutOn(u).id = u.id /\ PutOn(u).panel = u.panel
        /\ PutOn(u).side = u.side /\ PutOn(u).applet = u.panel
    BY <2>4, PutOnIs
  <2>6. t \in Def /\ t.id = d.id /\ t.panel = d.panel /\ t.side = s
        /\ t.applet = IF CanCreate(d, DOMAIN panels') THEN d.panel ELSE d.applet
    BY <2>1, <2>4, <2>5
  <2> QED BY <1>1, <2>2, <2>6 DEF t, s
<1>2. CASE p \in DOMAIN panels \ DOMAIN panels'
  <2>1. t = TakeOff(d)
    BY <1>2 DEF Followed, UnloadAppletsOnPanel
  <2> QED BY <1>2, <2>1, TakeOffIs
<1>3. CASE p \in DOMAIN panels \cap DOMAIN panels'
  <2>1. t = Turned(d, s)
    BY <1>3 DEF Followed, UpdateAppletsOnPanel, Turned
  <2>2. s \in Sides
    BY <1>3, PlaceSide
  <2> HIDE DEF t, s
  <2>3. t \in Def /\ t.id = d.id /\ t.panel = d.panel /\ t.side = s /\ t.applet = d.applet
    BY <2>1, <2>2, TurnedIs
  <2> QED BY <1>3, <2>3 DEF t, s
<1>4. CASE p \notin DOMAIN panels /\ p \notin DOMAIN panels'
  <2>1. t = d
    BY <1>4 DEF Followed
  <2> QED BY <1>4, <2>1
<1> QED BY <1>1, <1>2, <1>3, <1>4

LEMMA FollowKeeps ==
  ASSUME PanelsTyped, PanelsTyped', AppletsTyped, AppletsFollow
  PROVE  AppletsTyped' /\ (AppletsInv => AppletsInv')
<1> DEFINE q == definitions
           r == [k \in DOMAIN q |-> Followed(q[k])]
           ps == panels'
           new == DOMAIN ps \ DOMAIN panels
           gone == DOMAIN panels \ DOMAIN ps
           added == {d \in Range(q) : d.panel \in new /\ CanCreate(d, new)}
           On(k) == q[k].panel \in new /\ CanCreate(q[k], new)
           Off(k) == q[k].panel \in gone
<1>1. /\ definitions' = r
      /\ boxes' = {b \in boxes : b[2] \notin gone} \cup {<<d.id, d.panel>> : d \in added}
      /\ UNCHANGED <<enabledApplets, copies, modules>>
  BY AppletsFollowIs
<1>2. /\ q \in Seq(Def) /\ panels \in PlaceMaps /\ ps \in PlaceMaps
      /\ DOMAIN panels \subseteq PanelIds /\ DOMAIN ps \subseteq PanelIds
  <2>1. panels \in PlaceMaps /\ ps \in PlaceMaps
    BY DEF PanelsTyped
  <2> HIDE DEF ps
  <2> QED BY <2>1, PlaceMapIs DEF AppletsTyped
<1>3. ASSUME NEW k \in DOMAIN q
      PROVE  /\ r[k] \in Def /\ q[k] \in Def /\ r[k].id = q[k].id /\ r[k].panel = q[k].panel
             /\ q[k].panel \in DOMAIN ps => r[k].side = ps[q[k].panel][2]
             /\ On(k) => r[k].applet = q[k].panel
             /\ Off(k) => r[k].applet = Nothing
             /\ ~On(k) /\ ~Off(k) => r[k].applet = q[k].applet
  <2> DEFINE d == q[k]
             t == Followed(d)
  <2>1. d \in Def
    BY <1>2
  <2>2. r[k] = t
    OBVIOUS
  <2> HIDE DEF d
  <2>3. /\ t \in Def /\ t.id = d.id /\ t.panel = d.panel
        /\ d.panel \in DOMAIN ps => t.side = ps[d.panel][2]
        /\ d.panel \in new /\ CanCreate(d, new) => t.applet = d.panel
        /\ d.panel \in gone => t.applet = Nothing
        /\ ~(d.panel \in new /\ CanCreate(d, new)) /\ ~(d.panel \in gone) => t.applet = d.applet
    BY <1>2, <2>1, FollowedIs
  <2> HIDE DEF t, r
  <2> QED BY <2>1, <2>2, <2>3 DEF d
<1>4. DOMAIN r = DOMAIN q /\ r = [k \in DOMAIN q |-> r[k]]
  OBVIOUS
<1>5. \A d : d \in added <=> \E k \in DOMAIN q : d = q[k] /\ On(k)
  <2>1. \A d : d \in Range(q) <=> \E k \in DOMAIN q : d = q[k]
    BY <1>2, DefsIs
  <2> HIDE DEF q, new
  <2> QED BY <2>1
<1> HIDE DEF q, r, added
<1>6. r \in Seq(Def)
  BY <1>2, <1>3, <1>4, DefSeq
<1>7. AppletsTyped'
  BY <1>1, <1>6 DEF AppletsTyped
<1>8. ASSUME AppletsInv PROVE AppletsInv'
  <2>1. /\ Uniq(q) /\ (\A u \in modules : copies[u] > 0)
        /\ (\A k \in DOMAIN q : AppletSound(q[k], panels, modules))
        /\ boxes = Shown(Range(q)) /\ Uniq(enabledApplets)
    BY <1>8 DEF AppletsInv, q
  <2>2. Uniq(r)
    BY <1>3, <1>4, <2>1 DEF Uniq
  <2>3. \A k \in DOMAIN q : On(k) => q[k].panel # Nothing
    BY <1>2, NothingIs
  <2>4. ASSUME NEW k \in DOMAIN r PROVE AppletSound(r[k], ps, modules)
    <3> DEFINE d == q[k]
               t == r[k]
               on == d.panel \in new /\ CanCreate(d, new)
    <3>1. /\ k \in DOMAIN q /\ d \in Def /\ t.id = d.id /\ t.panel = d.panel
          /\ d.panel \in DOMAIN ps => t.side = ps[d.panel][2]
          /\ on => t.applet = d.panel
          /\ d.panel \in gone => t.applet = Nothing
          /\ ~on /\ d.panel \notin gone => t.applet = d.applet
      BY <1>3, <1>4
    <3>2. AppletSound(d, panels, modules) /\ (on => d.panel # Nothing)
      BY <2>1, <2>3, <3>1
    <3> HIDE DEF d, t, ps
    <3>3. d.id \in AppletIds
      BY <3>1 DEF Def
    <3>4. ASSUME d.panel \in new, UuidOf[d.id] \in modules, FaultlessUuid(UuidOf[d.id])
          PROVE  on
      <4>1. copies[UuidOf[d.id]] > 0 /\ Fault[d.id] # "main"
        BY <2>1, <3>3, <3>4, FaultlessIs
      <4> QED BY <3>4, <4>1 DEF CanCreate
    <3>5. on => d.panel \in DOMAIN ps
      OBVIOUS
    <3>6. d.panel \in DOMAIN ps /\ d.panel \notin new => d.panel \in DOMAIN panels
      OBVIOUS
    <3>7. d.panel \in DOMAIN panels /\ d.panel \notin gone => d.panel \in DOMAIN ps
      OBVIOUS
    <3>8. d.panel \in gone => d.panel \notin DOMAIN ps
      OBVIOUS
    <3> HIDE DEF on, new, gone
    <3>9. AppletSound(t, ps, modules)
      BY <3>1, <3>2, <3>4, <3>5, <3>6, <3>7, <3>8 DEF AppletSound
    <3> QED BY <3>9 DEF t
  <2>5. \A b : b \in Shown(Range(r)) <=> \E k \in DOMAIN r : r[k].applet # Nothing
                                                            /\ b = <<r[k].id, r[k].applet>>
    BY <1>6, ShownBy
  <2>6. \A b : b \in Shown(Range(q)) <=> \E k \in DOMAIN q : q[k].applet # Nothing
                                                            /\ b = <<q[k].id, q[k].applet>>
    BY <1>2, ShownBy
  <2>7. \A b : b \in boxes' <=> \/ b \in boxes /\ b[2] \notin gone
                                \/ \E d \in added : b = <<d.id, d.panel>>
    BY <1>1
  <2>8. \A k \in DOMAIN q : /\ q[k].applet \in {Nothing, q[k].panel}
                            /\ On(k) => q[k].applet = Nothing
    <3> SUFFICES ASSUME NEW k \in DOMAIN q
                 PROVE  /\ q[k].applet \in {Nothing, q[k].panel}
                        /\ On(k) => q[k].applet = Nothing
      OBVIOUS
    <3>1. AppletSound(q[k], panels, modules)
      BY <2>1
    <3>2. On(k) => q[k].panel \notin DOMAIN panels
      OBVIOUS
    <3> QED BY <3>1, <3>2 DEF AppletSound
  <2>9. \A b : b \in boxes' <=> b \in Shown(Range(r))
    <3> SUFFICES ASSUME NEW b PROVE b \in boxes' <=> b \in Shown(Range(r))
      OBVIOUS
    <3> HIDE DEF new, gone, ps
    <3>1. ASSUME b \in boxes' PROVE b \in Shown(Range(r))
      <4>1. CASE b \in boxes /\ b[2] \notin gone
        <5>1. PICK k \in DOMAIN q : q[k].applet # Nothing /\ b = <<q[k].id, q[k].applet>>
          BY <2>1, <2>6, <4>1
        <5>2. q[k].applet = q[k].panel /\ ~On(k)
          BY <2>8, <5>1
        <5>3. q[k].panel \notin gone
          BY <4>1, <5>1, <5>2
        <5>4. k \in DOMAIN r /\ r[k].applet = q[k].applet /\ r[k].id = q[k].id
          BY <1>3, <1>4, <5>2, <5>3
        <5> QED BY <2>5, <5>1, <5>4
      <4>2. CASE \E d \in added : b = <<d.id, d.panel>>
        <5>1. PICK k \in DOMAIN q : On(k) /\ b = <<q[k].id, q[k].panel>>
          BY <1>5, <4>2
        <5>2. k \in DOMAIN r /\ r[k].applet = q[k].panel /\ r[k].id = q[k].id /\ q[k].panel # Nothing
          BY <1>3, <1>4, <2>3, <5>1
        <5> QED BY <2>5, <5>1, <5>2
      <4> QED BY <2>7, <3>1, <4>1, <4>2
    <3>2. ASSUME b \in Shown(Range(r)) PROVE b \in boxes'
      <4>1. PICK k \in DOMAIN r : r[k].applet # Nothing /\ b = <<r[k].id, r[k].applet>>
        BY <2>5, <3>2
      <4>2. k \in DOMAIN q /\ r[k].id = q[k].id
        BY <1>3, <1>4
      <4>3. CASE On(k)
        <5>1. r[k].applet = q[k].panel /\ q[k] \in added
          BY <1>3, <1>5, <4>2, <4>3
        <5> QED BY <2>7, <4>1, <4>2, <5>1
      <4>4. CASE ~On(k)
        <5>1. q[k].panel \notin gone /\ r[k].applet = q[k].applet
          BY <1>3, <4>1, <4>2, <4>4
        <5>2. q[k].applet = q[k].panel
          BY <2>8, <4>1, <4>2, <5>1
        <5>3. b \in boxes /\ b[2] = q[k].panel
          BY <2>1, <2>6, <4>1, <4>2, <5>1, <5>2
        <5> QED BY <2>7, <5>1, <5>3
      <4> QED BY <4>3, <4>4
    <3> QED BY <3>1, <3>2
  <2>10. boxes' = Shown(Range(r))
    <3> DEFINE B == boxes'
    <3>1. \A b : b \in B <=> b \in Shown(Range(r))
      BY <2>9
    <3> HIDE DEF B
    <3>2. B = Shown(Range(r))
      BY <3>1
    <3> QED BY <3>2 DEF B
  <2> QED BY <1>1, <2>1, <2>2, <2>4, <2>10 DEF AppletsInv
<1> QED BY <1>7, <1>8

-----------------------------------------------------------------------------
(* The system. *)

LEMMA NextPanels == [Next]_vars => [PanelsNext]_panelVars
<1> SUFFICES ASSUME [Next]_vars PROVE [PanelsNext]_panelVars
  OBVIOUS
<1>1. ASSUME NEW list, WriteKey(list) PROVE UNCHANGED panelVars
  BY <1>1 DEF WriteKey
<1>2. ASSUME NEW id, NEW panel, DropApplet(id, panel) PROVE UNCHANGED panelVars
  BY <1>1, <1>2 DEF DropApplet
<1>3. ASSUME NEW id, NEW panel, NEW slot, AddApplet(id, panel, slot) PROVE UNCHANGED panelVars
  BY <1>1, <1>3 DEF AddApplet
<1>4. ASSUME NEW id, RemoveApplet(id) PROVE UNCHANGED panelVars
  BY <1>1, <1>4 DEF RemoveApplet
<1>5. ASSUME NEW uuid, LoadEnds(uuid) \/ ReloadXlet(uuid) \/ DisableUuid(uuid)
      PROVE  UNCHANGED panelVars
  BY <1>1, <1>5 DEF LoadEnds, ReloadXlet, DisableUuid
<1>6. CASE Started
  BY <1>6 DEF Started
<1>7. CASE PanelStep
  BY <1>7 DEF PanelStep, PanelsNext
<1>8. CASE PanelDialogs
  BY <1>8 DEF PanelDialogs, PanelsNext
<1>9. CASE UNCHANGED vars
  BY <1>9 DEF vars
<1> QED BY <1>2, <1>3, <1>4, <1>5, <1>6, <1>7, <1>8, <1>9 DEF Next

\* Under the applets, the panel manager does what it does alone.
THEOREM PanelsOfApplets == Spec => PanelsSpec
BY NextPanels, PTL DEF Spec, Init, PanelsSpec

LEMMA DialogsKeepPanels ==
  ASSUME PanelDialogs
  PROVE  UNCHANGED <<panels, enabledApplets, definitions, boxes, copies, modules>>
BY DEF PanelDialogs, AddPanelQuery, MovePanelQuery, AskForPlace, AskToRemove,
       CloseDummies, KeepPanel

LEMMA AppletsInit ==
  ASSUME Init, PanelsTyped
  PROVE  AppletsTyped /\ (Uniq(InitialApplets) => AppletsInv)
<1> DEFINE list == InitialApplets
           q == [k \in DOMAIN list |-> Definition(list[k])]
<1>1. /\ enabledApplets = list /\ definitions = q /\ boxes = {} /\ modules = {}
      /\ copies = [u \in Uuids |-> 0]
  BY DEF Init
<1>2. list \in Seq(AppletEntry)
  BY AppletsAssumption DEF AppletEntry
<1>3. DOMAIN q = DOMAIN list /\ q = [k \in DOMAIN list |-> q[k]]
      /\ \A k \in DOMAIN list : q[k] = Definition(list[k])
  OBVIOUS
<1> HIDE DEF list, q
<1>4. ASSUME NEW k \in DOMAIN list
      PROVE  /\ q[k] \in Def /\ q[k].id = list[k].id /\ q[k].applet = Nothing
             /\ q[k].panel \in DOMAIN panels => q[k].side = panels[q[k].panel][2]
  <2> DEFINE e == list[k]
             d == q[k]
  <2>1. e \in AppletEntry /\ d = Definition(e) /\ panels \in PlaceMaps
    BY <1>2, <1>3 DEF PanelsTyped
  <2> HIDE DEF e, d
  <2>2. /\ d \in Def /\ d.id = e.id /\ d.applet = Nothing
        /\ d.panel \in DOMAIN panels => d.side = panels[d.panel][2]
    BY <2>1, DefinitionIs
  <2> QED BY <2>2 DEF e, d
<1>5. q \in Seq(Def)
  <2>1. DOMAIN list = 1 .. Len(list) /\ Len(list) \in Nat
    BY <1>2
  <2>2. q \in [1 .. Len(list) -> Def]
    BY <1>3, <1>4, <2>1
  <2> QED BY <2>1, <2>2
<1>6. AppletsTyped
  BY <1>1, <1>2, <1>5 DEF AppletsTyped
<1>7. ASSUME Uniq(list) PROVE AppletsInv
  <2>1. Uniq(q)
    BY <1>3, <1>4, <1>7 DEF Uniq
  <2>2. \A k \in DOMAIN q : AppletSound(q[k], panels, {})
    BY <1>3, <1>4 DEF AppletSound
  <2>3. \A b : b \notin Shown(Range(q))
    BY <1>3, <1>4, <1>5, ShownBy
  <2>4. Shown(Range(q)) = {}
    BY <2>3
  <2> QED BY <1>1, <1>7, <2>1, <2>2, <2>4 DEF AppletsInv
<1> QED BY <1>6, <1>7 DEF list

LEMMA AppletsStep ==
  ASSUME PanelsTyped, PanelsTyped', AppletsTyped, [Next]_vars
  PROVE  AppletsTyped' /\ (AppletsInv => AppletsInv')
<1> DEFINE Goal == AppletsTyped' /\ (AppletsInv => AppletsInv')
<1>0. KeyWritten => Goal
  BY WriteKeyKeeps DEF KeyWritten
<1>1. ASSUME NEW id \in AppletIds, NEW panel, DropApplet(id, panel) PROVE Goal
  BY <1>0, <1>1, DropAppletWrites
<1>2. ASSUME NEW id \in AppletIds, NEW panel, NEW slot \in Slots, AddApplet(id, panel, slot)
      PROVE  Goal
  BY <1>0, <1>2, AddAppletWrites
<1>3. ASSUME NEW id, RemoveApplet(id) PROVE Goal
  BY <1>0, <1>3, KeepingWrites DEF RemoveApplet
<1>4. ASSUME NEW uuid, DisableUuid(uuid) PROVE Goal
  BY <1>0, <1>4, KeepingWrites DEF DisableUuid
<1>5. ASSUME NEW uuid \in Uuids, LoadEnds(uuid) PROVE Goal
  BY <1>5, LoadEndsKeeps
<1>6. ASSUME NEW uuid \in Uuids, ReloadXlet(uuid) PROVE Goal
  BY <1>6, ReloadKeeps
<1>7. ASSUME UNCHANGED <<panels, enabledApplets, definitions, boxes, copies, modules>>
      PROVE  Goal
  <2>1. AppletsTyped'
    BY <1>7 DEF AppletsTyped
  <2>2. ASSUME AppletsInv PROVE AppletsInv'
    BY <1>7, <2>2 DEF AppletsInv
  <2> QED BY <2>1, <2>2
<1>8. ASSUME Started PROVE Goal
  BY <1>7, <1>8 DEF Started, panelVars
<1>9. ASSUME PanelStep PROVE Goal
  BY <1>9, FollowKeeps DEF PanelStep
<1>10. ASSUME PanelDialogs PROVE Goal
  BY <1>7, <1>10, DialogsKeepPanels
<1>11. ASSUME UNCHANGED vars PROVE Goal
  BY <1>7, <1>11 DEF vars, panelVars, appletVars
<1> HIDE DEF Goal
<1>12. Goal
  <2>1. ASSUME NEW id \in AppletIds, NEW panel \in Ids(panelsEnabled),
               DropApplet(id, panel) \/ \E slot \in Slots : AddApplet(id, panel, slot)
        PROVE  Goal
    BY <2>1, <1>1, <1>2
  <2>2. ASSUME NEW uuid \in Uuids, LoadEnds(uuid) \/ ReloadXlet(uuid) \/ DisableUuid(uuid)
        PROVE  Goal
    BY <2>2, <1>4, <1>5, <1>6
  <2>3. CASE Next
    <3>1. \/ \E id \in AppletIds : \E panel \in Ids(panelsEnabled) :
                DropApplet(id, panel) \/ \E slot \in Slots : AddApplet(id, panel, slot)
          \/ \E id \in AppletIds : RemoveApplet(id)
          \/ \E uuid \in Uuids : LoadEnds(uuid) \/ ReloadXlet(uuid) \/ DisableUuid(uuid)
          \/ Started \/ PanelStep \/ PanelDialogs
      BY <2>3 DEF Next
    <3> QED BY ONLY <3>1, <2>1, <2>2, <1>3, <1>8, <1>9, <1>10
  <2> QED BY <2>3, <1>11
<1> QED BY <1>12 DEF Goal

LEMMA TypedAlways == Spec => [](PanelsTyped /\ AppletsTyped)
<1>1. Spec => []PanelsTyped
  BY PanelsOfApplets, PanelsTypedAlways, PTL
<1>2. Init /\ PanelsTyped => AppletsTyped
  BY AppletsInit
<1>3. PanelsTyped /\ PanelsTyped' /\ AppletsTyped /\ [Next]_vars => AppletsTyped'
  BY AppletsStep
<1> QED BY <1>1, <1>2, <1>3, PTL DEF Spec

\* The invariant of the applets, for a key that has no applet twice at the start.
THEOREM AppletsInvAlways ==
  ASSUME Uniq(InitialApplets)
  PROVE  Spec => []AppletsInv
<1>1. Init /\ PanelsTyped => AppletsInv
  BY AppletsInit
<1>2. PanelsTyped /\ PanelsTyped' /\ AppletsTyped /\ AppletsInv /\ [Next]_vars => AppletsInv'
  BY AppletsStep
<1> QED BY <1>1, <1>2, TypedAlways, PTL DEF Spec

LEMMA InvAppletsOnPanels == AppletsTyped /\ AppletsInv => AppletsOnPanels
<1> SUFFICES ASSUME AppletsTyped, AppletsInv PROVE AppletsOnPanels
  OBVIOUS
<1> DEFINE q == definitions
<1>1. q \in Seq(Def) /\ boxes = Shown(Range(q))
      /\ \A k \in DOMAIN q : AppletSound(q[k], panels, modules)
  BY DEF AppletsTyped, AppletsInv
<1> HIDE DEF q
<1>2. ASSUME NEW d \in Range(q)
      PROVE  /\ d.applet \in {Nothing, d.panel}
             /\ d.applet # Nothing => d.panel \in DOMAIN panels /\ d.side = panels[d.panel][2]
  <2>1. PICK k \in DOMAIN q : d = q[k]
    BY <1>1, DefsIs
  <2>2. AppletSound(d, panels, modules)
    BY <1>1, <2>1
  <2> QED BY <2>2 DEF AppletSound
<1>3. \A b \in boxes : b[2] \in DOMAIN panels
  <2> SUFFICES ASSUME NEW b \in boxes PROVE b[2] \in DOMAIN panels
    OBVIOUS
  <2>1. PICK d \in Range(q) : d.applet # Nothing /\ b = <<d.id, d.applet>>
    BY <1>1, ShownIs
  <2> QED BY <1>2, <2>1
<1>4. \A d \in Range(q) : d.applet # Nothing => d.side = panels[d.applet][2]
  BY <1>2
<1> QED BY <1>1, <1>2, <1>3, <1>4 DEF AppletsOnPanels, q

\* What the boxes show are the applets of the definitions, each on its panel, which
\* exists, and turned as it is.
THEOREM AppletsOnPanelsAlways ==
  ASSUME Uniq(InitialApplets)
  PROVE  Spec => []AppletsOnPanels
BY AppletsInvAlways, TypedAlways, InvAppletsOnPanels, PTL

LEMMA InvNoAppletForgotten == AppletsTyped /\ AppletsInv => NoAppletForgotten
<1> SUFFICES ASSUME AppletsTyped, AppletsInv PROVE NoAppletForgotten
  OBVIOUS
<1>1. \A k \in DOMAIN definitions : AppletSound(definitions[k], panels, modules)
  BY DEF AppletsInv
<1>2. \A d \in Range(definitions) : AppletSound(d, panels, modules)
  BY <1>1, DefsIs DEF AppletsTyped
<1> QED BY <1>2 DEF NoAppletForgotten, AppletSound

\* An applet whose module is loaded and whose panel exists is shown.
THEOREM NoAppletForgottenAlways ==
  ASSUME Uniq(InitialApplets)
  PROVE  Spec => []NoAppletForgotten
BY AppletsInvAlways, TypedAlways, InvNoAppletForgotten, PTL

\* No step deletes the settings of an applet that stays in the key.
LEMMA ConfigStep ==
  ASSUME PanelsTyped, AppletsTyped, [Next]_vars
  PROVE  \A i \in configs \ configs' : i \notin Ids(enabledApplets')
<1> DEFINE Goal == \A i \in configs \ configs' : i \notin Ids(enabledApplets')
<1>1. ASSUME NEW list \in Seq(AppletEntry), WriteKey(list) PROVE Goal
  <2>1. CASE started
    <3> DEFINE new == GetDefinitions(list)
    <3>1. enabledApplets' = list /\ OnEnabledAppletsChanged(list)
      BY <1>1, <2>1 DEF WriteKey
    <3>2. Ids(new) = Ids(list)
      BY NewDefs
    <3>3. configs' = (configs \ DeletesConfig(new))
                     \cup {AfterOf(new)[k].id : k \in AddedOf(new)}
      BY <3>1, WatchedKeyIs
    <3> HIDE DEF new
    <3>4. \A i \in DeletesConfig(new) : i \notin Ids(new)
      BY DEF DeletesConfig, Dropped, Moved
    <3> QED BY <3>1, <3>2, <3>3, <3>4
  <2>2. CASE ~started
    BY <1>1, <2>2 DEF WriteKey
  <2> QED BY <2>1, <2>2
<1>2. configs \subseteq configs' => Goal
  OBVIOUS
<1> HIDE DEF Goal
<1>3. KeyWritten => Goal
  BY <1>1 DEF KeyWritten
<1>4. ASSUME NEW id \in AppletIds, NEW panel, DropApplet(id, panel) PROVE Goal
  BY <1>3, <1>4, DropAppletWrites
<1>5. ASSUME NEW id \in AppletIds, NEW panel, NEW slot \in Slots, AddApplet(id, panel, slot)
      PROVE  Goal
  BY <1>3, <1>5, AddAppletWrites
<1>6. ASSUME NEW id, RemoveApplet(id) PROVE Goal
  BY <1>3, <1>6, KeepingWrites DEF RemoveApplet
<1>7. ASSUME NEW uuid, DisableUuid(uuid) PROVE Goal
  BY <1>3, <1>7, KeepingWrites DEF DisableUuid
<1>8. ASSUME NEW uuid, LoadEnds(uuid) PROVE Goal
  BY <1>2, <1>8 DEF LoadEnds
<1>9. ASSUME NEW uuid, ReloadXlet(uuid) PROVE Goal
  BY <1>2, <1>9 DEF ReloadXlet
<1>10. ASSUME Started PROVE Goal
  BY <1>2, <1>10 DEF Started
<1>11. ASSUME PanelStep PROVE Goal
  BY <1>2, <1>11, AppletsFollowIs DEF PanelStep
<1>12. ASSUME PanelDialogs PROVE Goal
  BY <1>2, <1>12 DEF PanelDialogs
<1>13. ASSUME UNCHANGED vars PROVE Goal
  BY <1>2, <1>13 DEF vars, appletVars
<1>14. Goal
  <2>1. ASSUME NEW id \in AppletIds, NEW panel \in Ids(panelsEnabled),
               DropApplet(id, panel) \/ \E slot \in Slots : AddApplet(id, panel, slot)
        PROVE  Goal
    BY <2>1, <1>4, <1>5
  <2>2. ASSUME NEW uuid \in Uuids, LoadEnds(uuid) \/ ReloadXlet(uuid) \/ DisableUuid(uuid)
        PROVE  Goal
    BY <2>2, <1>7, <1>8, <1>9
  <2>3. CASE Next
    <3>1. \/ \E id \in AppletIds : \E panel \in Ids(panelsEnabled) :
                DropApplet(id, panel) \/ \E slot \in Slots : AddApplet(id, panel, slot)
          \/ \E id \in AppletIds : RemoveApplet(id)
          \/ \E uuid \in Uuids : LoadEnds(uuid) \/ ReloadXlet(uuid) \/ DisableUuid(uuid)
          \/ Started \/ PanelStep \/ PanelDialogs
      BY <2>3 DEF Next
    <3> QED BY ONLY <3>1, <2>1, <2>2, <1>6, <1>10, <1>11, <1>12
  <2> QED BY <2>3, <1>13
<1> QED BY <1>14 DEF Goal

\* Whatever the session finds: the settings of an applet go only when it leaves the key.
THEOREM ConfigKeptAlways == Spec => ConfigKept
BY TypedAlways, ConfigStep, PTL DEF Spec, ConfigKept

=============================================================================
