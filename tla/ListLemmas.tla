----------------------------- MODULE ListLemmas -----------------------------
(***************************************************************************)
(* What the proofs about several components need to know of sequences:     *)
(* induction, folds from the left, positions, and what is left of a queue  *)
(* when one element is spliced out of it.                                  *)
(***************************************************************************)
EXTENDS SequencesExt, FiniteSetTheorems, SequenceTheorems, TLAPS

-----------------------------------------------------------------------------
(* Induction *)

\* Induction over the natural numbers, for a set in place of a predicate: a least
\* number that is not in the set has a predecessor that is not either.
LEMMA NatInduct ==
  ASSUME NEW S, 0 \in S, \A n \in Nat : n \in S => n + 1 \in S
  PROVE  \A n \in Nat : n \in S
<1> DEFINE R == {ss \in Nat \X Nat : ss[1] < ss[2]}
           T == Nat \ S
<1>1. SUFFICES ASSUME T # {} PROVE FALSE
  OBVIOUS
<1>2. \E x \in T : \A y \in T : ~(<<y, x>> \in R)
  <2>1. IsWellFoundedOn(R, Nat)
    BY NatLessThanWellFounded DEF OpToRel
  <2> HIDE DEF R
  <2>2. T \subseteq Nat
    OBVIOUS
  <2> HIDE DEF T
  <2> QED BY <1>1, <2>1, <2>2, WFMin
<1>3. PICK x \in T : \A y \in T : ~(<<y, x>> \in R)
  BY <1>2
<1>4. x \in Nat /\ x # 0 /\ x - 1 \in Nat
  OBVIOUS
<1>5. <<x - 1, x>> \in R
  BY <1>4
<1>6. x - 1 \in S
  BY <1>3, <1>4, <1>5
<1> QED BY <1>4, <1>6

\* Induction up to a bound, for what holds after each step of a fold.
LEMMA StepsInduct ==
  ASSUME NEW n \in Nat, NEW S, 0 \in S, \A k \in 1 .. n : k - 1 \in S => k \in S
  PROVE  \A k \in 0 .. n : k \in S
<1> DEFINE T == {k \in Nat : k <= n => k \in S}
<1>1. 0 \in T
  OBVIOUS
<1>2. ASSUME NEW k \in Nat, k \in T PROVE k + 1 \in T
  <2>1. k + 1 \in Nat /\ (k + 1) - 1 = k
    OBVIOUS
  <2>2. ASSUME k + 1 <= n PROVE k + 1 \in S
    <3>1. k + 1 \in 1 .. n /\ k \in S
      BY <1>2, <2>2
    <3> QED BY <2>1, <3>1
  <2> QED BY <2>1, <2>2
<1> HIDE DEF T
<1>3. \A k \in Nat : k \in T
  BY <1>1, <1>2, NatInduct
<1> QED BY <1>3 DEF T

\* A set of positions has a last one.
LEMMA MaxIsLast ==
  ASSUME NEW n \in Nat, NEW s \in SUBSET (1 .. n), s # {}
  PROVE  Max(s) \in s /\ \A y \in s : y <= Max(s)
<1> DEFINE S == {m \in Nat : \A t \in SUBSET (1 .. m) :
                    t # {} => \E x \in t : \A y \in t : x >= y}
<1>1. 0 \in S
  <2>1. \A t \in SUBSET (1 .. 0) : t = {}
    OBVIOUS
  <2> QED BY <2>1
<1>2. ASSUME NEW m \in Nat, m \in S PROVE m + 1 \in S
  <2> SUFFICES ASSUME NEW t \in SUBSET (1 .. (m + 1)), t # {}
               PROVE  \E x \in t : \A y \in t : x >= y
    OBVIOUS
  <2>1. CASE m + 1 \in t
    BY <2>1
  <2>2. CASE m + 1 \notin t
    <3>1. t \in SUBSET (1 .. m)
      BY <2>2
    <3> QED BY <1>2, <3>1
  <2> QED BY <2>1, <2>2
<1> HIDE DEF S
<1>3. n \in S
  BY <1>1, <1>2, NatInduct
<1>4. \E x \in s : \A y \in s : x >= y
  BY <1>3 DEF S
<1> QED BY <1>4 DEF Max

-----------------------------------------------------------------------------
(* Positions *)

\* A set of positions has a first one.
LEMMA MinIsFirst ==
  ASSUME NEW n \in Nat, NEW s \in SUBSET (1 .. n), s # {}
  PROVE  Min(s) \in s /\ \A y \in s : Min(s) <= y
<1> DEFINE t == {i \in 1 .. n : n + 1 - i \in s}
<1>1. t \in SUBSET (1 .. n) /\ t # {}
  <2>1. PICK i \in s : TRUE
    OBVIOUS
  <2>2. n + 1 - i \in 1 .. n /\ n + 1 - (n + 1 - i) = i
    BY <2>1
  <2> QED BY <2>1, <2>2
<1>2. Max(t) \in t /\ \A y \in t : y <= Max(t)
  <2> HIDE DEF t
  <2> QED BY <1>1, MaxIsLast
<1> DEFINE x == n + 1 - Max(t)
<1>3. x \in s
  BY <1>2
<1>4. ASSUME NEW y \in s PROVE x <= y
  <2>1. n + 1 - y \in 1 .. n /\ n + 1 - (n + 1 - y) = y
    BY <1>4
  <2>2. n + 1 - y \in t
    BY <2>1
  <2>3. n + 1 - y <= Max(t) /\ Max(t) \in 1 .. n
    BY <1>2, <2>2
  <2> QED BY <2>3
<1> QED BY <1>3, <1>4 DEF Min

\* A finite set, as a sequence, has each of its elements once.
LEMMA SetToSeqLists ==
  ASSUME NEW S, IsFiniteSet(S)
  PROVE  /\ SetToSeq(S) \in Seq(S)
         /\ IsInjective(SetToSeq(S))
         /\ ToSet(SetToSeq(S)) = S
<1> DEFINE n == Cardinality(S)
           f == SetToSeq(S)
<1>1. n \in Nat /\ ExistsBijection(1 .. n, S)
  BY FS_CardinalityType
<1>2. PICK g : g \in Bijection(1 .. n, S)
  BY <1>1 DEF ExistsBijection
<1>3. g \in [1 .. n -> S] /\ IsInjective(g)
  BY <1>2 DEF Bijection, Injection
<1>4. f \in [1 .. n -> S] /\ IsInjective(f)
  BY <1>3 DEF SetToSeq
<1> HIDE DEF f
<1>5. f \in Injection(1 .. n, S)
  BY <1>4 DEF Injection
<1>6. IsFiniteSet(1 .. n) /\ Cardinality(1 .. n) = n
  BY <1>1, FS_Interval
<1>7. f \in Surjection(1 .. n, S)
  BY <1>5, <1>6, FS_Injection
<1>8. \A x \in S : \E i \in 1 .. n : f[i] = x
  BY <1>7 DEF Surjection
<1>9. f \in Seq(S) /\ DOMAIN f = 1 .. n
  BY <1>1, <1>4
<1>10. ToSet(f) = S
  BY <1>4, <1>8, <1>9 DEF ToSet
<1> QED BY <1>4, <1>9, <1>10 DEF f

-----------------------------------------------------------------------------
(* Folds *)

\* The recursion by which the community modules fold a sequence from the left.
FoldEq(it, step, base, seq, n) ==
  it = [s \in SUBSET (1 .. n) |->
          IF s = {} THEN base ELSE step[<<it[s \ {Max(s)}], seq[Max(s)]>>]]

\* It has a solution.
LEMMA FoldExists ==
  ASSUME NEW X, NEW E, NEW step \in [X \X E -> X], NEW base \in X,
         NEW n \in Nat, NEW seq \in [1 .. n -> E]
  PROVE  \E it \in [SUBSET (1 .. n) -> X] : FoldEq(it, step, base, seq, n)
<1> DEFINE S == {m \in Nat : \A q \in [1 .. m -> E] :
                    \E it \in [SUBSET (1 .. m) -> X] : FoldEq(it, step, base, q, m)}
<1>1. 0 \in S
  <2> SUFFICES ASSUME NEW q \in [1 .. 0 -> E]
               PROVE  \E it \in [SUBSET (1 .. 0) -> X] : FoldEq(it, step, base, q, 0)
    OBVIOUS
  <2> DEFINE it == [s \in SUBSET (1 .. 0) |-> base]
  <2>1. it \in [SUBSET (1 .. 0) -> X]
    OBVIOUS
  <2>2. \A s \in SUBSET (1 .. 0) : s = {}
    OBVIOUS
  <2>3. FoldEq(it, step, base, q, 0)
    BY <2>2 DEF FoldEq
  <2> QED BY <2>1, <2>3
<1>2. ASSUME NEW m \in Nat, m \in S PROVE m + 1 \in S
  <2>0. m + 1 \in Nat
    OBVIOUS
  <2> SUFFICES ASSUME NEW q \in [1 .. (m + 1) -> E]
               PROVE  \E it \in [SUBSET (1 .. (m + 1)) -> X] : FoldEq(it, step, base, q, m + 1)
    BY <2>0, Zenon
  <2> DEFINE p == [i \in 1 .. m |-> q[i]]
  <2>1. p \in [1 .. m -> E]
    OBVIOUS
  <2>2. PICK jt \in [SUBSET (1 .. m) -> X] : FoldEq(jt, step, base, p, m)
    BY <1>2, <2>1
  <2> DEFINE it == [s \in SUBSET (1 .. (m + 1)) |->
                      IF m + 1 \in s THEN step[<<jt[s \ {m + 1}], q[m + 1]>>] ELSE jt[s]]
  <2>3. ASSUME NEW s \in SUBSET (1 .. (m + 1))
        PROVE  /\ it[s] \in X
               /\ it[s] = IF s = {} THEN base ELSE step[<<it[s \ {Max(s)}], q[Max(s)]>>]
    <3>1. CASE m + 1 \in s
      <4>1. s \ {m + 1} \in SUBSET (1 .. m) /\ m + 1 \notin s \ {m + 1}
        OBVIOUS
      <4>2. Max(s) = m + 1
        <5>1. m + 1 \in Nat /\ s # {}
          BY <3>1
        <5>2. Max(s) \in s /\ \A y \in s : y <= Max(s)
          BY <5>1, MaxIsLast
        <5>3. Max(s) \in 1 .. (m + 1) /\ m + 1 <= Max(s)
          BY <3>1, <5>2
        <5> QED BY <5>3
      <4>3. it[s \ {m + 1}] = jt[s \ {m + 1}] /\ jt[s \ {m + 1}] \in X
        BY <4>1
      <4>4. it[s] = step[<<jt[s \ {m + 1}], q[m + 1]>>]
        BY <3>1
      <4>5. q[m + 1] \in E
        OBVIOUS
      <4> QED BY <3>1, <4>2, <4>3, <4>4, <4>5
    <3>2. CASE m + 1 \notin s
      <4>1. s \in SUBSET (1 .. m) /\ it[s] = jt[s] /\ jt[s] \in X
        BY <3>2
      <4>2. CASE s = {}
        BY <2>2, <4>1, <4>2 DEF FoldEq
      <4>3. CASE s # {}
        <5>1. Max(s) \in s
          BY <4>1, <4>3, MaxIsLast
        <5>2. s \ {Max(s)} \in SUBSET (1 .. m) /\ Max(s) \in 1 .. m
          BY <4>1, <5>1
        <5>3. it[s \ {Max(s)}] = jt[s \ {Max(s)}] /\ p[Max(s)] = q[Max(s)]
          BY <5>2
        <5>4. jt[s] = step[<<jt[s \ {Max(s)}], p[Max(s)]>>]
          BY <2>2, <4>1, <4>3 DEF FoldEq
        <5> QED BY <4>1, <4>3, <5>3, <5>4
      <4> QED BY <4>2, <4>3
    <3> QED BY <3>1, <3>2
  <2>4. it \in [SUBSET (1 .. (m + 1)) -> X]
    BY <2>3
  <2> HIDE DEF it
  <2>5. DOMAIN it = SUBSET (1 .. (m + 1)) /\ it = [s \in DOMAIN it |-> it[s]]
    BY <2>4
  <2>6. FoldEq(it, step, base, q, m + 1)
    BY <2>3, <2>5 DEF FoldEq
  <2> QED BY <2>4, <2>6
<1> HIDE DEF S
<1>3. n \in S
  BY <1>1, <1>2, NatInduct
<1> QED BY <1>3 DEF S

\* Along the prefixes of the sequence the solution takes one step after the other.
LEMMA FoldSteps ==
  ASSUME NEW n \in Nat
  PROVE  /\ 1 .. n \in SUBSET (1 .. n)
         /\ \A k \in 1 .. n : /\ 1 .. k \in SUBSET (1 .. n)
                              /\ 1 .. k # {}
                              /\ Max(1 .. k) = k
                              /\ (1 .. k) \ {k} = 1 .. (k - 1)
<1> SUFFICES ASSUME NEW k \in 1 .. n
             PROVE  /\ 1 .. k \in SUBSET (1 .. n)
                    /\ 1 .. k # {}
                    /\ Max(1 .. k) = k
                    /\ (1 .. k) \ {k} = 1 .. (k - 1)
  OBVIOUS
<1>1. 1 .. k \in SUBSET (1 .. n) /\ k \in 1 .. k /\ (1 .. k) \ {k} = 1 .. (k - 1)
  OBVIOUS
<1>2. Max(1 .. k) \in 1 .. k /\ k <= Max(1 .. k)
  BY <1>1, MaxIsLast
<1> QED BY <1>1, <1>2

-----------------------------------------------------------------------------
(* Splicing *)

\* The sequence q without its element i, as splice(i, 1) leaves it.
Without(q, i) == SubSeq(q, 1, i - 1) \o SubSeq(q, i + 1, Len(q))

\* The position in q of the element at position k of Without(q, i).
Skip(i, k) == IF k < i THEN k ELSE k + 1

\* Lengths and elements of the spliced sequence.
LEMMA WithoutElements ==
    ASSUME NEW S, NEW q \in Seq(S), NEW i \in 1..Len(q)
    PROVE  /\ Without(q, i) \in Seq(S)
           /\ Len(Without(q, i)) = Len(q) - 1
           /\ \A k \in 1..(Len(q) - 1) : Without(q, i)[k] = q[Skip(i, k)]
<1> DEFINE a == SubSeq(q, 1, i - 1)
           b == SubSeq(q, i + 1, Len(q))
<1>0. Len(q) \in Nat /\ \A k \in 1..Len(q) : q[k] \in S
  OBVIOUS
<1>1. a \in Seq(S) /\ Len(a) = i - 1 /\ \A k \in 1..(i - 1) : a[k] = q[k]
  <2>1. \A k \in 1..(i - 1) : q[k] \in S
    BY <1>0
  <2>2. /\ a \in Seq(S)
        /\ Len(a) = IF 1 <= i - 1 THEN (i - 1) - 1 + 1 ELSE 0
        /\ \A k \in 1..((i - 1) - 1 + 1) : a[k] = q[1 + k - 1]
    BY <1>0, <2>1, SubSeqProperties
  <2> QED BY <1>0, <2>2
<1>2. b \in Seq(S) /\ Len(b) = Len(q) - i /\ \A k \in 1..(Len(q) - i) : b[k] = q[k + i]
  <2>1. \A k \in (i + 1)..Len(q) : q[k] \in S
    BY <1>0
  <2>2. /\ b \in Seq(S)
        /\ Len(b) = IF i + 1 <= Len(q) THEN Len(q) - (i + 1) + 1 ELSE 0
        /\ \A k \in 1..(Len(q) - (i + 1) + 1) : b[k] = q[(i + 1) + k - 1]
    BY <1>0, <2>1, SubSeqProperties
  <2> QED BY <1>0, <2>2
<1> HIDE DEF a, b
<1>3. /\ a \o b \in Seq(S)
      /\ Len(a \o b) = Len(a) + Len(b)
      /\ \A k \in 1..(Len(a) + Len(b)) :
            (a \o b)[k] = IF k <= Len(a) THEN a[k] ELSE b[k - Len(a)]
  BY <1>1, <1>2, ConcatProperties
<1>4. Without(q, i) = a \o b
  BY DEF Without, a, b
<1>5. ASSUME NEW k \in 1..(Len(q) - 1)
      PROVE  (a \o b)[k] = q[Skip(i, k)]
  <2>1. CASE k < i
    <3>1. (a \o b)[k] = a[k]
      BY <1>0, <1>1, <1>2, <1>3, <2>1
    <3>2. k \in 1..(i - 1) /\ Skip(i, k) = k
      BY <1>0, <2>1 DEF Skip
    <3> QED BY <1>1, <3>1, <3>2
  <2>2. CASE ~(k < i)
    <3>1. (a \o b)[k] = b[k - (i - 1)]
      BY <1>0, <1>1, <1>2, <1>3, <2>2
    <3>2. k - (i - 1) \in 1..(Len(q) - i) /\ (k - (i - 1)) + i = k + 1
      BY <1>0, <2>2
    <3>3. Skip(i, k) = k + 1
      BY <2>2 DEF Skip
    <3>4. b[k - (i - 1)] = q[(k - (i - 1)) + i]
      BY <1>2, <3>2
    <3>5. (k - (i - 1)) + i = k + 1
      BY <3>2
    <3> QED BY <3>1, <3>3, <3>4, <3>5
  <2> QED BY <2>1, <2>2
<1>6. Len(a) + Len(b) = Len(q) - 1
  BY <1>0, <1>1, <1>2
<1> QED BY <1>3, <1>4, <1>5, <1>6

\* The remaining positions of q and those of Without(q, i) are one to one.
LEMMA WithoutPositions ==
    ASSUME NEW S, NEW q \in Seq(S), NEW i \in DOMAIN q
    PROVE  /\ Without(q, i) \in Seq(S)
           /\ \A k \in DOMAIN Without(q, i) :
                 /\ Skip(i, k) \in DOMAIN q
                 /\ Skip(i, k) # i
                 /\ Without(q, i)[k] = q[Skip(i, k)]
           /\ \A k, l \in DOMAIN Without(q, i) : Skip(i, k) = Skip(i, l) => k = l
           /\ \A m \in DOMAIN q : m # i => \E k \in DOMAIN Without(q, i) : Skip(i, k) = m
<1>1. Len(q) \in Nat /\ DOMAIN q = 1..Len(q) /\ i \in 1..Len(q)
  OBVIOUS
<1>2. /\ Without(q, i) \in Seq(S)
      /\ Len(Without(q, i)) = Len(q) - 1
      /\ \A k \in 1..(Len(q) - 1) : Without(q, i)[k] = q[Skip(i, k)]
  BY <1>1, WithoutElements
<1>3. DOMAIN Without(q, i) = 1..(Len(q) - 1)
  BY <1>2
<1>4. \A k \in 1..(Len(q) - 1) : Skip(i, k) \in 1..Len(q) /\ Skip(i, k) # i
  BY <1>1 DEF Skip
<1>5. \A k, l \in 1..(Len(q) - 1) : Skip(i, k) = Skip(i, l) => k = l
  BY <1>1 DEF Skip
<1>6. ASSUME NEW m \in 1..Len(q), m # i
      PROVE  \E k \in 1..(Len(q) - 1) : Skip(i, k) = m
  <2>1. CASE m < i
    <3>1. m \in 1..(Len(q) - 1) /\ Skip(i, m) = m
      BY <1>1, <2>1 DEF Skip
    <3> QED BY <3>1
  <2>2. CASE m > i
    <3>1. m - 1 \in 1..(Len(q) - 1) /\ Skip(i, m - 1) = m
      BY <1>1, <2>2 DEF Skip
    <3> QED BY <3>1
  <2> QED BY <1>1, <1>6, <2>1, <2>2
<1> QED BY <1>1, <1>2, <1>3, <1>4, <1>5, <1>6

\* The community modules' name for it.
LEMMA RemoveAtIsWithout == \A q, i : RemoveAt(q, i) = Without(q, i)
BY DEF RemoveAt, Without

\* What stays, as positions and as a set.
LEMMA RemoveAtKeeps ==
  ASSUME NEW S, NEW q \in Seq(S), NEW i \in DOMAIN q
  PROVE  LET r == RemoveAt(q, i)
         IN  /\ r \in Seq(S)
             /\ Len(r) = Len(q) - 1
             /\ \A k \in DOMAIN r : Skip(i, k) \in DOMAIN q \ {i} /\ r[k] = q[Skip(i, k)]
             /\ \A k, l \in DOMAIN r : Skip(i, k) = Skip(i, l) => k = l
             /\ \A j \in DOMAIN q \ {i} : \E k \in DOMAIN r : Skip(i, k) = j /\ r[k] = q[j]
             /\ IsInjective(q) => IsInjective(r) /\ ToSet(r) = ToSet(q) \ {q[i]}
<1> DEFINE r == Without(q, i)
<1>1. /\ r \in Seq(S)
      /\ \A k \in DOMAIN r : Skip(i, k) \in DOMAIN q \ {i} /\ r[k] = q[Skip(i, k)]
      /\ \A k, l \in DOMAIN r : Skip(i, k) = Skip(i, l) => k = l
      /\ \A j \in DOMAIN q \ {i} : \E k \in DOMAIN r : Skip(i, k) = j /\ r[k] = q[j]
  BY WithoutPositions
<1>2. Len(r) = Len(q) - 1
  <2>1. i \in 1 .. Len(q)
    OBVIOUS
  <2> QED BY <2>1, WithoutElements
<1> HIDE DEF r
<1>3. ASSUME IsInjective(q) PROVE IsInjective(r) /\ ToSet(r) = ToSet(q) \ {q[i]}
  <2>1. IsInjective(r)
    BY <1>1, <1>3 DEF IsInjective
  <2>2. \A e : e \in ToSet(r) <=> e \in ToSet(q) /\ e # q[i]
    BY <1>1, <1>3 DEF IsInjective, ToSet
  <2> QED BY <2>1, <2>2
<1>4. RemoveAt(q, i) = r
  BY RemoveAtIsWithout DEF r
<1> QED BY <1>1, <1>2, <1>3, <1>4

\* pop(): the last element goes.
LEMMA FrontKeeps ==
  ASSUME NEW S, NEW q \in Seq(S), q # <<>>
  PROVE  /\ Front(q) \in Seq(S)
         /\ Len(Front(q)) = Len(q) - 1
         /\ \A k \in 1 .. (Len(q) - 1) : Front(q)[k] = q[k]
<1> DEFINE n == Len(q) - 1
<1>1. n \in Nat /\ n + 1 = Len(q) /\ DOMAIN q = 1 .. Len(q)
  OBVIOUS
<1>2. \A k \in 1 .. n : q[k] \in S
  BY <1>1
<1>3. /\ SubSeq(q, 1, n) \in Seq(S)
      /\ Len(SubSeq(q, 1, n)) = IF 1 <= n THEN n - 1 + 1 ELSE 0
      /\ \A k \in 1 .. (n - 1 + 1) : SubSeq(q, 1, n)[k] = q[1 + k - 1]
  BY <1>1, <1>2, SubSeqProperties
<1>4. Front(q) = SubSeq(q, 1, n)
  BY DEF Front
<1> HIDE DEF n
<1> QED BY <1>1, <1>3, <1>4

\* remove(e): of a sequence without repetitions, exactly the element goes.
LEMMA RemoveFirstKeeps ==
  ASSUME NEW S, NEW q \in Seq(S), IsInjective(q), NEW e
  PROVE  LET r == RemoveFirst(q, e)
         IN  /\ r \in Seq(S)
             /\ IsInjective(r)
             /\ ToSet(r) = ToSet(q) \ {e}
<1>1. Len(q) \in Nat /\ DOMAIN q = 1 .. Len(q)
  OBVIOUS
<1>2. CASE \E i \in 1 .. Len(q) : q[i] = e
  <2> DEFINE I == {i \in 1 .. Len(q) : q[i] = e}
  <2>1. Min(I) \in I
    <3>1. I \in SUBSET (1 .. Len(q)) /\ I # {}
      BY <1>2
    <3> HIDE DEF I
    <3> QED BY <1>1, <3>1, MinIsFirst
  <2>2. RemoveFirst(q, e) = RemoveAt(q, Min(I))
    BY <1>2 DEF RemoveFirst, SelectInSeq
  <2>3. Min(I) \in DOMAIN q /\ q[Min(I)] = e
    BY <1>1, <2>1
  <2> HIDE DEF I
  <2> QED BY <2>2, <2>3, RemoveAtKeeps
<1>3. CASE ~ \E i \in 1 .. Len(q) : q[i] = e
  <2>1. RemoveFirst(q, e) = q
    BY <1>3 DEF RemoveFirst
  <2>2. e \notin ToSet(q)
    BY <1>1, <1>3 DEF ToSet
  <2> QED BY <2>1, <2>2
<1> QED BY <1>2, <1>3

\* push(e): one element more, at the end.
LEMMA AppendKeeps ==
  ASSUME NEW S, NEW q \in Seq(S), NEW e \in S
  PROVE  LET r == Append(q, e)
         IN  /\ r \in Seq(S)
             /\ Len(r) = Len(q) + 1
             /\ \A k \in DOMAIN q : k \in DOMAIN r /\ r[k] = q[k]
             /\ r[Len(q) + 1] = e
             /\ \A k \in DOMAIN r : k \in DOMAIN q \/ k = Len(q) + 1
             /\ ToSet(r) = ToSet(q) \cup {e}
             /\ IsInjective(q) /\ e \notin ToSet(q) => IsInjective(r)
<1> DEFINE r == Append(q, e)
           n == Len(q)
<1>1. n \in Nat /\ DOMAIN q = 1 .. n /\ r \in Seq(S) /\ Len(r) = n + 1 /\ DOMAIN r = 1 .. (n + 1)
  OBVIOUS
<1>2. (\A k \in 1 .. n : r[k] = q[k]) /\ r[n + 1] = e
  OBVIOUS
<1>3. \A k \in 1 .. (n + 1) : k \in 1 .. n \/ k = n + 1
  BY <1>1
<1>4. n + 1 \in 1 .. (n + 1) /\ n + 1 \notin 1 .. n /\ \A k \in 1 .. n : k \in 1 .. (n + 1)
  BY <1>1
<1> HIDE DEF r, n
<1>5. \A y : y \in ToSet(r) <=> y \in ToSet(q) \cup {e}
  BY <1>1, <1>2, <1>3, <1>4 DEF ToSet
<1>6. ASSUME IsInjective(q), e \notin ToSet(q) PROVE IsInjective(r)
  <2>1. \A k \in 1 .. n : r[k] # e
    BY <1>1, <1>2, <1>6 DEF ToSet
  <2> QED BY <1>1, <1>2, <1>3, <1>6, <2>1 DEF IsInjective
<1>7. ToSet(r) = ToSet(q) \cup {e}
  BY <1>5
<1> QED BY <1>1, <1>2, <1>3, <1>4, <1>6, <1>7 DEF r, n

\* RemoveFirst leaves the list as it is or takes one element out.
LEMMA RemoveFirstIs ==
  ASSUME NEW S, NEW q \in Seq(S), NEW e
  PROVE  \/ RemoveFirst(q, e) = q
         \/ \E i \in DOMAIN q : RemoveFirst(q, e) = RemoveAt(q, i)
<1>1. Len(q) \in Nat /\ DOMAIN q = 1 .. Len(q)
  OBVIOUS
<1>2. CASE \E i \in 1 .. Len(q) : q[i] = e
  <2> DEFINE I == {i \in 1 .. Len(q) : q[i] = e}
  <2>1. Min(I) \in I
    <3>1. I \in SUBSET (1 .. Len(q)) /\ I # {}
      BY <1>2
    <3> HIDE DEF I
    <3> QED BY <1>1, <3>1, MinIsFirst
  <2>2. RemoveFirst(q, e) = RemoveAt(q, Min(I))
    BY <1>2 DEF RemoveFirst, SelectInSeq
  <2>3. Min(I) \in DOMAIN q
    BY <1>1, <2>1
  <2> HIDE DEF I
  <2> QED BY <2>2, <2>3
<1>3. CASE ~ \E i \in 1 .. Len(q) : q[i] = e
  BY <1>3 DEF RemoveFirst
<1> QED BY <1>2, <1>3

\* And keeps the order of the others.
LEMMA RemoveFirstOrder ==
  ASSUME NEW S, NEW q \in Seq(S), IsInjective(q), NEW e, NEW r, r = RemoveFirst(q, e)
  PROVE  /\ r \in Seq(S) /\ IsInjective(r) /\ ToSet(r) = ToSet(q) \ {e}
         /\ Len(r) <= Len(q)
         /\ \A i, j \in DOMAIN r : i < j =>
               \E k, l \in DOMAIN q : k < l /\ r[i] = q[k] /\ r[j] = q[l]
<1>1. r \in Seq(S) /\ IsInjective(r) /\ ToSet(r) = ToSet(q) \ {e}
  BY RemoveFirstKeeps
<1>2. CASE r = q
  BY <1>1, <1>2
<1>3. ASSUME NEW n \in DOMAIN q, r = RemoveAt(q, n)
      PROVE  /\ Len(r) <= Len(q)
             /\ \A i, j \in DOMAIN r : i < j =>
                   \E k, l \in DOMAIN q : k < l /\ r[i] = q[k] /\ r[j] = q[l]
  <2>1. /\ Len(r) = Len(q) - 1 /\ Len(q) \in Nat
        /\ \A k \in DOMAIN r : Skip(n, k) \in DOMAIN q \ {n} /\ r[k] = q[Skip(n, k)]
    BY <1>3, RemoveAtKeeps
  <2>2. \A i, j \in DOMAIN r : i < j => Skip(n, i) < Skip(n, j)
    <3>1. n \in Nat /\ DOMAIN r \subseteq Nat
      BY <1>1, <1>3
    <3> QED BY <3>1 DEF Skip
  <2> QED BY <2>1, <2>2
<1> QED BY <1>1, <1>2, <1>3, RemoveFirstIs

\* splice(k, 0, e)
LEMMA InsertAtIs ==
  ASSUME NEW S, NEW q \in Seq(S), NEW e \in S, NEW k \in 1 .. (Len(q) + 1),
         NEW r, r = InsertAt(q, k, e)
  PROVE  /\ r \in Seq(S) /\ Len(r) = Len(q) + 1 /\ k \in DOMAIN r /\ r[k] = e
         /\ \A i \in DOMAIN r : i < k => i \in DOMAIN q /\ r[i] = q[i]
         /\ \A i \in DOMAIN r : i > k => i - 1 \in DOMAIN q /\ r[i] = q[i - 1]
         /\ \A i \in DOMAIN q : q[i] \in {r[j] : j \in DOMAIN r}
<1> DEFINE a == SubSeq(q, 1, k - 1)
           b == SubSeq(q, k, Len(q))
           n == Len(q)
<1>1. n \in Nat /\ k \in 1 .. (n + 1) /\ DOMAIN q = 1 .. n
  OBVIOUS
<1>2. /\ a \in Seq(S) /\ Len(a) = k - 1 /\ \A i \in 1 .. (k - 1) : a[i] = q[i]
      /\ b \in Seq(S) /\ Len(b) = n + 1 - k /\ \A i \in 1 .. (n + 1 - k) : b[i] = q[k - 1 + i]
  <2>1. CASE k <= n
    BY <1>1, <2>1
  <2>2. CASE k = n + 1
    BY <1>1, <2>2
  <2> QED BY <1>1, <2>1, <2>2
<1>3. r = (a \o <<e>>) \o b
  BY DEF InsertAt
<1> DEFINE c == a \o <<e>>
<1> HIDE DEF a, b, n
<1>4. c \in Seq(S) /\ Len(c) = k /\ (\A i \in 1 .. (k - 1) : c[i] = q[i]) /\ c[k] = e
  BY <1>1, <1>2
<1>5. r = c \o b
  BY <1>3
<1> HIDE DEF c
<1>6. r \in Seq(S) /\ Len(r) = n + 1 /\ DOMAIN r = 1 .. (n + 1)
  <2>1. r \in Seq(S) /\ Len(r) = Len(c) + Len(b)
    <3>1. c \in Seq(S) /\ b \in Seq(S)
      BY <1>2, <1>4 DEF b
    <3> QED BY ONLY <1>5, <3>1
  <2>2. Len(r) = n + 1
    BY <1>1, <1>2, <1>4, <2>1
  <2> QED BY <2>1, <2>2
<1>7. \A i \in 1 .. k : r[i] = c[i]
  BY <1>1, <1>2, <1>4, <1>5
<1>8. \A i \in (k + 1) .. (n + 1) : r[i] = b[i - k]
  <2>1. c \in Seq(S) /\ b \in Seq(S) /\ r = c \o b /\ Len(c) = k /\ Len(b) = n + 1 - k
    BY <1>2, <1>4, <1>5
  <2> QED BY ONLY <1>1, <2>1
<1>9. \A i \in (k + 1) .. (n + 1) : r[i] = q[i - 1] /\ i - 1 \in 1 .. n
  <2> TAKE i \in (k + 1) .. (n + 1)
  <2>1. i - k \in 1 .. (n + 1 - k) /\ k - 1 + (i - k) = i - 1 /\ i - 1 \in 1 .. n
    BY <1>1
  <2> QED BY <1>2, <1>8, <2>1
<1>10. \A i \in 1 .. (k - 1) : r[i] = q[i] /\ i \in 1 .. n
  BY <1>1, <1>4, <1>7
<1>11. ASSUME NEW i \in 1 .. n PROVE q[i] \in {r[j] : j \in DOMAIN r}
  <2>1. CASE i < k
    BY <1>1, <1>6, <1>10, <2>1
  <2>2. CASE i >= k
    <3>1. i + 1 \in (k + 1) .. (n + 1) /\ i + 1 \in 1 .. (n + 1) /\ (i + 1) - 1 = i
      BY <1>1, <2>2
    <3> QED BY <1>6, <1>9, <3>1
  <2> QED BY <1>1, <2>1, <2>2
<1> QED BY <1>1, <1>4, <1>6, <1>7, <1>9, <1>10, <1>11 DEF n

-----------------------------------------------------------------------------
(* Counting *)

\* A function on finitely many arguments has finitely many values.
LEMMA FiniteValues ==
  ASSUME NEW f, IsFiniteSet(DOMAIN f)
  PROVE  IsFiniteSet({f[x] : x \in DOMAIN f})
<1> DEFINE T == {f[x] : x \in DOMAIN f}
           g == [x \in DOMAIN f |-> f[x]]
<1>1. g \in [DOMAIN f -> T]
  OBVIOUS
<1>2. \A t \in T : \E x \in DOMAIN f : g[x] = t
  OBVIOUS
<1>3. g \in Surjection(DOMAIN f, T)
  <2> HIDE DEF g, T
  <2> QED BY <1>1, <1>2 DEF Surjection
<1> HIDE DEF g, T
<1>4. IsFiniteSet(T)
  BY <1>3, FS_Surjection
<1> QED BY <1>4 DEF T

\* Among one number more than a finite set has elements, one is not in the set.
LEMMA FreshNumber ==
  ASSUME NEW S, IsFiniteSet(S)
  PROVE  \E r \in 1 .. (Cardinality(S) + 1) : r \notin S
<1> DEFINE n == Cardinality(S)
<1>1. n \in Nat
  BY FS_CardinalityType
<1>2. Cardinality(1 .. (n + 1)) = n + 1
  <2> HIDE DEF n
  <2>1. 1 \in Int /\ n + 1 \in Int /\ ~(1 > n + 1)
    BY <1>1
  <2>2. Cardinality(1 .. (n + 1)) = IF 1 > n + 1 THEN 0 ELSE (n + 1) - 1 + 1
    BY <2>1, FS_Interval
  <2> QED BY <1>1, <2>1, <2>2
<1>3. ASSUME 1 .. (n + 1) \subseteq S PROVE FALSE
  <2>1. Cardinality(1 .. (n + 1)) <= n
    <3>1. 1 .. (n + 1) \in SUBSET S
      BY <1>3
    <3> QED BY <3>1, FS_Subset
  <2> QED BY <1>1, <1>2, <2>1
<1> QED BY <1>3

=============================================================================
