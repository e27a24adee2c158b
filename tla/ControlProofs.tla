---------------------------- MODULE ControlProofs ----------------------------
(***************************************************************************)
(* Theorems about `/llr load | unload | reload', for every value of the    *)
(* constants: whom a command takes down or brings up, in which order, and  *)
(* that whatever fails on the way no loaded mod misses a dependency.       *)
(***************************************************************************)
EXTENDS MCMods, ListProofs

-----------------------------------------------------------------------------
(* The search of dependentsOf.  L maps the mods M to the lists of their    *)
(* manifests.                                                              *)

\* The rounds of the search are a function of their number.
SearchesOf(M, L, t) ==
  {found \in [Nat -> SUBSET M] :
     /\ found[0] = {t}
     /\ \A n \in Nat : found[n + 1] = found[n] \union DependedBy(L, found[n])
     /\ Affected(L, t) = found[Cardinality(M)] \ {t}}

LEMMA SearchRounds ==
  ASSUME NEW M, NEW L \in [M -> Seq(Nat)], NEW t \in M
  PROVE  SearchesOf(M, L, t) # {}
<1> DEFINE G == [X \in SUBSET M |-> X \union DependedBy(L, X)]
           Rounds(f) == [n \in Nat |-> IF n = 0 THEN {t}
                                       ELSE f[n - 1] \union DependedBy(L, f[n - 1])]
           found == CHOOSE f : f = Rounds(f)
<1>1. \A X \in SUBSET M : X \union DependedBy(L, X) \in SUBSET M
  BY DEF DependedBy
<1>2. G \in [SUBSET M -> SUBSET M] /\ \A X \in SUBSET M : G[X] = X \union DependedBy(L, X)
  BY <1>1
<1>3. {t} \in SUBSET M
  OBVIOUS
<1> HIDE DEF G
<1> DEFINE S == SUBSET M
           base == {t}
<1>4. G \in [S -> S] /\ base \in S
  BY <1>2, <1>3
<1> HIDE DEF S, base
<1>10. PICK f : f \in RecursionsOf(S, base, G)
  BY <1>4, RecursionExists
<1>11. f \in [Nat -> SUBSET M] /\ f[0] = {t} /\ \A n \in Nat : f[n + 1] = G[f[n]]
  BY <1>10 DEF RecursionsOf, S, base
<1>5. f = Rounds(f)
  <2>1. ASSUME NEW n \in Nat, n # 0
        PROVE  f[n] = f[n - 1] \union DependedBy(L, f[n - 1])
    <3>1. n - 1 \in Nat /\ (n - 1) + 1 = n
      BY <2>1
    <3> QED
      BY <1>2, <1>11, <3>1
  <2>2. f = [n \in Nat |-> f[n]]
    BY <1>11
  <2> QED
    BY <1>11, <2>1, <2>2
<1>6. found = Rounds(found)
  BY <1>5
<1>7. Affected(L, t) = found[Cardinality(M)] \ {t}
  <2>1. DOMAIN L = M
    OBVIOUS
  <2> QED
    BY <2>1 DEF Affected
<1> HIDE DEF found
<1>8. found[0] = {t} /\ \A n \in Nat : found[n + 1] = found[n] \union DependedBy(L, found[n])
  <2>1. \A n \in Nat : n + 1 \in Nat /\ n + 1 # 0 /\ (n + 1) - 1 = n
    OBVIOUS
  <2>2. \A n \in Nat : found[n] = IF n = 0 THEN {t}
                                  ELSE found[n - 1] \union DependedBy(L, found[n - 1])
    BY <1>6
  <2> QED
    BY <2>1, <2>2
<1>9. found \in [Nat -> SUBSET M]
  <2> DEFINE P == {n \in Nat : found[n] \in SUBSET M}
  <2>1. 0 \in P
    BY <1>8
  <2>2. \A n \in P : n + 1 \in P
    <3> TAKE n \in P
    <3>1. n \in Nat /\ found[n] \in SUBSET M
      OBVIOUS
    <3>2. found[n + 1] \in SUBSET M
      BY <1>1, <1>8, <3>1
    <3> QED
      BY <3>1, <3>2
  <2>3. P = Nat
    BY <2>1, <2>2, NumbersAll
  <2>4. \A n \in Nat : found[n] \in SUBSET M
    BY <2>3
  <2>5. found = [n \in Nat |-> found[n]]
    BY <1>6
  <2> QED
    BY <2>4, <2>5
<1> QED
  BY <1>7, <1>8, <1>9 DEF SearchesOf

\* It ends with all who need the target, itself included.
LEMMA SearchClosed ==
  ASSUME NEW M, IsFiniteSet(M), NEW L \in [M -> Seq(Nat)], NEW t \in M
  PROVE  /\ Affected(L, t) \in SUBSET (M \ {t})
         /\ DependedBy(L, Affected(L, t) \union {t}) \subseteq Affected(L, t) \union {t}
<1>0. PICK found : found \in SearchesOf(M, L, t)
  BY SearchRounds
<1>1. /\ found \in [Nat -> SUBSET M] /\ found[0] = {t}
      /\ \A n \in Nat : found[n + 1] = found[n] \union DependedBy(L, found[n])
      /\ Affected(L, t) = found[Cardinality(M)] \ {t}
  BY <1>0 DEF SearchesOf
<1> DEFINE N == Cardinality(M)
           Closed(X) == DependedBy(L, X) \subseteq X
           P == {n \in Nat : Closed(found[n]) \/ Cardinality(found[n]) >= n + 1}
<1>2. N \in Nat /\ \A X \in SUBSET M : IsFiniteSet(X) /\ Cardinality(X) \in Nat /\ Cardinality(X) <= N
  BY FS_Subset, FS_CardinalityType
<1>3. 0 \in P
  <2>1. Cardinality({t}) = 1
    BY FS_Singleton
  <2>2. Cardinality(found[0]) >= 0 + 1
    BY <1>1, <2>1
  <2> QED
    BY <2>2
<1>4. \A n \in P : n + 1 \in P
  <2> TAKE n \in P
  <2>1. n + 1 \in Nat /\ found[n + 1] = found[n] \union DependedBy(L, found[n])
        /\ found[n] \in SUBSET M /\ found[n + 1] \in SUBSET M
    BY <1>1
  <2>2. CASE Closed(found[n])
    <3>1. found[n + 1] = found[n]
      BY <2>1, <2>2
    <3> QED
      BY <2>1, <2>2, <3>1
  <2>3. CASE ~Closed(found[n]) /\ Cardinality(found[n]) >= n + 1
    <3>1. found[n] \in SUBSET found[n + 1] /\ found[n] # found[n + 1]
      BY <2>1, <2>3
    <3>2. IsFiniteSet(found[n + 1])
      BY <1>2, <2>1
    <3>3. /\ Cardinality(found[n]) \in Nat /\ Cardinality(found[n + 1]) \in Nat
          /\ Cardinality(found[n]) < Cardinality(found[n + 1])
      BY <3>1, <3>2, Fewer
    <3>4. Cardinality(found[n]) >= n + 1
      BY <2>3
    <3>5. Cardinality(found[n + 1]) >= (n + 1) + 1
      BY <3>3, <3>4
    <3> QED
      BY <2>1, <3>5
  <2> QED
    BY <2>2, <2>3
<1>5. P = Nat
  BY <1>3, <1>4, NumbersAll
<1>6. Closed(found[N])
  <2>0. N \in Nat
    BY <1>2
  <2>1. N \in P /\ found[N] \in SUBSET M
    BY <1>1, <1>5, <2>0
  <2>2. Cardinality(found[N]) <= N /\ Cardinality(found[N]) \in Nat
    BY <1>2, <2>1
  <2>3. Closed(found[N]) \/ Cardinality(found[N]) >= N + 1
    BY <2>1
  <2> HIDE DEF N, Closed, P
  <2> QED
    BY <1>2, <2>2, <2>3
<1>7. t \in found[N]
  <2> DEFINE Q == {n \in Nat : t \in found[n]}
  <2>1. 0 \in Q /\ \A n \in Q : n + 1 \in Q
    BY <1>1
  <2>2. Q = Nat
    BY <2>1, NumbersAll
  <2> QED
    BY <1>2, <2>2
<1>8. Affected(L, t) \union {t} = found[N] /\ found[N] \in SUBSET M
  BY <1>1, <1>2, <1>7
<1> QED
  BY <1>1, <1>6, <1>8

\* Whoever the search finds needs the target through others it finds.
LEMMA SearchFindsChains ==
  ASSUME NEW M, IsFiniteSet(M), NEW L \in [M -> Seq(Nat)], NEW t \in M,
         NEW y \in Affected(L, t) \union {t}
  PROVE  \E T \in SUBSET M : /\ t \in T /\ y \in T
                             /\ \A z \in T \ {y} : \E m \in T : z \in ToSet(L[m])
<1>0. PICK found : found \in SearchesOf(M, L, t)
  BY SearchRounds
<1>1. /\ found \in [Nat -> SUBSET M] /\ found[0] = {t}
      /\ \A n \in Nat : found[n + 1] = found[n] \union DependedBy(L, found[n])
      /\ Affected(L, t) = found[Cardinality(M)] \ {t}
  BY <1>0 DEF SearchesOf
<1> DEFINE Chain(T, x) == /\ t \in T /\ x \in T
                          /\ \A z \in T \ {x} : \E m \in T : z \in ToSet(L[m])
           Chained == {x \in M : \E T \in SUBSET M : Chain(T, x)}
           P == {n \in Nat : found[n] \subseteq Chained}
<1>2. t \in Chained
  <2>1. {t} \in SUBSET M /\ Chain({t}, t)
    OBVIOUS
  <2> QED
    BY <2>1
<1>3. ASSUME NEW x \in Chained, NEW w \in M, x \in ToSet(L[w])
      PROVE  w \in Chained
  <2>1. PICK T \in SUBSET M : Chain(T, x)
    OBVIOUS
  <2>2. T \union {w} \in SUBSET M /\ t \in T \union {w} /\ w \in T \union {w}
    BY <2>1
  <2>3. \A z \in (T \union {w}) \ {w} : \E m \in T \union {w} : z \in ToSet(L[m])
    BY <1>3, <2>1
  <2>4. Chain(T \union {w}, w)
    BY <2>2, <2>3
  <2> QED
    BY <2>2, <2>4
<1> HIDE DEF Chained
<1>4. 0 \in P
  BY <1>1, <1>2
<1>5. \A n \in P : n + 1 \in P
  <2> TAKE n \in P
  <2>1. DependedBy(L, found[n]) \subseteq Chained
    <3> SUFFICES ASSUME NEW w \in DependedBy(L, found[n]) PROVE w \in Chained
      OBVIOUS
    <3>1. PICK x \in found[n] : w \in M /\ x \in ToSet(L[w])
      BY DEF DependedBy
    <3> QED
      BY <1>3, <3>1
  <2> QED
    BY <1>1, <2>1
<1>6. P = Nat
  BY <1>4, <1>5, NumbersAll
<1>7. Cardinality(M) \in Nat
  BY FS_CardinalityType
<1>8. y \in Chained
  BY <1>1, <1>2, <1>6, <1>7
<1> QED
  BY <1>8 DEF Chained


-----------------------------------------------------------------------------
(* Lists, and the sort of Kahn's first round.                              *)

NoRepeats(s) == \A i, j \in DOMAIN s : s[i] = s[j] => i = j

LEMMA AppendList ==
  ASSUME NEW S, NEW s \in Seq(S), NEW x \in S
  PROVE  /\ Append(s, x) \in Seq(S) /\ ToSet(Append(s, x)) = ToSet(s) \union {x}
         /\ NoRepeats(s) /\ x \notin ToSet(s) => NoRepeats(Append(s, x))
<1>1. PICK n \in Nat : n = Len(s) /\ DOMAIN s = 1..n
  BY Appended
<1>2. PICK a : a = Append(s, x)
  OBVIOUS
<1>3. a \in Seq(S) /\ DOMAIN a = 1..(n + 1) /\ a[n + 1] = x /\ \A i \in 1..n : a[i] = s[i]
  BY <1>1, <1>2, Appended
<1>4. ToSet(a) = ToSet(s) \union {x}
  <2>1. 1..(n + 1) = (1..n) \union {n + 1}
    OBVIOUS
  <2> QED
    BY <1>1, <1>3, <2>1 DEF ToSet
<1>5. ASSUME NoRepeats(s), x \notin ToSet(s) PROVE NoRepeats(a)
  <2> SUFFICES ASSUME NEW i \in 1..(n + 1), NEW j \in 1..(n + 1), a[i] = a[j] PROVE i = j
    BY <1>3 DEF NoRepeats
  <2>1. CASE i \in 1..n /\ j \in 1..n
    BY <1>1, <1>3, <1>5, <2>1 DEF NoRepeats
  <2>2. CASE i = n + 1 /\ j \in 1..n
    BY <1>1, <1>3, <1>5, <2>2 DEF ToSet
  <2>3. CASE j = n + 1 /\ i \in 1..n
    BY <1>1, <1>3, <1>5, <2>3 DEF ToSet
  <2> QED
    BY <2>1, <2>2, <2>3
<1> QED
  BY <1>2, <1>3, <1>4, <1>5

LEMMA LastOfList ==
  ASSUME NEW S, NEW s \in Seq(S), s # <<>>
  PROVE  /\ Last(s) \in S /\ Front(s) \in Seq(S) /\ Len(Front(s)) = Len(s) - 1
         /\ ToSet(s) = ToSet(Front(s)) \union {Last(s)}
         /\ NoRepeats(s) => NoRepeats(Front(s)) /\ Last(s) \notin ToSet(Front(s))
<1>1. PICK n \in Nat : n = Len(s) /\ DOMAIN s = 1..n /\ n # 0
  BY LenProperties, EmptySeq
<1>2. PICK f : f = Front(s)
  OBVIOUS
<1>3. f \in Seq(S) /\ Len(f) = n - 1 /\ DOMAIN f = 1..(n - 1) /\ \A i \in 1..(n - 1) : f[i] = s[i]
  <2>1. SubSeq(s, 1, n - 1) = [i \in 1..(n - 1) |-> s[i]]
    BY <1>1
  <2>2. \A i \in 1..(n - 1) : i \in 1..n /\ s[i] \in S
    BY <1>1
  <2>3. n - 1 \in Nat
    BY <1>1
  <2>4. f = [i \in 1..(n - 1) |-> s[i]]
    BY <1>1, <1>2, <2>1 DEF Front
  <2>5. f \in [1..(n - 1) -> S]
    BY <2>2, <2>4
  <2> QED
    BY <2>3, <2>4, <2>5, IsSequence
<1>4. Last(s) = s[n] /\ n \in 1..n /\ s[n] \in S
  BY <1>1 DEF Last
<1>5. ToSet(s) = ToSet(f) \union {s[n]}
  <2>1. 1..n = (1..(n - 1)) \union {n}
    BY <1>1
  <2> QED
    BY <1>1, <1>3, <2>1 DEF ToSet
<1>6. ASSUME NoRepeats(s) PROVE NoRepeats(f) /\ s[n] \notin ToSet(f)
  <2>1. \A i \in 1..(n - 1) : i \in 1..n /\ i # n
    BY <1>1
  <2>2. NoRepeats(f)
    BY <1>1, <1>3, <1>6, <2>1 DEF NoRepeats
  <2>3. s[n] \notin ToSet(f)
    BY <1>1, <1>3, <1>4, <1>6, <2>1 DEF NoRepeats, ToSet
  <2> QED
    BY <2>2, <2>3
<1> QED
  BY <1>1, <1>2, <1>3, <1>4, <1>5, <1>6

LEMMA ListSet ==
  ASSUME NEW S, NEW s \in Seq(S)
  PROVE  ToSet(s) \in SUBSET S /\ DOMAIN s = 1..Len(s) /\ Len(s) \in Nat
BY LenProperties DEF ToSet

\* The sort neither loses a name nor repeats one.
LEMMA SortedNames ==
  ASSUME NEW K \in SUBSET Int, IsFiniteSet(K)
  PROVE  Sorted(K) \in Seq(K) /\ ToSet(Sorted(K)) = K /\ NoRepeats(Sorted(K))
<1>1. PICK n \in Nat :
        /\ n = Cardinality(K)
        /\ \A i \in K : Rank(K, i) \in 1..n
        /\ \A i, j \in K : i < j => Rank(K, i) < Rank(K, j)
        /\ \A r \in 1..n : \E i \in K : Rank(K, i) = r
  BY Ranks
<1> DEFINE At(j) == CHOOSE i \in K : Rank(K, i) = j
<1>2. \A j \in 1..n : At(j) \in K /\ Rank(K, At(j)) = j
  BY <1>1
<1>3. Sorted(K) = [j \in 1..n |-> At(j)]
  BY <1>1 DEF Sorted
<1> HIDE DEF At
<1>4. PICK p : p = Sorted(K)
  OBVIOUS
<1>5. p \in [1..n -> K] /\ DOMAIN p = 1..n /\ \A j \in 1..n : Rank(K, p[j]) = j
  BY <1>2, <1>3, <1>4
<1>6. p \in Seq(K)
  BY <1>5, IsSequence
<1>7. NoRepeats(p)
  BY <1>5 DEF NoRepeats
<1>8. ASSUME NEW k \in K PROVE \E j \in 1..n : p[j] = k
  <2>1. PICK j \in 1..n : j = Rank(K, k)
    BY <1>1
  <2>2. PICK q \in K : q = p[j] /\ Rank(K, q) = j
    BY <1>5
  <2>3. q \in Int /\ k \in Int
    OBVIOUS
  <2>4. ~(q < k) /\ ~(k < q)
    BY <1>1, <2>1, <2>2
  <2> QED
    BY <2>2, <2>3, <2>4
<1>9. ToSet(p) = K
  BY <1>5, <1>8 DEF ToSet
<1> QED
  BY <1>4, <1>6, <1>7, <1>9


-----------------------------------------------------------------------------
(* Kahn's loop.  An entry is a place in the list of an affected mod; R are *)
(* the entries of the mods not taken yet.                                  *)

Entries(A, L) == {e \in A \X Nat : e[2] \in DOMAIN L[e[1]]}
Naming(R, L, d) == {e \in R : L[e[1]][e[2]] = d}
TakenCount(st) == Len(st.ordered)
SameTaken(a, b) == a.ordered = b.ordered
KahnStates(A) == [indeg : [A -> Int], ordered : Seq(A), ready : Seq(A)]

\* The count of a mod is right, and who is listed by no entry left has been noticed,
\* once.
KahnInv(A, L, R, st) ==
  /\ st \in KahnStates(A)
  /\ R \subseteq Entries(A, L)
  /\ \A d \in A : st.indeg[d] = Cardinality(Naming(R, L, d))
  /\ \A d \in A : Naming(R, L, d) = {} <=> d \in ToSet(st.ordered) \union ToSet(st.ready)
  /\ NoRepeats(st.ordered) /\ NoRepeats(st.ready)
  /\ ToSet(st.ordered) \intersect ToSet(st.ready) = {}

LEMMA FiniteEntries ==
  ASSUME NEW M, NEW A \in SUBSET M, IsFiniteSet(A), NEW L \in [M -> Seq(Nat)]
  PROVE  IsFiniteSet(Entries(A, L))
<1>0. \A m \in A : L[m] \in Seq(Nat)
  OBVIOUS
<1> USE <1>0
<1> DEFINE At(m) == [i \in DOMAIN L[m] |-> <<m, i>>]
           Of == [m \in A |-> Range(At(m))]
<1>1. IsFiniteSet(Range(Of))
  BY RangeFinite
<1>2. ASSUME NEW m \in A PROVE IsFiniteSet(Range(At(m)))
  <2>1. IsFiniteSet(DOMAIN L[m])
    BY LenProperties, FS_Interval
  <2>2. PICK f : f = At(m)
    OBVIOUS
  <2> QED
    BY <2>1, <2>2, RangeFinite
<1>3. \A E \in Range(Of) : IsFiniteSet(E)
  BY <1>2 DEF Range
<1>4. IsFiniteSet(UNION Range(Of))
  BY <1>1, <1>3, FS_UNION
<1>5. Entries(A, L) \subseteq UNION Range(Of)
  BY DEF Entries, Range
<1> QED
  BY <1>4, <1>5, FS_Subset

\* `if (--indeg[d] == 0) ready.push_back(d)', as an entry is gone through.
LEMMA ReleaseKeeps ==
  ASSUME NEW M, NEW A \in SUBSET M, IsFiniteSet(A), NEW L \in [M -> Seq(Nat)]
  PROVE  \A R, st : KahnInv(A, L, R, st) => \A e \in R :
           /\ KahnInv(A, L, R \ {e}, Release(A, st, L[e[1]][e[2]]))
           /\ SameTaken(Release(A, st, L[e[1]][e[2]]), st)
<1> TAKE R, st
<1> HAVE KahnInv(A, L, R, st)
<1> TAKE e \in R
<1>20. PICK d : d = L[e[1]][e[2]]
  OBVIOUS
<1> SUFFICES /\ KahnInv(A, L, R \ {e}, Release(A, st, d))
             /\ SameTaken(Release(A, st, d), st)
  BY <1>20
<1> USE <1>20
<1>0. \A m \in A : L[m] \in Seq(Nat)
  OBVIOUS
<1> USE <1>0
<1> DEFINE Q == R \ {e}
<1>1. PICK next : next = Release(A, st, d)
  OBVIOUS
<1>2. st \in KahnStates(A) /\ R \subseteq Entries(A, L) /\ Q \subseteq Entries(A, L)
  BY DEF KahnInv
<1>3. \A c \in A : c # d => Naming(Q, L, c) = Naming(R, L, c)
  BY DEF Naming
<1>4. CASE d \notin A
  <2>1. next = st
    BY <1>1, <1>4 DEF Release
  <2>2. \A c \in A : Naming(Q, L, c) = Naming(R, L, c)
    BY <1>3, <1>4
  <2>3. KahnInv(A, L, Q, st)
    BY <1>2, <2>2 DEF KahnInv
  <2> QED
    BY <1>1, <2>1, <2>3 DEF SameTaken
<1>5. CASE d \in A
  <2>1. Naming(Q, L, d) = Naming(R, L, d) \ {e} /\ e \in Naming(R, L, d)
    BY DEF Naming
  <2>2. IsFiniteSet(Naming(R, L, d))
    <3>1. Naming(R, L, d) \in SUBSET Entries(A, L)
      BY <1>2 DEF Naming
    <3> QED
      BY <3>1, FiniteEntries, FS_Subset
  <2>3. /\ Cardinality(Naming(Q, L, d)) = Cardinality(Naming(R, L, d)) - 1
        /\ Cardinality(Naming(R, L, d)) \in Nat
        /\ IsFiniteSet(Naming(Q, L, d))
    <3>1. PICK X : X = Naming(R, L, d)
      OBVIOUS
    <3>2. /\ Cardinality(X \ {e}) = Cardinality(X) - 1
          /\ Cardinality(X) \in Nat /\ IsFiniteSet(X \ {e})
      BY <2>1, <2>2, <3>1, FS_RemoveElement, FS_CardinalityType
    <3> QED
      BY <2>1, <3>1, <3>2
  <2>4. st.indeg[d] = Cardinality(Naming(R, L, d)) /\ st.indeg \in [A -> Int]
    BY <1>2, <1>5 DEF KahnInv, KahnStates
  <2>5. st.indeg[d] = 1 <=> Naming(Q, L, d) = {}
    BY <2>3, <2>4, FS_EmptySet
  <2>6. d \notin ToSet(st.ordered) \union ToSet(st.ready)
    BY <1>5, <2>1 DEF KahnInv
  <2>7. st.ordered \in Seq(A) /\ st.ready \in Seq(A)
        /\ NoRepeats(st.ordered) /\ NoRepeats(st.ready)
        /\ ToSet(st.ordered) \intersect ToSet(st.ready) = {}
    BY <1>2 DEF KahnInv, KahnStates
  <2>8. next = [st EXCEPT !.indeg[d] = @ - 1,
                          !.ready = IF st.indeg[d] = 1 THEN Append(@, d) ELSE @]
    BY <1>1, <1>5 DEF Release
  <2>9. /\ next = [indeg |-> next.indeg, ordered |-> next.ordered, ready |-> next.ready]
        /\ next.indeg = [st.indeg EXCEPT ![d] = @ - 1]
        /\ next.ordered = st.ordered
        /\ next.ready = IF st.indeg[d] = 1 THEN Append(st.ready, d) ELSE st.ready
    BY <1>2, <2>8 DEF KahnStates
  <2>10. /\ next.ready \in Seq(A) /\ NoRepeats(next.ready)
         /\ ToSet(next.ready) = IF st.indeg[d] = 1 THEN ToSet(st.ready) \union {d}
                                ELSE ToSet(st.ready)
    <3>1. /\ Append(st.ready, d) \in Seq(A) /\ NoRepeats(Append(st.ready, d))
          /\ ToSet(Append(st.ready, d)) = ToSet(st.ready) \union {d}
      BY <1>5, <2>6, <2>7, AppendList
    <3> QED
      BY <2>7, <2>9, <3>1
  <2>11. /\ next.indeg \in [A -> Int] /\ next.indeg[d] = st.indeg[d] - 1
         /\ \A c \in A : c # d => next.indeg[c] = st.indeg[c]
    BY <1>5, <2>4, <2>9
  <2>12. next \in KahnStates(A)
    BY <2>7, <2>9, <2>10, <2>11 DEF KahnStates
  <2>13. \A c \in A : next.indeg[c] = Cardinality(Naming(Q, L, c))
    BY <1>3, <2>3, <2>4, <2>11 DEF KahnInv
  <2>14. \A c \in A : Naming(Q, L, c) = {} <=> c \in ToSet(next.ordered) \union ToSet(next.ready)
    <3> TAKE c \in A
    <3>1. CASE c = d
      BY <2>5, <2>6, <2>9, <2>10, <3>1
    <3>2. CASE c # d
      BY <1>3, <2>9, <2>10, <3>2 DEF KahnInv
    <3> QED
      BY <3>1, <3>2
  <2>15. ToSet(next.ordered) \intersect ToSet(next.ready) = {}
    BY <2>6, <2>7, <2>9, <2>10
  <2>16. KahnInv(A, L, Q, next)
    BY <1>2, <2>7, <2>9, <2>10, <2>12, <2>13, <2>14, <2>15 DEF KahnInv
  <2>17. SameTaken(next, st)
    BY <2>9 DEF SameTaken
  <2> QED
    BY <1>1, <2>16, <2>17
<1> QED
  BY <1>4, <1>5

LEMMA ReleaseTypes ==
  ASSUME NEW A, NEW st \in KahnStates(A), NEW d
  PROVE  Release(A, st, d) \in KahnStates(A)
<1>1. CASE d \notin A
  BY <1>1 DEF Release
<1>2. CASE d \in A
  <2>1. st.ready \in Seq(A) /\ Append(st.ready, d) \in Seq(A) /\ st.indeg[d] - 1 \in Int
    BY <1>2, AppendList DEF KahnStates
  <2> QED
    BY <1>2, <2>1 DEF Release, KahnStates
<1> QED
  BY <1>1, <1>2


ReleaseAll(A, start, s) == FoldLeft(LAMBDA st, d : Release(A, st, d), start, s)

\* A fold of Release over a list goes through the list.
LEMMA ReleaseFold ==
  ASSUME NEW A, NEW start \in KahnStates(A), NEW s \in Seq(Nat)
  PROVE  \E c : /\ c[0] = start
                /\ \A i \in 1..Len(s) : c[i] = Release(A, c[i - 1], s[i])
                /\ c[Len(s)] = ReleaseAll(A, start, s)
<1> DEFINE n == Len(s)
           St == KahnStates(A)
           G == [p \in St \X (1..n) |-> Release(A, p[1], s[p[2]])]
           Folds(h) == [t \in SUBSET DOMAIN s |->
               IF t = {} THEN start ELSE Release(A, h[t \ {Largest(t)}], s[Largest(t)])]
           iter == CHOOSE h : h = Folds(h)
<1>1. n \in Nat /\ DOMAIN s = 1..n /\ n = Len(s)
  BY LenProperties
<1>2. G \in [St \X (1..n) -> St]
  BY ReleaseTypes
<1>3. \A x \in St, i \in 1..n : G[<<x, i>>] = Release(A, x, s[i])
  OBVIOUS
<1>4. ReleaseAll(A, start, s) = iter[DOMAIN s]
  BY DEF ReleaseAll, FoldLeft, MapThenFoldSet, Max, Largest
<1> HIDE DEF G, n, St
<1>5. start \in St
  BY DEF St
<1>6. PICK f : f \in FoldsOf(St, start, n, G)
  BY <1>1, <1>2, <1>5, FoldExists
<1>7. f \in [SUBSET (1..n) -> St] /\ \A t \in SUBSET (1..n) :
           f[t] = IF t = {} THEN start ELSE G[<<f[t \ {Largest(t)}], Largest(t)>>]
  BY <1>6 DEF FoldsOf
<1>8. \A t \in SUBSET (1..n) : t # {} => Largest(t) \in t
  BY <1>1, LargestOf
<1>9. f = Folds(f)
  <2>1. f = [t \in SUBSET (1..n) |-> f[t]]
    BY <1>7
  <2>2. \A t \in SUBSET (1..n) : f[t] =
               IF t = {} THEN start ELSE Release(A, f[t \ {Largest(t)}], s[Largest(t)])
    BY <1>3, <1>7, <1>8
  <2> QED
    BY <1>1, <2>1, <2>2
<1>10. iter = Folds(iter)
  BY <1>9
<1>11. \A t \in SUBSET (1..n) : iter[t] =
               IF t = {} THEN start ELSE Release(A, iter[t \ {Largest(t)}], s[Largest(t)])
  BY <1>1, <1>10
<1> HIDE DEF iter
<1>12. PICK c : c = [i \in 0..n |-> iter[1..i]]
  OBVIOUS
<1>13. c[0] = start /\ c[n] = iter[1..n]
  <2>1. 1..0 = {} /\ 0 \in 0..n /\ n \in 0..n
    BY <1>1
  <2> QED
    BY <1>11, <1>12, <2>1
<1>14. ASSUME NEW i \in 1..n PROVE c[i] = Release(A, c[i - 1], s[i])
  <2>1. /\ 1..i \in SUBSET (1..n) /\ 1..i # {} /\ Largest(1..i) = i
        /\ (1..i) \ {i} = 1..(i - 1) /\ i \in 0..n /\ i - 1 \in 0..n
    BY <1>1, UpTo
  <2> QED
    BY <1>11, <1>12, <2>1
<1> QED
  BY <1>1, <1>4, <1>13, <1>14


\* A round takes a ready mod and goes through its list.
Taking(st) == [st EXCEPT !.ready = Front(@), !.ordered = Append(@, Last(st.ready))]

LEMMA RoundFold ==
  ASSUME NEW M, NEW A \in SUBSET M, NEW L \in [M -> Seq(Nat)], NEW st \in KahnStates(A), st.ready # <<>>
  PROVE  /\ Last(st.ready) \in A /\ Taking(st) \in KahnStates(A)
         /\ KahnRound(L, A, st) = ReleaseAll(A, Taking(st), L[Last(st.ready)])
<1>0. \A m \in A : L[m] \in Seq(Nat)
  OBVIOUS
<1> USE <1>0
<1>1. Last(st.ready) \in A /\ Front(st.ready) \in Seq(A)
  BY LastOfList DEF KahnStates
<1>2. Append(st.ordered, Last(st.ready)) \in Seq(A)
  BY <1>1, AppendList DEF KahnStates
<1>3. Taking(st) \in KahnStates(A)
  BY <1>1, <1>2 DEF KahnStates, Taking
<1>4. KahnRound(L, A, st) = ReleaseAll(A, Taking(st), L[Last(st.ready)])
  BY DEF KahnRound, ReleaseAll, Taking
<1> QED
  BY <1>1, <1>3, <1>4

\* What the mods not taken list.
Rest(A, L, taken) == {e \in Entries(A, L) : e[1] \notin ToSet(taken)}

\* A mod comes after all affected mods that list it.
DependentsFirst(A, L, s) ==
  \A k \in DOMAIN s, m \in A : s[k] \in ToSet(L[m]) => \E j \in 1..(k - 1) : s[j] = m

RoundInv(A, L, st) ==
  KahnInv(A, L, Rest(A, L, st.ordered), st) /\ DependentsFirst(A, L, st.ordered)

LEMMA ListKeeps ==
  ASSUME NEW M, NEW A \in SUBSET M, IsFiniteSet(A), NEW L \in [M -> Seq(Nat)]
  PROVE  \A R, start : R \subseteq Entries(A, L) /\ KahnInv(A, L, R, start) =>
           \A m \in A : (\A i \in DOMAIN L[m] : <<m, i>> \in R) =>
             \A c : c[0] = start /\ (\A i \in 1..Len(L[m]) : c[i] = Release(A, c[i - 1], L[m][i]))
               => /\ KahnInv(A, L, {e \in R : e[1] # m}, c[Len(L[m])])
                  /\ SameTaken(c[Len(L[m])], start)
<1>20. \A Q, x : KahnInv(A, L, Q, x) => \A e \in Q :
         /\ KahnInv(A, L, Q \ {e}, Release(A, x, L[e[1]][e[2]]))
         /\ SameTaken(Release(A, x, L[e[1]][e[2]]), x)
  BY ReleaseKeeps
<1> TAKE R, start
<1> HAVE R \subseteq Entries(A, L) /\ KahnInv(A, L, R, start)
<1> TAKE m \in A
<1> HAVE \A i \in DOMAIN L[m] : <<m, i>> \in R
<1> TAKE c
<1> HAVE c[0] = start /\ \A i \in 1..Len(L[m]) : c[i] = Release(A, c[i - 1], L[m][i])
<1> DEFINE n == Len(L[m])
           Left == [i \in Nat |-> {e \in R : ~(e[1] = m /\ e[2] <= i)}]
           Good == [i \in Nat |-> {x \in KahnStates(A) : /\ KahnInv(A, L, Left[i], x)
                                                         /\ SameTaken(x, start)}]
           P == {i \in Nat : i <= n => c[i] \in Good[i]}
<1>1. n \in Nat /\ DOMAIN L[m] = 1..n
  BY LenProperties
<1>2. Left[0] = R
  BY <1>1 DEF Entries
<1>3. Left[n] = {e \in R : e[1] # m}
  BY <1>1 DEF Entries
<1>4. ASSUME NEW i \in Nat, i + 1 <= n
      PROVE  Left[i + 1] = Left[i] \ {<<m, i + 1>>} /\ <<m, i + 1>> \in Left[i]
  <2>1. i + 1 \in Nat /\ i + 1 \in DOMAIN L[m]
    BY <1>1, <1>4
  <2>2. \A e \in R : e[2] \in Nat /\ (e[1] = m /\ e[2] = i + 1 <=> e = <<m, i + 1>>)
    BY DEF Entries
  <2>3. \A e \in R : e[2] <= i + 1 <=> e[2] <= i \/ e[2] = i + 1
    BY <2>2
  <2>4. /\ Left[i] = {e \in R : ~(e[1] = m /\ e[2] <= i)}
        /\ Left[i + 1] = {e \in R : ~(e[1] = m /\ e[2] <= i + 1)}
    BY <2>1
  <2>5. <<m, i + 1>> \in R
    BY <2>1
  <2>6. <<m, i + 1>> \in Left[i]
    BY <2>4, <2>5
  <2> HIDE DEF Left
  <2>7. \A e \in R : e \in Left[i + 1] <=> e \in Left[i] /\ e # <<m, i + 1>>
    BY <2>2, <2>3, <2>4
  <2>8. Left[i + 1] \subseteq R /\ Left[i] \subseteq R
    BY <2>4
  <2> QED
    BY <2>6, <2>7, <2>8
<1>5. \A i \in Nat : \A x : x \in Good[i] <=>
        KahnInv(A, L, Left[i], x) /\ SameTaken(x, start)
  BY DEF KahnInv
<1> HIDE DEF Left, Good, n
<1>6. 0 \in P
  BY <1>2, <1>5 DEF SameTaken
<1>7. \A i \in P : i + 1 \in P
  <2> TAKE i \in P
  <2> SUFFICES ASSUME i + 1 <= n PROVE c[i + 1] \in Good[i + 1]
    OBVIOUS
  <2>0. i \in Nat /\ i <= n /\ i + 1 \in 1..n
    BY <1>1
  <2>1. i \in Nat /\ i + 1 \in Nat /\ i + 1 \in 1..n /\ (i + 1) - 1 = i /\ c[i] \in Good[i]
    BY <2>0
  <2>2. PICK x : x = c[i]
    OBVIOUS
  <2>3. PICK Q : Q = Left[i]
    OBVIOUS
  <2>4. PICK e : e = <<m, i + 1>>
    OBVIOUS
  <2>5. KahnInv(A, L, Q, x) /\ SameTaken(x, start)
    BY <1>5, <2>1, <2>2, <2>3
  <2>6. PICK d : d = L[m][i + 1]
    OBVIOUS
  <2>7. e \in Q /\ d = L[e[1]][e[2]] /\ Left[i + 1] = Q \ {e}
    BY <1>4, <2>1, <2>3, <2>4, <2>6
  <2>8. KahnInv(A, L, Q \ {e}, Release(A, x, d)) /\ SameTaken(Release(A, x, d), x)
    <3>1. KahnInv(A, L, Q, x) /\ e \in Q /\ d = L[e[1]][e[2]]
      BY <2>5, <2>7
    <3>2. /\ KahnInv(A, L, Q \ {e}, Release(A, x, L[e[1]][e[2]]))
          /\ SameTaken(Release(A, x, L[e[1]][e[2]]), x)
      BY <1>20, <3>1
    <3> QED
      BY <3>1, <3>2
  <2>9. c[i + 1] = Release(A, x, d)
    BY <2>1, <2>2, <2>6 DEF n
  <2> QED
    BY <1>5, <2>1, <2>5, <2>7, <2>8, <2>9 DEF SameTaken
<1>8. P = Nat
  BY <1>6, <1>7, NumbersAll
<1>9. c[n] \in Good[n]
  BY <1>1, <1>8
<1> QED
  BY <1>1, <1>3, <1>5, <1>9 DEF n

LEMMA RoundKeeps ==
  ASSUME NEW M, NEW A \in SUBSET M, IsFiniteSet(A), NEW L \in [M -> Seq(Nat)], NEW st, RoundInv(A, L, st),
         st.ready # <<>>
  PROVE  /\ RoundInv(A, L, KahnRound(L, A, st))
         /\ TakenCount(KahnRound(L, A, st)) = TakenCount(st) + 1
<1>20. \A R, from : R \subseteq Entries(A, L) /\ KahnInv(A, L, R, from) =>
         \A m \in A : (\A i \in DOMAIN L[m] : <<m, i>> \in R) =>
           \A c : c[0] = from /\ (\A i \in 1..Len(L[m]) : c[i] = Release(A, c[i - 1], L[m][i]))
             => /\ KahnInv(A, L, {e \in R : e[1] # m}, c[Len(L[m])])
                /\ SameTaken(c[Len(L[m])], from)
  BY ListKeeps
<1>0. \A m \in A : L[m] \in Seq(Nat)
  OBVIOUS
<1> DEFINE cur == Last(st.ready)
           start == Taking(st)
           s == L[cur]
           next == KahnRound(L, A, st)
           R == Rest(A, L, st.ordered)
<1>1. st \in KahnStates(A)
  BY DEF RoundInv, KahnInv
<1>2. cur \in A /\ start \in KahnStates(A) /\ next = ReleaseAll(A, start, s)
  BY <1>1, RoundFold
<1>3. PICK c : /\ c[0] = start
               /\ \A i \in 1..Len(s) : c[i] = Release(A, c[i - 1], s[i])
               /\ c[Len(s)] = next
  <2>1. PICK l \in Seq(Nat) : l = L[cur]
    BY <1>0, <1>2
  <2> HIDE DEF cur, start, next
  <2> QED
    BY <1>2, <2>1, ReleaseFold
<1>4. s \in Seq(Nat) /\ Len(s) \in Nat /\ DOMAIN s = 1..Len(s)
  BY <1>0, <1>2, LenProperties
<1>5. /\ st.ordered \in Seq(A) /\ st.ready \in Seq(A)
      /\ start.ready = Front(st.ready) /\ start.ordered = Append(st.ordered, cur)
      /\ start.indeg = st.indeg
  BY <1>1 DEF KahnStates, Taking
<1>6. /\ ToSet(st.ready) = ToSet(Front(st.ready)) \union {cur}
      /\ NoRepeats(Front(st.ready)) /\ cur \notin ToSet(Front(st.ready))
      /\ cur \notin ToSet(st.ordered)
  <2>1. NoRepeats(st.ready) /\ ToSet(st.ordered) \intersect ToSet(st.ready) = {}
    BY DEF RoundInv, KahnInv
  <2>2. /\ ToSet(st.ready) = ToSet(Front(st.ready)) \union {cur}
        /\ NoRepeats(Front(st.ready)) /\ cur \notin ToSet(Front(st.ready))
    BY <1>5, <2>1, LastOfList
  <2> QED
    BY <2>1, <2>2
<1>7. /\ ToSet(start.ordered) = ToSet(st.ordered) \union {cur}
      /\ NoRepeats(start.ordered)
      /\ Len(start.ordered) = Len(st.ordered) + 1
  <2>1. NoRepeats(st.ordered)
    BY DEF RoundInv, KahnInv
  <2> QED
    BY <1>2, <1>5, <1>6, <2>1, AppendList, Appended
<1>8. KahnInv(A, L, R, start)
  <2>1. ToSet(start.ordered) \union ToSet(start.ready) = ToSet(st.ordered) \union ToSet(st.ready)
    BY <1>5, <1>6, <1>7
  <2>2. ToSet(start.ordered) \intersect ToSet(start.ready) = {}
    <3>1. ToSet(st.ordered) \intersect ToSet(st.ready) = {}
      BY DEF RoundInv, KahnInv
    <3> QED
      BY <1>5, <1>6, <1>7, <3>1
  <2>3. /\ R \subseteq Entries(A, L)
        /\ \A d \in A : st.indeg[d] = Cardinality(Naming(R, L, d))
        /\ \A d \in A : Naming(R, L, d) = {} <=> d \in ToSet(st.ordered) \union ToSet(st.ready)
    BY DEF RoundInv, KahnInv
  <2> HIDE DEF start, R
  <2> QED
    BY <1>2, <1>5, <1>6, <1>7, <2>1, <2>2, <2>3 DEF KahnInv
<1> HIDE DEF next, start
<1>9. \A i \in DOMAIN s : <<cur, i>> \in R
  BY <1>2, <1>4, <1>6 DEF Rest, Entries
<1>10. R \subseteq Entries(A, L)
  BY DEF Rest
<1>13. KahnInv(A, L, {e \in R : e[1] # cur}, next) /\ next.ordered = start.ordered
  <2>1. PICK m \in A : m = cur
    BY <1>2
  <2>2. PICK Q : Q = R
    OBVIOUS
  <2>3. PICK from : from = start
    OBVIOUS
  <2>4. Q \subseteq Entries(A, L) /\ KahnInv(A, L, Q, from) /\ c[0] = from
    BY <1>3, <1>8, <1>10, <2>2, <2>3
  <2>5. \A i \in DOMAIN L[m] : <<m, i>> \in Q
    BY <1>9, <2>1, <2>2
  <2>6. \A i \in 1..Len(L[m]) : c[i] = Release(A, c[i - 1], L[m][i])
    BY <1>3, <2>1
  <2>7. /\ KahnInv(A, L, {e \in Q : e[1] # m}, c[Len(L[m])])
        /\ SameTaken(c[Len(L[m])], from)
    BY <1>20, <2>4, <2>5, <2>6
  <2>8. c[Len(L[m])] = next
    BY <1>3, <2>1
  <2>9. next.ordered = start.ordered
    BY <2>3, <2>7, <2>8 DEF SameTaken
  <2> QED
    BY <2>1, <2>2, <2>7, <2>8, <2>9
<1>14. {e \in R : e[1] # cur} = Rest(A, L, next.ordered)
  BY <1>7, <1>13 DEF Rest
<1>15. DependentsFirst(A, L, next.ordered)
  <2>1. PICK o : o = st.ordered
    OBVIOUS
  <2>2. PICK q : q = next.ordered
    OBVIOUS
  <2>3. /\ Len(o) \in Nat /\ DOMAIN o = 1..Len(o) /\ DOMAIN q = 1..(Len(o) + 1)
        /\ q[Len(o) + 1] = cur /\ \A i \in 1..Len(o) : q[i] = o[i]
    BY <1>2, <1>5, <1>13, <2>1, <2>2, Appended
  <2> SUFFICES ASSUME NEW k \in 1..(Len(o) + 1), NEW m \in A, q[k] \in ToSet(L[m])
               PROVE  \E j \in 1..(k - 1) : q[j] = m
    BY <2>2, <2>3 DEF DependentsFirst
  <2>4. CASE k \in 1..Len(o)
    <3>1. PICK j \in 1..(k - 1) : o[j] = m
      BY <2>1, <2>3, <2>4 DEF RoundInv, DependentsFirst
    <3> QED
      BY <2>3, <2>4, <3>1
  <2>5. CASE k = Len(o) + 1
    <3>1. cur \in ToSet(L[m])
      BY <2>3, <2>5
    <3>2. Naming(R, L, cur) = {}
      BY <1>2, <1>6 DEF R, RoundInv, KahnInv
    <3>3. PICK i \in DOMAIN L[m] : L[m][i] = cur
      BY <3>1 DEF ToSet
    <3>4. <<m, i>> \in Entries(A, L)
      BY <1>0, <3>3, LenProperties DEF Entries
    <3>5. m \in ToSet(o)
      <4>1. PICK e : e = <<m, i>>
        OBVIOUS
      <4>2. e \in Entries(A, L) /\ e[1] = m /\ L[e[1]][e[2]] = cur
        BY <3>3, <3>4, <4>1
      <4>3. e \notin Rest(A, L, st.ordered)
        BY <3>2, <4>2 DEF R, Naming
      <4> QED
        BY <2>1, <4>2, <4>3 DEF Rest
    <3>6. PICK j \in 1..Len(o) : o[j] = m
      BY <2>3, <3>5 DEF ToSet
    <3> QED
      BY <2>3, <2>5, <3>6
  <2> QED
    BY <2>4, <2>5
<1> QED
  BY <1>7, <1>13, <1>14, <1>15 DEF RoundInv, TakenCount, next


KahnStart(A, L) ==
  [indeg |-> [d \in A |-> Indegree(L, A, d)], ordered |-> <<>>,
   ready |-> Sorted({d \in A : Indegree(L, A, d) = 0})]

Rounds(L, A, start, s) == FoldLeft(LAMBDA st, i : KahnRound(L, A, st), start, s)

LEMMA KahnIs ==
  ASSUME NEW A, NEW L
  PROVE  Kahn(L, A) = Rounds(L, A, KahnStart(A, L), [i \in 1..Cardinality(A) |-> i]).ordered
<1>1. {d \in A : [x \in A |-> Indegree(L, A, x)][d] = 0} = {d \in A : Indegree(L, A, d) = 0}
  OBVIOUS
<1> QED
  BY <1>1 DEF Kahn, Rounds, KahnStart

LEMMA StartKeeps ==
  ASSUME NEW M \in SUBSET Int, NEW A \in SUBSET M, IsFiniteSet(A), NEW L \in [M -> Seq(Nat)]
  PROVE  RoundInv(A, L, KahnStart(A, L)) /\ TakenCount(KahnStart(A, L)) = 0
<1>0. \A m \in A : L[m] \in Seq(Nat)
  OBVIOUS
<1> USE <1>0
<1> DEFINE E == Entries(A, L)
<1>1. ASSUME NEW d \in A
      PROVE  /\ Indegree(L, A, d) = Cardinality(Naming(E, L, d))
             /\ Indegree(L, A, d) \in Nat
             /\ Indegree(L, A, d) = 0 <=> Naming(E, L, d) = {}
  <2>1. UNION {{<<m, i>> : i \in {j \in DOMAIN L[m] : L[m][j] = d}} : m \in A}
          = Naming(E, L, d)
    <3>1. \A m \in A : DOMAIN L[m] \in SUBSET Nat
      BY LenProperties
    <3> DEFINE W == UNION {{<<m, i>> : i \in {j \in DOMAIN L[m] : L[m][j] = d}} : m \in A}
    <3>2. ASSUME NEW e \in W PROVE e \in Naming(E, L, d)
      <4>1. PICK m \in A : e \in {<<m, i>> : i \in {j \in DOMAIN L[m] : L[m][j] = d}}
        OBVIOUS
      <4>2. PICK i \in DOMAIN L[m] : e = <<m, i>> /\ L[m][i] = d
        BY <4>1
      <4> QED
        BY <3>1, <4>2 DEF Naming, Entries
    <3>3. ASSUME NEW e \in Naming(E, L, d) PROVE e \in W
      <4>1. e \in A \X Nat /\ e[2] \in DOMAIN L[e[1]] /\ L[e[1]][e[2]] = d
        BY DEF Naming, Entries
      <4>2. PICK m \in A : m = e[1]
        BY <4>1
      <4>3. e = <<m, e[2]>>
        BY <4>1, <4>2
      <4>4. e \in {<<m, i>> : i \in {j \in DOMAIN L[m] : L[m][j] = d}}
        BY <4>1, <4>2, <4>3
      <4> QED
        BY <4>4
    <3> QED
      BY <3>2, <3>3
  <2>2. Naming(E, L, d) \in SUBSET E
    BY DEF Naming
  <2>3. IsFiniteSet(Naming(E, L, d))
    BY <2>2, FiniteEntries, FS_Subset
  <2>4. PICK X : X = Naming(E, L, d)
    OBVIOUS
  <2>5. Indegree(L, A, d) = Cardinality(X)
    BY <2>1, <2>4 DEF Indegree
  <2>6. Cardinality(X) \in Nat /\ (Cardinality(X) = 0 <=> X = {})
    BY <2>3, <2>4, FS_CardinalityType, FS_EmptySet
  <2> QED
    BY <2>4, <2>5, <2>6
<1>2. PICK K : K = {d \in A : Indegree(L, A, d) = 0}
  OBVIOUS
<1>3. PICK st : st = KahnStart(A, L)
  OBVIOUS
<1>4. /\ st = [indeg |-> st.indeg, ordered |-> <<>>, ready |-> Sorted(K)]
      /\ st.indeg = [d \in A |-> Indegree(L, A, d)]
      /\ st.ordered = <<>> /\ st.ready = Sorted(K)
  BY <1>2, <1>3 DEF KahnStart
<1>5. Sorted(K) \in Seq(K) /\ ToSet(Sorted(K)) = K /\ NoRepeats(Sorted(K))
  <2>1. K \in SUBSET A
    BY <1>2
  <2>2. K \in SUBSET Int /\ IsFiniteSet(K)
    BY <2>1, FS_Subset
  <2> QED
    BY <2>2, SortedNames
<1>6. Sorted(K) \in Seq(A)
  <2>1. \A k \in K : k \in A
    BY <1>2
  <2>2. Len(Sorted(K)) \in Nat /\ Sorted(K) \in [1..Len(Sorted(K)) -> K]
    BY <1>5, LenProperties
  <2>3. Sorted(K) \in [1..Len(Sorted(K)) -> A]
    BY <2>1, <2>2
  <2> QED
    BY <2>2, <2>3, IsSequence
<1>7. <<>> \in Seq(A) /\ ToSet(<<>>) = {} /\ NoRepeats(<<>>) /\ Len(<<>>) = 0
  BY DEF ToSet, NoRepeats
<1>8. st.indeg \in [A -> Int] /\ \A d \in A : st.indeg[d] = Cardinality(Naming(E, L, d))
  BY <1>1, <1>4
<1>9. st \in KahnStates(A)
  BY <1>4, <1>6, <1>7, <1>8 DEF KahnStates
<1>10. \A d \in A : Naming(E, L, d) = {} <=> d \in ToSet(st.ordered) \union ToSet(st.ready)
  BY <1>1, <1>2, <1>4, <1>5, <1>7
<1>11. Rest(A, L, st.ordered) = E
  BY <1>4, <1>7 DEF Rest
<1>12. KahnInv(A, L, E, st)
  <2> HIDE DEF E
  <2>1. E \subseteq Entries(A, L)
    BY DEF E
  <2> QED
    BY <1>4, <1>5, <1>7, <1>8, <1>9, <1>10, <2>1 DEF KahnInv
<1>13. DependentsFirst(A, L, st.ordered)
  BY <1>4 DEF DependentsFirst
<1> QED
  BY <1>3, <1>4, <1>7, <1>11, <1>12, <1>13 DEF RoundInv, TakenCount

\* The loop goes through as many rounds as there are mods.
LEMMA RoundsFold ==
  ASSUME NEW M, NEW A \in SUBSET M, IsFiniteSet(A), NEW L \in [M -> Seq(Nat)],
         NEW start, RoundInv(A, L, start)
  PROVE  \E c : /\ c[0] = start
                /\ \A i \in 1..Cardinality(A) : c[i] = KahnRound(L, A, c[i - 1])
                /\ c[Cardinality(A)] = Rounds(L, A, start, [i \in 1..Cardinality(A) |-> i])
<1> DEFINE n == Cardinality(A)
           s == [i \in 1..n |-> i]
           St == {x \in KahnStates(A) : RoundInv(A, L, x)}
           G == [p \in St \X (1..n) |-> KahnRound(L, A, p[1])]
           Folds(h) == [t \in SUBSET DOMAIN s |->
               IF t = {} THEN start ELSE KahnRound(L, A, h[t \ {Largest(t)}])]
           iter == CHOOSE h : h = Folds(h)
<1>1. n \in Nat /\ DOMAIN s = 1..n
  BY FS_CardinalityType
<1>2. \A x \in St : KahnRound(L, A, x) \in St
  <2> TAKE x \in St
  <2>1. CASE x.ready = <<>>
    BY <2>1 DEF KahnRound
  <2>2. CASE x.ready # <<>>
    <3>1. RoundInv(A, L, KahnRound(L, A, x))
      BY <2>2, RoundKeeps
    <3> QED
      BY <3>1 DEF RoundInv, KahnInv
  <2> QED
    BY <2>1, <2>2
<1>3. start \in St
  BY DEF RoundInv, KahnInv
<1>4. Rounds(L, A, start, s) = iter[DOMAIN s]
  BY DEF Rounds, FoldLeft, MapThenFoldSet, Max, Largest
<1> HIDE DEF n, St, s
<1>15. \A p \in St \X (1..n) : KahnRound(L, A, p[1]) \in St
  BY <1>2
<1>5. G \in [St \X (1..n) -> St] /\ \A x \in St, i \in 1..n : G[<<x, i>>] = KahnRound(L, A, x)
  BY <1>15
<1> HIDE DEF G
<1>6. PICK f : f \in FoldsOf(St, start, n, G)
  BY <1>1, <1>3, <1>5, FoldExists
<1>7. f \in [SUBSET (1..n) -> St] /\ \A t \in SUBSET (1..n) :
           f[t] = IF t = {} THEN start ELSE G[<<f[t \ {Largest(t)}], Largest(t)>>]
  BY <1>6 DEF FoldsOf
<1>8. \A t \in SUBSET (1..n) : t # {} => Largest(t) \in t
  BY <1>1, LargestOf
<1>9. f = Folds(f)
  <2>1. f = [t \in SUBSET (1..n) |-> f[t]]
    BY <1>7
  <2>2. \A t \in SUBSET (1..n) : f[t] =
               IF t = {} THEN start ELSE KahnRound(L, A, f[t \ {Largest(t)}])
    BY <1>5, <1>7, <1>8
  <2> QED
    BY <1>1, <2>1, <2>2
<1>10. iter = Folds(iter)
  BY <1>9
<1>11. \A t \in SUBSET (1..n) : iter[t] =
               IF t = {} THEN start ELSE KahnRound(L, A, iter[t \ {Largest(t)}])
  BY <1>1, <1>10
<1> HIDE DEF iter
<1>12. PICK c : c = [i \in 0..n |-> iter[1..i]]
  OBVIOUS
<1>13. c[0] = start /\ c[n] = iter[1..n]
  <2>1. 1..0 = {} /\ 0 \in 0..n /\ n \in 0..n
    BY <1>1
  <2> QED
    BY <1>11, <1>12, <2>1
<1>14. ASSUME NEW i \in 1..n PROVE c[i] = KahnRound(L, A, c[i - 1])
  <2>1. /\ 1..i \in SUBSET (1..n) /\ 1..i # {} /\ Largest(1..i) = i
        /\ (1..i) \ {i} = 1..(i - 1) /\ i \in 0..n /\ i - 1 \in 0..n
    BY <1>1, UpTo
  <2> QED
    BY <1>11, <1>12, <2>1
<1> QED
  BY <1>1, <1>4, <1>13, <1>14 DEF n, s

LEMMA NoRepeatsCount ==
  ASSUME NEW S, NEW s \in Seq(S), NoRepeats(s)
  PROVE  IsFiniteSet(ToSet(s)) /\ Cardinality(ToSet(s)) = Len(s)
<1>1. Len(s) \in Nat /\ DOMAIN s = 1..Len(s)
  BY LenProperties
<1> DEFINE f == [i \in 1..Len(s) |-> s[i]]
<1>4. ToSet(s) = {s[i] : i \in 1..Len(s)}
  BY <1>1 DEF ToSet
<1>5. f \in Injection(1..Len(s), ToSet(s))
  BY <1>1, <1>4 DEF Injection, IsInjective, NoRepeats
<1>6. f \in Surjection(1..Len(s), ToSet(s))
  BY <1>4 DEF Surjection
<1>2. f \in Bijection(1..Len(s), ToSet(s))
  BY <1>5, <1>6 DEF Bijection
<1>3. IsFiniteSet(1..Len(s)) /\ Cardinality(1..Len(s)) = Len(s)
  BY <1>1, FS_Interval
<1> QED
  BY <1>2, <1>3, FS_Bijection DEF ExistsBijection

\* Kahn's order: no name twice, those who need a mod before it, and what is left over
\* is listed by what is left over.
LEMMA KahnOrder ==
  ASSUME NEW M \in SUBSET Int, NEW A \in SUBSET M, IsFiniteSet(A), NEW L \in [M -> Seq(Nat)]
  PROVE  /\ Kahn(L, A) \in Seq(A) /\ NoRepeats(Kahn(L, A))
         /\ DependentsFirst(A, L, Kahn(L, A))
         /\ \A d \in A \ ToSet(Kahn(L, A)) :
              \E m \in A \ ToSet(Kahn(L, A)) : d \in ToSet(L[m])
<1> DEFINE n == Cardinality(A)
<1>1. PICK start : start = KahnStart(A, L)
  OBVIOUS
<1>2. RoundInv(A, L, start) /\ TakenCount(start) = 0
  BY <1>1, StartKeeps
<1>3. PICK c : /\ c[0] = start
               /\ \A i \in 1..n : c[i] = KahnRound(L, A, c[i - 1])
               /\ c[n] = Rounds(L, A, start, [i \in 1..n |-> i])
  BY <1>2, RoundsFold
<1>4. Kahn(L, A) = c[n].ordered
  BY <1>1, <1>3, KahnIs
<1>5. n \in Nat
  BY FS_CardinalityType
<1> DEFINE Good == [k \in Nat |-> {x \in KahnStates(A) : RoundInv(A, L, x)
                                      /\ (x.ready = <<>> \/ TakenCount(x) = k)}]
           P == {k \in Nat : k <= n => c[k] \in Good[k]}
<1>6. \A k \in Nat : \A x : x \in Good[k] <=>
         RoundInv(A, L, x) /\ (x.ready = <<>> \/ TakenCount(x) = k)
  BY DEF RoundInv, KahnInv
<1> HIDE DEF Good, n
<1>7. 0 \in P
  BY <1>2, <1>3, <1>6
<1>8. \A k \in P : k + 1 \in P
  <2> TAKE k \in P
  <2> SUFFICES ASSUME k + 1 <= n PROVE c[k + 1] \in Good[k + 1]
    OBVIOUS
  <2>1. k \in Nat /\ k + 1 \in Nat /\ k + 1 \in 1..n /\ (k + 1) - 1 = k /\ c[k] \in Good[k]
    BY <1>5
  <2>2. PICK x : x = c[k]
    OBVIOUS
  <2>3. RoundInv(A, L, x) /\ (x.ready = <<>> \/ TakenCount(x) = k)
    BY <1>6, <2>1, <2>2
  <2>4. c[k + 1] = KahnRound(L, A, x)
    BY <1>3, <2>1, <2>2
  <2>5. CASE x.ready = <<>>
    <3>1. c[k + 1] = x
      BY <2>4, <2>5 DEF KahnRound
    <3> QED
      BY <1>6, <2>1, <2>3, <2>5, <3>1
  <2>6. CASE x.ready # <<>>
    <3>1. /\ RoundInv(A, L, KahnRound(L, A, x))
          /\ TakenCount(KahnRound(L, A, x)) = TakenCount(x) + 1
      BY <2>3, <2>6, RoundKeeps
    <3> QED
      BY <1>6, <2>1, <2>3, <2>4, <2>6, <3>1
  <2> QED
    BY <2>5, <2>6
<1>9. P = Nat
  BY <1>7, <1>8, NumbersAll
<1>10. PICK st : st = c[n]
  OBVIOUS
<1>11. RoundInv(A, L, st) /\ (st.ready = <<>> \/ TakenCount(st) = n)
  <2>1. n \in P /\ n <= n
    BY <1>5, <1>9
  <2> QED
    BY <1>5, <1>6, <1>10, <2>1
<1>12. /\ st.ordered \in Seq(A) /\ st.ready \in Seq(A) /\ NoRepeats(st.ordered)
       /\ ToSet(st.ordered) \intersect ToSet(st.ready) = {}
       /\ DependentsFirst(A, L, st.ordered)
       /\ \A d \in A : Naming(Rest(A, L, st.ordered), L, d) = {}
                         <=> d \in ToSet(st.ordered) \union ToSet(st.ready)
  BY <1>11 DEF RoundInv, KahnInv, KahnStates
<1>13. ToSet(st.ready) \subseteq ToSet(st.ordered)
  <2>1. CASE st.ready = <<>>
    BY <2>1 DEF ToSet
  <2>2. CASE TakenCount(st) = n
    <3>1. PICK T : T = ToSet(st.ordered)
      OBVIOUS
    <3>2. Cardinality(T) = n /\ T \in SUBSET A /\ ToSet(st.ready) \in SUBSET A
      BY <1>12, <2>2, <3>1, NoRepeatsCount, ListSet DEF TakenCount
    <3>3. T # A => Cardinality(T) \in Nat /\ Cardinality(T) < Cardinality(A)
      BY <3>2, Fewer
    <3>4. T = A
      BY <3>2, <3>3 DEF n
    <3> QED
      BY <3>1, <3>2, <3>4
  <2> QED
    BY <1>11, <2>1, <2>2
<1>14. ASSUME NEW d \in A \ ToSet(st.ordered)
       PROVE  \E m \in A \ ToSet(st.ordered) : d \in ToSet(L[m])
  <2>1. Naming(Rest(A, L, st.ordered), L, d) # {}
    BY <1>12, <1>13
  <2>2. PICK e \in Entries(A, L) : e[1] \notin ToSet(st.ordered) /\ L[e[1]][e[2]] = d
    BY <2>1 DEF Naming, Rest
  <2>3. e[1] \in A /\ e[2] \in DOMAIN L[e[1]]
    BY DEF Entries
  <2> QED
    BY <2>2, <2>3 DEF ToSet
<1> QED
  BY <1>4, <1>10, <1>12, <1>14


-----------------------------------------------------------------------------
(* The answers of dependentsOf.                                            *)

LEMMA ConcatList ==
  ASSUME NEW S, NEW s \in Seq(S), NEW r \in Seq(S)
  PROVE  s \o r \in Seq(S) /\ ToSet(s \o r) = ToSet(s) \union ToSet(r)
<1>1. PICK n \in Nat : n = Len(s) /\ DOMAIN s = 1..n
  BY LenProperties
<1>2. PICK k \in Nat : k = Len(r) /\ DOMAIN r = 1..k
  BY LenProperties
<1>3. PICK c : c = s \o r
  OBVIOUS
<1>4. /\ c \in Seq(S) /\ Len(c) = n + k /\ DOMAIN c = 1..(n + k)
      /\ \A i \in 1..n : c[i] = s[i]
      /\ \A i \in 1..k : c[n + i] = r[i]
  <2>1. c \in Seq(S) /\ Len(c) = n + k
    BY <1>1, <1>2, <1>3, ConcatProperties
  <2>2. \A i \in 1..(n + k) : c[i] = IF i <= n THEN s[i] ELSE r[i - n]
    BY <1>1, <1>2, <1>3, ConcatProperties
  <2>3. DOMAIN c = 1..(n + k)
    BY <2>1, LenProperties
  <2>4. \A i \in 1..k : n + i \in 1..(n + k) /\ ~(n + i <= n) /\ (n + i) - n = i
    OBVIOUS
  <2>5. \A i \in 1..n : i \in 1..(n + k) /\ i <= n
    OBVIOUS
  <2> QED
    BY <2>1, <2>2, <2>3, <2>4, <2>5
<1>5. \A i \in 1..(n + k) : i \in 1..n \/ \E j \in 1..k : i = n + j
  <2> TAKE i \in 1..(n + k)
  <2>1. CASE i <= n
    BY <2>1
  <2>2. CASE ~(i <= n)
    <3>1. i - n \in 1..k /\ i = n + (i - n)
      BY <2>2
    <3> QED
      BY <3>1
  <2> QED
    BY <2>1, <2>2
<1>6. \A i \in 1..n : i \in 1..(n + k)
  OBVIOUS
<1>7. \A i \in 1..k : n + i \in 1..(n + k)
  OBVIOUS
<1>8. ToSet(c) = ToSet(s) \union ToSet(r)
  <2>1. ASSUME NEW x \in ToSet(c) PROVE x \in ToSet(s) \union ToSet(r)
    <3>1. PICK i \in 1..(n + k) : c[i] = x
      BY <1>4 DEF ToSet
    <3>2. CASE i \in 1..n
      BY <1>1, <1>4, <3>1, <3>2 DEF ToSet
    <3>3. CASE \E j \in 1..k : i = n + j
      BY <1>2, <1>4, <3>1, <3>3 DEF ToSet
    <3> QED
      BY <1>5, <3>2, <3>3
  <2>2. ASSUME NEW x \in ToSet(s) PROVE x \in ToSet(c)
    BY <1>1, <1>4, <1>6 DEF ToSet
  <2>3. ASSUME NEW x \in ToSet(r) PROVE x \in ToSet(c)
    BY <1>2, <1>4, <1>7 DEF ToSet
  <2> QED
    BY <2>1, <2>2, <2>3
<1> QED
  BY <1>3, <1>4, <1>8

\* Whatever is asked, an answer names those who need the target, and no other.
LEMMA AnswerNames ==
  ASSUME NEW M \in SUBSET Nat, IsFiniteSet(M), NEW L \in [M -> Seq(Nat)], NEW t \in M,
         NEW q \in DependentsOf(L, t)
  PROVE  q \in Seq(M \ {t})
<1>1. PICK A : A = Affected(L, t)
  OBVIOUS
<1>2. A \in SUBSET M /\ A \subseteq M \ {t} /\ IsFiniteSet(A)
  <2>1. Affected(L, t) \in SUBSET (M \ {t})
    BY SearchClosed
  <2>2. A \in SUBSET M /\ A \subseteq M \ {t}
    BY <1>1, <2>1
  <2> QED
    BY <2>2, FS_Subset
<1>0. M \in SUBSET Int
  OBVIOUS
<1>3. PICK o : o = Kahn(L, A)
  OBVIOUS
<1>4. o \in Seq(A)
  BY <1>0, <1>2, <1>3, KahnOrder
<1>5. PICK rest \in SetToSeqs(A \ ToSet(o)) : q = o \o rest
  BY <1>1, <1>3 DEF DependentsOf
<1>6. rest \in Seq(A)
  <2>1. PICK k : k = Cardinality(A \ ToSet(o))
    OBVIOUS
  <2>2. k \in Nat
    <3>1. A \ ToSet(o) \in SUBSET A
      OBVIOUS
    <3> QED
      BY <1>2, <2>1, <3>1, FS_Subset, FS_CardinalityType
  <2>3. rest \in [1..k -> A]
    BY <2>1 DEF SetToSeqs
  <2> QED
    BY <2>2, <2>3, IsSequence
<1>7. q \in Seq(A)
  BY <1>4, <1>5, <1>6, ConcatList
<1>8. \A x \in A : x \in M \ {t}
  BY <1>2
<1>9. Len(q) \in Nat /\ q \in [1..Len(q) -> A]
  BY <1>7, LenProperties
<1>10. q \in [1..Len(q) -> M \ {t}]
  BY <1>8, <1>9
<1> QED
  BY <1>9, <1>10, IsSequence

\* No set of mods lists its own members all around.
LoopFree(M, L) ==
  \A T \in SUBSET M : T # {} => \E m \in T : \A n \in T : m \notin ToSet(L[n])

\* Without cycles the answer, the target after it, is an order to unload in: all who
\* list a mod come before it.
LEMMA PlanIsOrdered ==
  ASSUME NEW M \in SUBSET Nat, IsFiniteSet(M), NEW L \in [M -> Seq(Nat)], LoopFree(M, L),
         NEW t \in M, NEW q \in DependentsOf(L, t)
  PROVE  /\ Append(q, t) \in Seq(M) /\ NoRepeats(Append(q, t))
         /\ DependentsFirst(M, L, Append(q, t))
<1>1. PICK A : A = Affected(L, t)
  OBVIOUS
<1>2. /\ A \in SUBSET M /\ t \notin A /\ IsFiniteSet(A)
      /\ DependedBy(L, A \union {t}) \subseteq A \union {t}
  <2>1. /\ Affected(L, t) \in SUBSET (M \ {t})
        /\ DependedBy(L, Affected(L, t) \union {t}) \subseteq Affected(L, t) \union {t}
    BY SearchClosed
  <2>2. A \in SUBSET M /\ t \notin A
    BY <1>1, <2>1
  <2>3. IsFiniteSet(A)
    BY <2>2, FS_Subset
  <2> QED
    BY <1>1, <2>1, <2>2, <2>3
<1>0. M \in SUBSET Int
  OBVIOUS
<1>3. PICK s : s = Kahn(L, A)
  OBVIOUS
<1>4. /\ s \in Seq(A) /\ NoRepeats(s) /\ DependentsFirst(A, L, s)
      /\ \A d \in A \ ToSet(s) : \E m \in A \ ToSet(s) : d \in ToSet(L[m])
  BY <1>0, <1>2, <1>3, KahnOrder
<1>5. A \ ToSet(s) = {}
  <2>1. A \ ToSet(s) \in SUBSET M
    BY <1>2
  <2> QED
    BY <1>4, <2>1 DEF LoopFree
<1>6. ToSet(s) = A
  BY <1>4, <1>5, ListSet
<1>7. q = s
  <2>1. PICK rest \in SetToSeqs(A \ ToSet(s)) : q = s \o rest
    BY <1>1, <1>3 DEF DependentsOf
  <2>2. Cardinality({}) = 0
    BY FS_EmptySet
  <2>3. rest \in [1..0 -> {}]
    BY <1>5, <2>1, <2>2 DEF SetToSeqs
  <2>4. rest \in Seq({}) /\ Len(rest) = 0
    BY <2>3, IsSequence
  <2>5. rest = <<>>
    BY <2>4, EmptySeq
  <2> QED
    BY <1>4, <2>1, <2>5, ConcatEmptySeq
<1>8. PICK o : o = Append(q, t)
  OBVIOUS
<1>9. s \in Seq(M)
  <2>1. Len(s) \in Nat /\ s \in [1..Len(s) -> A]
    BY <1>4, LenProperties
  <2>2. s \in [1..Len(s) -> M]
    BY <1>2, <2>1
  <2> QED
    BY <2>1, <2>2, IsSequence
<1>10. o \in Seq(M) /\ NoRepeats(o)
  BY <1>2, <1>4, <1>6, <1>7, <1>8, <1>9, AppendList
<1>11. PICK k \in Nat : /\ k = Len(s) /\ DOMAIN s = 1..k /\ DOMAIN o = 1..(k + 1)
                        /\ o[k + 1] = t /\ \A i \in 1..k : o[i] = s[i]
  BY <1>7, <1>8, <1>9, Appended
<1>12. ASSUME NEW n \in M, NEW y \in A \union {t}, y \in ToSet(L[n])
       PROVE  n \in A
  <2>1. n \in A \union {t}
    BY <1>2, <1>12 DEF DependedBy
  <2>2. n # t
    <3> SUFFICES ASSUME n = t PROVE FALSE
      OBVIOUS
    <3>1. PICK T \in SUBSET M : /\ t \in T /\ y \in T
                                /\ \A z \in T \ {y} : \E m \in T : z \in ToSet(L[m])
      BY <1>1, SearchFindsChains
    <3>2. \A z \in T : \E m \in T : z \in ToSet(L[m])
      BY <1>12, <3>1
    <3> QED
      BY <3>1, <3>2 DEF LoopFree
  <2> QED
    BY <2>1, <2>2
<1>13. DependentsFirst(M, L, o)
  <2> SUFFICES ASSUME NEW i \in 1..(k + 1), NEW n \in M, o[i] \in ToSet(L[n])
               PROVE  \E j \in 1..(i - 1) : o[j] = n
    BY <1>11 DEF DependentsFirst
  <2>1. CASE i = k + 1
    <3>1. n \in A
      BY <1>11, <1>12, <2>1
    <3>2. PICK j \in 1..k : s[j] = n
      BY <1>6, <1>11, <3>1 DEF ToSet
    <3> QED
      BY <1>11, <2>1, <3>2
  <2>2. CASE i \in 1..k
    <3>1. o[i] = s[i] /\ s[i] \in A
      BY <1>4, <1>11, <2>2
    <3>2. n \in A
      BY <1>12, <3>1
    <3>3. PICK j \in 1..(i - 1) : s[j] = n
      BY <1>4, <1>11, <2>2, <3>1, <3>2 DEF DependentsFirst
    <3>4. j \in 1..k
      BY <2>2
    <3> QED
      BY <1>11, <3>3, <3>4
  <2> QED
    BY <2>1, <2>2
<1> QED
  BY <1>8, <1>10, <1>13


-----------------------------------------------------------------------------
(* The commands of the console.                                            *)

Commands ==
  [cmd: {"load", "unload", "reload"}, at: {"down", "up", "enable"},
   todo: Seq(Names), down: Seq(Names), entered: BOOLEAN, before: SUBSET Names]

ControlTypes ==
  /\ disk \in [Names -> Manifest] /\ loaded \in SUBSET Names
  /\ deps \in [Names -> Seq(Names)] /\ stack \in Seq(Commands)

\* What a reload takes down or has taken down is marked on the disk, which nobody
\* edits while commands are in progress.
Marked(c) ==
  c.cmd = "reload" => /\ \A m \in ToSet(c.down) : disk[m].safe
                      /\ c.at = "down" => \A m \in ToSet(c.todo) : disk[m].safe
MarkedCommands == {c \in Commands : Marked(c)}
SafeInv == ControlTypes /\ stack \in Seq(MarkedCommands)

Listed == [m \in Names |-> disk[m].deps]

\* What these mods need is loaded or comes later, or earlier, among them.
LaterOrLoaded(s, X, L) ==
  \A i \in DOMAIN s :
    ToSet(L[s[i]]) \subseteq X \union {s[j] : j \in {k \in DOMAIN s : k > i}}
EarlierOrLoaded(s, X, L) ==
  \A i \in DOMAIN s :
    ToSet(L[s[i]]) \subseteq X \union {s[j] : j \in {k \in DOMAIN s : k < i}}

\* A pass down takes those who need a mod before it, ...
GoingDown(c, X, L) ==
  /\ c.cmd \in {"unload", "reload"}
  /\ c.entered => c.todo # <<>>
  /\ ToSet(c.todo) \subseteq X /\ NoRepeats(c.todo)
  /\ DependentsFirst(X, L, c.todo)
  /\ LaterOrLoaded(c.down, X, L)

\* ... and a pass up brings what a mod needs before the mod.
GoingUp(c, X, L, d) ==
  /\ EarlierOrLoaded(c.todo, X, L)
  /\ c.at = "up" /\ c.entered /\ c.todo # <<>> =>
       d[Head(c.todo)] = L[Head(c.todo)] /\ Head(c.todo) \notin X
  /\ c.at = "enable" => /\ c.todo # <<>> /\ Head(c.todo) \in X
                        /\ \A m \in X : Head(c.todo) \notin ToSet(L[m])

Ordered(c, X, L, d) == IF c.at = "down" THEN GoingDown(c, X, L) ELSE GoingUp(c, X, L, d)

\* The loaded mods are as the disk says, without a cycle, and miss nothing.
Sound(X, L, d) ==
  /\ \A m \in X : d[m] = L[m] /\ ToSet(L[m]) \subseteq X
  /\ LoopFree(X, L)

ControlInv ==
  /\ SafeInv /\ Len(stack) <= 1
  /\ Sound(loaded, Listed, deps)
  /\ stack # <<>> => Ordered(Top, loaded, Listed, deps)

LEMMA TailOfList ==
  ASSUME NEW S, NEW s \in Seq(S), s # <<>>
  PROVE  /\ Len(s) \in Nat \ {0} /\ DOMAIN s = 1..Len(s) /\ Head(s) = s[1] /\ Head(s) \in S
         /\ Tail(s) \in Seq(S) /\ DOMAIN Tail(s) = 1..(Len(s) - 1)
         /\ \A i \in 1..(Len(s) - 1) : Tail(s)[i] = s[i + 1]
         /\ ToSet(s) = {Head(s)} \union ToSet(Tail(s))
         /\ NoRepeats(s) => NoRepeats(Tail(s)) /\ Head(s) \notin ToSet(Tail(s))
<1>1. PICK n \in Nat : n = Len(s) /\ DOMAIN s = 1..n /\ n # 0
  BY LenProperties, EmptySeq
<1>2. PICK t : t = Tail(s)
  OBVIOUS
<1>3. t \in Seq(S) /\ Len(t) = n - 1 /\ \A i \in 1..(n - 1) : t[i] = s[i + 1]
  BY <1>1, <1>2, HeadTailProperties
<1>4. DOMAIN t = 1..(n - 1)
  BY <1>3, LenProperties
<1>5. Head(s) = s[1] /\ s[1] \in S /\ 1 \in 1..n
  BY <1>1, HeadTailProperties
<1>6. \A i \in 1..(n - 1) : i + 1 \in 1..n /\ i + 1 # 1
  BY <1>1
<1>7. \A i \in 1..n : i = 1 \/ (i - 1 \in 1..(n - 1) /\ (i - 1) + 1 = i)
  BY <1>1
<1>8. ToSet(s) = {s[1]} \union ToSet(t)
  <2>1. ASSUME NEW x \in ToSet(s) PROVE x \in {s[1]} \union ToSet(t)
    <3>1. PICK i \in 1..n : s[i] = x
      BY <1>1 DEF ToSet
    <3>2. CASE i - 1 \in 1..(n - 1) /\ (i - 1) + 1 = i
      <4>1. t[i - 1] = x
        BY <1>3, <3>1, <3>2
      <4> QED
        BY <1>4, <3>2, <4>1 DEF ToSet
    <3> QED
      BY <1>7, <3>1, <3>2
  <2>2. ToSet(t) \subseteq ToSet(s)
    BY <1>1, <1>3, <1>4, <1>6 DEF ToSet
  <2>3. s[1] \in ToSet(s)
    BY <1>1, <1>5 DEF ToSet
  <2> QED
    BY <2>1, <2>2, <2>3
<1>9. ASSUME NoRepeats(s) PROVE NoRepeats(t) /\ s[1] \notin ToSet(t)
  <2>1. NoRepeats(t)
    <3> SUFFICES ASSUME NEW i \in 1..(n - 1), NEW j \in 1..(n - 1), t[i] = t[j] PROVE i = j
      BY <1>4 DEF NoRepeats
    <3>1. s[i + 1] = s[j + 1]
      BY <1>3
    <3>2. i + 1 = j + 1
      BY <1>1, <1>6, <1>9, <3>1 DEF NoRepeats
    <3> QED
      BY <3>2
  <2>2. s[1] \notin ToSet(t)
    <3> SUFFICES ASSUME NEW i \in 1..(n - 1), t[i] = s[1] PROVE FALSE
      BY <1>4 DEF ToSet
    <3>1. s[i + 1] = s[1]
      BY <1>3
    <3> QED
      BY <1>1, <1>5, <1>6, <1>9, <3>1 DEF NoRepeats
  <2> QED
    BY <2>1, <2>2
<1> QED
  BY <1>1, <1>2, <1>3, <1>4, <1>5, <1>8, <1>9

LEMMA ReversedList ==
  ASSUME NEW S, NEW s \in Seq(S)
  PROVE  /\ Reverse(s) \in Seq(S) /\ DOMAIN Reverse(s) = 1..Len(s) /\ ToSet(Reverse(s)) = ToSet(s)
         /\ \A i \in 1..Len(s) : Reverse(s)[i] = s[(Len(s) - i) + 1] /\ (Len(s) - i) + 1 \in 1..Len(s)
<1>1. PICK n \in Nat : n = Len(s) /\ DOMAIN s = 1..n
  BY LenProperties
<1>2. PICK r : r = Reverse(s)
  OBVIOUS
<1>3. \A i \in 1..n : (n - i) + 1 \in 1..n /\ (n - ((n - i) + 1)) + 1 = i
  OBVIOUS
<1>4. r = [i \in 1..n |-> s[(n - i) + 1]]
  BY <1>1, <1>2 DEF Reverse
<1>5. r \in [1..n -> S]
  BY <1>1, <1>3, <1>4
<1>6. DOMAIN r = 1..n /\ \A i \in 1..n : r[i] = s[(n - i) + 1]
  BY <1>4
<1>7. ToSet(r) = ToSet(s)
  <2>1. ASSUME NEW i \in 1..n PROVE r[i] \in ToSet(s)
    BY <1>1, <1>3, <1>6 DEF ToSet
  <2>2. ASSUME NEW i \in 1..n PROVE s[i] \in ToSet(r)
    <3>1. (n - i) + 1 \in 1..n /\ r[(n - i) + 1] = s[i]
      BY <1>3, <1>6
    <3> QED
      BY <1>6, <3>1 DEF ToSet
  <2> QED
    BY <1>1, <1>6, <2>1, <2>2 DEF ToSet
<1> QED
  BY <1>1, <1>2, <1>3, <1>5, <1>6, <1>7, IsSequence

LEMMA StackOps ==
  ASSUME NEW S, NEW s \in Seq(S), s # <<>>
  PROVE  /\ Len(s) \in Nat \ {0} /\ DOMAIN s = 1..Len(s) /\ s[Len(s)] \in S
         /\ SubSeq(s, 1, Len(s) - 1) \in Seq(S) /\ Len(SubSeq(s, 1, Len(s) - 1)) = Len(s) - 1
         /\ \A c \in S : /\ [s EXCEPT ![Len(s)] = c] \in Seq(S)
                         /\ Len([s EXCEPT ![Len(s)] = c]) = Len(s)
                         /\ [s EXCEPT ![Len(s)] = c][Len(s)] = c
<1>1. PICK n \in Nat : n = Len(s) /\ DOMAIN s = 1..n /\ n # 0 /\ s \in [1..n -> S]
  BY LenProperties, EmptySeq
<1>2. n \in 1..n /\ n - 1 \in Nat
  BY <1>1
<1>3. SubSeq(s, 1, n - 1) \in Seq(S) /\ Len(SubSeq(s, 1, n - 1)) = n - 1
  <2>1. Front(s) \in Seq(S) /\ Len(Front(s)) = n - 1
    BY <1>1, LastOfList
  <2> QED
    BY <1>1, <2>1 DEF Front
<1>4. ASSUME NEW c \in S
      PROVE  LET e == [s EXCEPT ![n] = c] IN e \in Seq(S) /\ Len(e) = n /\ e[n] = c
  <2>1. [s EXCEPT ![n] = c] \in [1..n -> S] /\ [s EXCEPT ![n] = c][n] = c
    BY <1>1, <1>2
  <2> QED
    BY <2>1, IsSequence
<1> QED
  BY <1>1, <1>2, <1>3, <1>4


LEMMA WiderList ==
  ASSUME NEW S, NEW T, S \subseteq T, NEW s \in Seq(S)
  PROVE  s \in Seq(T)
<1>1. Len(s) \in Nat /\ s \in [1..Len(s) -> S]
  BY LenProperties
<1>2. s \in [1..Len(s) -> T]
  BY <1>1
<1> QED
  BY <1>1, <1>2, IsSequence

\* The lists of the loaded mods.
LEMMA LoadedLists ==
  ASSUME ControlTypes
  PROVE  /\ loaded \in SUBSET Nat /\ IsFiniteSet(loaded)
         /\ LoadedDeps \in [loaded -> Seq(Nat)]
         /\ \A m \in loaded : LoadedDeps[m] = deps[m]
<1>1. loaded \in SUBSET Names /\ deps \in [Names -> Seq(Names)]
  BY DEF ControlTypes
<1>2. Names \subseteq Nat /\ IsFiniteSet(loaded)
  BY <1>1, ModControlAssumption, FS_Subset
<1>3. \A m \in loaded : deps[m] \in Seq(Nat)
  <2> TAKE m \in loaded
  <2>1. deps[m] \in Seq(Names)
    BY <1>1
  <2> QED
    BY <1>2, <2>1, WiderList
<1> QED
  BY <1>1, <1>2, <1>3 DEF LoadedDeps

LEMMA OrderNames ==
  ASSUME ControlTypes, NEW m \in loaded, NEW cascade, NEW o \in DownOrder(m, cascade)
  PROVE  o \in Seq(loaded) /\ o \in Seq(Names)
<1>1. PICK q \in DependentsOf(LoadedDeps, m) : o = Append(q, m)
  BY DEF DownOrder
<1>2. q \in Seq(loaded \ {m})
  <2>1. PICK L : L = LoadedDeps
    OBVIOUS
  <2>2. L \in [loaded -> Seq(Nat)] /\ loaded \in SUBSET Nat /\ IsFiniteSet(loaded)
    BY <2>1, LoadedLists
  <2> QED
    BY <1>1, <2>1, <2>2, AnswerNames
<1>3. q \in Seq(loaded)
  BY <1>2, WiderList
<1>4. o \in Seq(loaded)
  BY <1>1, <1>3, AppendList
<1>5. loaded \subseteq Names
  BY DEF ControlTypes
<1> QED
  BY <1>4, <1>5, WiderList

LEMMA SafeStep ==
  ASSUME SafeInv, [Next]_vars
  PROVE  SafeInv'
<1> USE DEF SafeInv
<1>1. ControlTypes /\ stack \in Seq(MarkedCommands)
  OBVIOUS
<1>2. /\ disk \in [Names -> Manifest] /\ loaded \in SUBSET Names
      /\ deps \in [Names -> Seq(Names)]
      /\ \A m \in Names : disk[m].deps \in Seq(Names) /\ disk[m].safe \in BOOLEAN
  BY DEF ControlTypes, Manifest
<1>3. \A c \in MarkedCommands : c \in Commands
  BY DEF MarkedCommands
<1>4. ASSUME disk' = disk, loaded' \in SUBSET Names, deps' \in [Names -> Seq(Names)],
             stack' \in Seq(MarkedCommands)
      PROVE  SafeInv'
  <2>1. MarkedCommands' = MarkedCommands
    BY <1>4 DEF MarkedCommands, Marked, Commands
  <2>2. stack' \in Seq(Commands)
    BY <1>3, <1>4, WiderList
  <2> QED
    BY <1>2, <1>4, <2>1, <2>2 DEF ControlTypes
<1>5. ASSUME stack # <<>>
      PROVE  /\ Top \in MarkedCommands /\ Top \in Commands
             /\ Pop => stack' \in Seq(MarkedCommands)
             /\ \A c \in MarkedCommands : SetTop(c) => stack' \in Seq(MarkedCommands)
             /\ Top.todo # <<>> => /\ Head(Top.todo) \in Names
                                   /\ Tail(Top.todo) \in Seq(Names)
                                   /\ ToSet(Top.todo) = {Head(Top.todo)} \union ToSet(Tail(Top.todo))
  <2>1. /\ Top \in MarkedCommands
        /\ Pop => stack' \in Seq(MarkedCommands)
        /\ \A c \in MarkedCommands : SetTop(c) => stack' \in Seq(MarkedCommands)
    BY <1>5, StackOps DEF Top, Pop, SetTop
  <2>2. Top \in Commands
    BY <1>3, <2>1
  <2>3. Top.todo \in Seq(Names)
    BY <2>2 DEF Commands
  <2>4. Top.todo # <<>> => /\ Head(Top.todo) \in Names
                           /\ Tail(Top.todo) \in Seq(Names)
                           /\ ToSet(Top.todo) = {Head(Top.todo)} \union ToSet(Tail(Top.todo))
    BY <2>3, TailOfList
  <2> QED
    BY <2>1, <2>2, <2>4
<1>6. ToSet(<<>>) = {} /\ <<>> \in Seq(Names)
  BY DEF ToSet
<1>7. \A c \in MarkedCommands : Append(stack, c) \in Seq(MarkedCommands)
  BY Appended
<1>8. ASSUME NEW m \in RustMods, CmdLoad(m) PROVE SafeInv'
  <2>1. <<m>> \in Seq(Names)
    BY DEF Names
  <2>2. Command("load", "up", <<m>>) \in MarkedCommands
    BY <1>2, <1>6, <2>1 DEF Command, MarkedCommands, Commands, Marked
  <2> QED
    BY <1>2, <1>4, <1>7, <1>8, <2>2 DEF CmdLoad
<1>9. ASSUME NEW m \in RustMods, NEW cascade \in BOOLEAN, CmdUnload(m, cascade) PROVE SafeInv'
  <2>1. PICK o \in DownOrder(m, cascade) : stack' = Append(stack, Command("unload", "down", o))
    BY <1>9 DEF CmdUnload
  <2>2. m \in loaded
    BY <1>9 DEF CmdUnload
  <2>3. o \in Seq(Names)
    BY <1>1, <2>1, <2>2, OrderNames
  <2>4. Command("unload", "down", o) \in MarkedCommands
    BY <1>2, <1>6, <2>3 DEF Command, MarkedCommands, Commands, Marked
  <2> QED
    BY <1>2, <1>4, <1>7, <1>9, <2>1, <2>4 DEF CmdUnload
<1>10. ASSUME NEW m \in RustMods, NEW cascade \in BOOLEAN, CmdReload(m, cascade) PROVE SafeInv'
  <2>1. PICK o \in DownOrder(m, cascade) :
          Gate(o) /\ stack' = Append(stack, Command("reload", "down", o))
    BY <1>10 DEF CmdReload
  <2>2. m \in loaded
    BY <1>10 DEF CmdReload
  <2>3. o \in Seq(Names)
    BY <1>1, <2>1, <2>2, OrderNames
  <2>4. Command("reload", "down", o) \in MarkedCommands
    BY <1>2, <1>6, <2>1, <2>3 DEF Command, MarkedCommands, Commands, Marked, Gate
  <2> QED
    BY <1>2, <1>4, <1>7, <1>10, <2>1, <2>4 DEF CmdReload
<1>11. ASSUME NEW m \in RustMods, NEW mf \in Edits, EditManifest(m, mf) PROVE SafeInv'
  <2>1. stack' = <<>>
    BY <1>11 DEF EditManifest
  <2>2. mf \in Manifest
    BY ModControlAssumption
  <2>3. disk' \in [Names -> Manifest] /\ loaded' = loaded /\ deps' = deps
    BY <1>2, <1>11, <2>2 DEF EditManifest
  <2> QED
    BY <1>2, <2>1, <2>3 DEF ControlTypes
<1>12. CASE BeginDown
  <2>1. stack # <<>> /\ Top.todo # <<>>
    BY <1>12 DEF BeginDown, Doing
  <2>2. PICK c : c = Top
    OBVIOUS
  <2>3. [c EXCEPT !.entered = TRUE] \in MarkedCommands /\ [c EXCEPT !.todo = Tail(@)] \in MarkedCommands
    BY <1>5, <2>1, <2>2 DEF MarkedCommands, Commands, Marked
  <2> QED
    BY <1>2, <1>4, <1>5, <1>12, <2>1, <2>2, <2>3 DEF BeginDown
<1>13. CASE EndDown
  <2>1. stack # <<>> /\ Top.todo # <<>> /\ Top.at = "down"
    BY <1>13 DEF EndDown, Doing
  <2>2. PICK c : c = Top
    OBVIOUS
  <2>3. PICK n : n = [c EXCEPT !.entered = FALSE, !.todo = Tail(@),
                               !.down = Append(@, Head(c.todo))]
    OBVIOUS
  <2>4. Append(c.down, Head(c.todo)) \in Seq(Names)
        /\ ToSet(Append(c.down, Head(c.todo))) = ToSet(c.down) \union {Head(c.todo)}
    <3>1. c.down \in Seq(Names) /\ Head(c.todo) \in Names
      BY <1>5, <2>1, <2>2 DEF Commands
    <3> QED
      BY <3>1, AppendList
  <2>5. n \in Commands
    BY <1>5, <2>1, <2>2, <2>3, <2>4 DEF Commands
  <2>6. Marked(n)
    BY <1>5, <2>1, <2>2, <2>3, <2>4 DEF MarkedCommands, Commands, Marked
  <2>7. n \in MarkedCommands
    BY <2>5, <2>6 DEF MarkedCommands
  <2> QED
    BY <1>2, <1>4, <1>5, <1>13, <2>1, <2>2, <2>3, <2>7 DEF EndDown
<1>14. CASE FailDown
  <2>1. stack # <<>> /\ Pop
    BY <1>14 DEF FailDown, Doing
  <2> QED
    BY <1>2, <1>4, <1>5, <1>14, <2>1 DEF FailDown
<1>15. CASE Turn
  <2>1. stack # <<>> /\ Top.todo = <<>> /\ Top.at = "down"
    BY <1>15 DEF Turn
  <2>2. PICK c : c = Top
    OBVIOUS
  <2>3. Reverse(c.down) \in Seq(Names)
    <3>1. c.down \in Seq(Names)
      BY <1>5, <2>1, <2>2 DEF Commands
    <3> QED
      BY <3>1, ReversedList
  <2>4. [c EXCEPT !.at = "up", !.todo = Reverse(c.down)] \in MarkedCommands
    BY <1>5, <2>1, <2>2, <2>3 DEF MarkedCommands, Commands, Marked
  <2> QED
    BY <1>2, <1>4, <1>5, <1>15, <2>1, <2>2, <2>4 DEF Turn
<1>16. CASE BeginUp
  <2>1. stack # <<>> /\ Top.todo # <<>>
    BY <1>16 DEF BeginUp, Doing
  <2>2. PICK c : c = Top
    OBVIOUS
  <2>3. [c EXCEPT !.entered = TRUE] \in MarkedCommands
    BY <1>5, <2>1, <2>2 DEF MarkedCommands, Commands, Marked
  <2>4. deps' \in [Names -> Seq(Names)]
    BY <1>2, <1>5, <1>16, <2>1 DEF BeginUp
  <2> QED
    BY <1>2, <1>4, <1>5, <1>16, <2>1, <2>2, <2>3, <2>4 DEF BeginUp
<1>17. CASE MainUp
  <2>1. stack # <<>> /\ Top.todo # <<>> /\ Top.at = "up"
    BY <1>17 DEF MainUp, Doing
  <2>2. PICK c : c = Top
    OBVIOUS
  <2>3. [c EXCEPT !.at = "enable"] \in MarkedCommands
    BY <1>5, <2>1, <2>2 DEF MarkedCommands, Commands, Marked
  <2>4. loaded' \in SUBSET Names
    BY <1>2, <1>5, <1>17, <2>1 DEF MainUp
  <2> QED
    BY <1>2, <1>4, <1>5, <1>17, <2>1, <2>2, <2>3, <2>4 DEF MainUp
<1>18. CASE EndUp
  <2>1. stack # <<>> /\ Top.todo # <<>> /\ Top.at = "enable"
    BY <1>18 DEF EndUp, Doing
  <2>2. PICK c : c = Top
    OBVIOUS
  <2>3. [c EXCEPT !.at = "up", !.entered = FALSE, !.todo = Tail(@)] \in MarkedCommands
    BY <1>5, <2>1, <2>2 DEF MarkedCommands, Commands, Marked
  <2> QED
    BY <1>2, <1>4, <1>5, <1>18, <2>1, <2>2, <2>3 DEF EndUp
<1>19. CASE FailUp
  <2>1. stack # <<>> /\ Pop /\ disk' = disk /\ deps' = deps
    BY <1>19 DEF FailUp, Doing
  <2>2. loaded' \in SUBSET Names
    BY <1>2, <1>19 DEF FailUp
  <2> QED
    BY <1>2, <1>4, <1>5, <2>1, <2>2
<1>20. CASE Finish
  <2>1. stack # <<>> /\ Pop
    BY <1>20 DEF Finish
  <2> QED
    BY <1>2, <1>4, <1>5, <1>20, <2>1 DEF Finish
<1>21. CASE UNCHANGED vars
  BY <1>1, <1>2, <1>4, <1>21 DEF vars
<1> QED
  BY <1>8, <1>9, <1>10, <1>11, <1>12, <1>13, <1>14, <1>15, <1>16, <1>17, <1>18, <1>19, <1>20,
     <1>21 DEF Next


LEMMA TypedInit ==
  ASSUME Init
  PROVE  ControlTypes /\ stack = <<>>
<1>1. Disks \subseteq [Names -> Manifest]
  BY ModControlAssumption
<1>2. disk \in [Names -> Manifest] /\ loaded \in SUBSET Names /\ stack = <<>>
  BY <1>1 DEF Init
<1>3. \A m \in Names : disk[m].deps \in Seq(Names)
  BY <1>2 DEF Manifest
<1>4. deps \in [Names -> Seq(Names)]
  BY <1>3 DEF Init
<1> QED
  BY <1>2, <1>4 DEF ControlTypes

LEMMA SafeThroughout == Spec => []SafeInv
<1>1. Init => SafeInv
  BY TypedInit DEF SafeInv
<1>2. SafeInv /\ [Next]_vars => SafeInv'
  BY SafeStep
<1> QED
  BY <1>1, <1>2, PTL DEF Spec

\* Whatever commands nest in one another and whichever steps fail, only mods marked
\* reload_safe go through a reload, the dependents of a cascade included: cmdReload
\* asks before it takes anything down, and the order it asks about is the one it
\* follows.
THEOREM OnlySafeReloadedTheorem == Spec => []OnlySafeReloaded
<1>1. SafeInv => OnlySafeReloaded
  <2> SUFFICES ASSUME SafeInv, NEW d \in DOMAIN stack PROVE Marked(stack[d])
    BY DEF OnlySafeReloaded, Marked
  <2>1. Len(stack) \in Nat /\ stack \in [1..Len(stack) -> MarkedCommands]
    BY LenProperties DEF SafeInv
  <2>2. stack[d] \in MarkedCommands
    BY <2>1
  <2> QED
    BY <2>2 DEF MarkedCommands
<1> QED
  BY <1>1, SafeThroughout, PTL


-----------------------------------------------------------------------------
(* One command after another, on manifests that stay as they were loaded.  *)

LEMMA SoundLess ==
  ASSUME NEW X, NEW L, NEW d, Sound(X, L, d), NEW h, \A m \in X : h \notin ToSet(L[m])
  PROVE  Sound(X \ {h}, L, d)
<1>1. LoopFree(X \ {h}, L)
  <2>1. \A T \in SUBSET (X \ {h}) : T \in SUBSET X
    OBVIOUS
  <2> QED
    BY <2>1 DEF Sound, LoopFree
<1> QED
  BY <1>1 DEF Sound

LEMMA SoundMore ==
  ASSUME NEW X, NEW L, NEW d, Sound(X, L, d), NEW h, h \notin X, d[h] = L[h],
         ToSet(L[h]) \subseteq X
  PROVE  Sound(X \union {h}, L, d) /\ \A m \in X \union {h} : h \notin ToSet(L[m])
<1>1. \A m \in X \union {h} : d[m] = L[m] /\ ToSet(L[m]) \subseteq X
  BY DEF Sound
<1>2. \A m \in X \union {h} : h \notin ToSet(L[m])
  BY <1>1
<1>3. LoopFree(X \union {h}, L)
  <2> SUFFICES ASSUME NEW T \in SUBSET (X \union {h}), T # {}
               PROVE  \E m \in T : \A n \in T : m \notin ToSet(L[n])
    BY DEF LoopFree
  <2>1. CASE h \in T
    BY <1>2, <2>1
  <2>2. CASE h \notin T
    <3>1. T \in SUBSET X
      BY <2>2
    <3> QED
      BY <3>1 DEF Sound, LoopFree
  <2> QED
    BY <2>1, <2>2
<1> QED
  BY <1>1, <1>2, <1>3 DEF Sound

LEMMA SoundSame ==
  ASSUME NEW X, NEW L, NEW d, Sound(X, L, d), NEW K, NEW e,
         \A m \in X : K[m] = L[m] /\ e[m] = d[m]
  PROVE  Sound(X, K, e)
<1>1. LoopFree(X, K)
  <2>1. \A T \in SUBSET X : \A m \in T : K[m] = L[m]
    OBVIOUS
  <2> QED
    BY <2>1 DEF Sound, LoopFree
<1> QED
  BY <1>1 DEF Sound

\* controlUnload of the next mod succeeds.
LEMMA OneDown ==
  ASSUME NEW c \in Commands, NEW X, NEW L, NEW d, GoingDown(c, X, L), Sound(X, L, d), c.todo # <<>>,
         NEW n, n = [c EXCEPT !.entered = FALSE, !.todo = Tail(@),
                              !.down = Append(@, Head(c.todo))]
  PROVE  /\ Sound(X \ {Head(c.todo)}, L, d)
         /\ GoingDown(n, X \ {Head(c.todo)}, L)
<1>1. /\ c.todo \in Seq(Names) /\ c.down \in Seq(Names)
      /\ n.cmd = c.cmd /\ n.entered = FALSE /\ n.todo = Tail(c.todo)
      /\ n.down = Append(c.down, Head(c.todo))
  BY DEF Commands
<1>2. PICK h : h = Head(c.todo)
  OBVIOUS
<1>3. PICK s : s = c.todo
  OBVIOUS
<1>4. PICK t : t = Tail(s)
  OBVIOUS
<1>5. PICK k \in Nat : /\ k # 0 /\ DOMAIN s = 1..k /\ s[1] = h /\ h \in Names
                       /\ DOMAIN t = 1..(k - 1) /\ \A i \in 1..(k - 1) : t[i] = s[i + 1]
                       /\ ToSet(s) = {h} \union ToSet(t)
                       /\ NoRepeats(t) /\ h \notin ToSet(t)
  <2>1. NoRepeats(s) /\ s \in Seq(Names) /\ s # <<>>
    BY <1>1, <1>3 DEF GoingDown
  <2> QED
    BY <1>2, <1>3, <1>4, <2>1, TailOfList
<1>6. h \in X /\ \A m \in X : h \notin ToSet(L[m])
  <2>1. ToSet(s) \subseteq X /\ DependentsFirst(X, L, s)
    BY <1>3 DEF GoingDown
  <2>2. 1 \in DOMAIN s /\ 1..(1 - 1) = {}
    BY <1>5
  <2> QED
    BY <1>5, <2>1, <2>2 DEF DependentsFirst
<1>7. Sound(X \ {h}, L, d)
  BY <1>6, SoundLess
<1>8. ToSet(t) \subseteq X \ {h}
  BY <1>3, <1>5 DEF GoingDown
<1>9. DependentsFirst(X \ {h}, L, t)
  <2> SUFFICES ASSUME NEW i \in 1..(k - 1), NEW m \in X \ {h}, t[i] \in ToSet(L[m])
               PROVE  \E j \in 1..(i - 1) : t[j] = m
    BY <1>5 DEF DependentsFirst
  <2>1. i + 1 \in 1..k /\ s[i + 1] \in ToSet(L[m])
    BY <1>5
  <2>2. PICK j \in 1..((i + 1) - 1) : s[j] = m
    BY <1>3, <1>5, <2>1 DEF GoingDown, DependentsFirst
  <2>3. j # 1
    BY <1>5, <2>2
  <2>4. j - 1 \in 1..(i - 1) /\ j - 1 \in 1..(k - 1) /\ (j - 1) + 1 = j
    BY <2>2, <2>3
  <2>5. t[j - 1] = m
    BY <1>5, <2>2, <2>4
  <2> QED
    BY <2>4, <2>5
<1>10. PICK w : w = Append(c.down, h)
  OBVIOUS
<1>11. PICK v : v = c.down
  OBVIOUS
<1>12. PICK l \in Nat : /\ DOMAIN v = 1..l /\ DOMAIN w = 1..(l + 1)
                        /\ w[l + 1] = h /\ \A i \in 1..l : w[i] = v[i]
  <2>1. v \in Seq(Names) /\ h \in Names /\ w = Append(v, h)
    BY <1>1, <1>5, <1>10, <1>11
  <2>2. Len(v) \in Nat /\ DOMAIN v = 1..Len(v)
    BY <2>1, LenProperties
  <2>3. /\ DOMAIN w = 1..(Len(v) + 1) /\ w[Len(v) + 1] = h
        /\ \A i \in 1..Len(v) : w[i] = v[i]
    BY <2>1, Appended
  <2> QED
    BY <2>2, <2>3
<1>14. ASSUME NEW i \in 1..(l + 1), NEW x \in ToSet(L[w[i]]), x \notin X \ {h}
       PROVE  x \in {w[j] : j \in {q \in DOMAIN w : q > i}}
  <2>1. CASE i = l + 1
    <3>1. w[i] = h /\ h \in X
      BY <1>6, <1>12, <2>1
    <3>2. x \in X /\ x # h
      BY <1>6, <1>14, <3>1 DEF Sound
    <3> QED
      BY <1>14, <3>2
  <2>2. CASE i \in 1..l
    <3>1. x \in X \union {v[j] : j \in {q \in 1..l : q > i}}
      BY <1>11, <1>12, <1>14, <2>2 DEF GoingDown, LaterOrLoaded
    <3>2. CASE x = h
      <4>1. l + 1 \in DOMAIN w /\ l + 1 > i
        BY <1>12, <2>2
      <4> QED
        BY <1>12, <3>2, <4>1
    <3>3. CASE x # h
      <4>1. PICK j \in 1..l : j > i /\ x = v[j]
        BY <1>14, <3>1, <3>3
      <4>2. j \in DOMAIN w /\ w[j] = x
        BY <1>12, <4>1
      <4> QED
        BY <4>1, <4>2
    <3> QED
      BY <3>2, <3>3
  <2> QED
    BY <2>1, <2>2
<1>15. LaterOrLoaded(w, X \ {h}, L)
  BY <1>12, <1>14 DEF LaterOrLoaded
<1>17. GoingDown(n, X \ {h}, L)
  <2>1. n.todo = t /\ n.down = w /\ n.cmd = c.cmd /\ n.entered = FALSE
    BY <1>1, <1>2, <1>3, <1>4, <1>10
  <2>2. c.cmd \in {"unload", "reload"}
    BY DEF GoingDown
  <2>3. NoRepeats(t)
    BY <1>5
  <2>4. LaterOrLoaded(n.down, X \ {h}, L)
    BY <1>15, <2>1
  <2>5. /\ ToSet(n.todo) \subseteq X \ {h} /\ NoRepeats(n.todo)
        /\ DependentsFirst(X \ {h}, L, n.todo)
    BY <1>8, <1>9, <2>1, <2>3
  <2> QED
    BY <2>1, <2>2, <2>4, <2>5 DEF GoingDown
<1> QED
  BY <1>2, <1>7, <1>17

\* The reload turns around: what came down last comes up first.
LEMMA TurnedAround ==
  ASSUME NEW c \in Commands, NEW X, NEW L, NEW d, GoingDown(c, X, L), c.todo = <<>>,
         NEW n, n = [c EXCEPT !.at = "up", !.todo = Reverse(c.down)]
  PROVE  GoingUp(n, X, L, d)
<1>1. /\ c.down \in Seq(Names) /\ n.cmd = c.cmd /\ n.entered = c.entered /\ n.at = "up"
      /\ n.todo = Reverse(c.down)
  BY DEF Commands
<1>2. ~ c.entered
  BY DEF GoingDown
<1>3. PICK s : s = c.down
  OBVIOUS
<1>4. PICK r : r = Reverse(s)
  OBVIOUS
<1>5. PICK k \in Nat : /\ DOMAIN s = 1..k /\ DOMAIN r = 1..k
                       /\ \A i \in 1..k : r[i] = s[(k - i) + 1] /\ (k - i) + 1 \in 1..k
  BY <1>1, <1>3, <1>4, ReversedList, LenProperties
<1>6. ASSUME NEW i \in 1..k, NEW x \in ToSet(L[r[i]]), x \notin X
      PROVE  x \in {r[j] : j \in {q \in DOMAIN r : q < i}}
  <2>1. PICK p \in 1..k : p = (k - i) + 1 /\ r[i] = s[p]
    BY <1>5
  <2>2. PICK j \in 1..k : j > p /\ x = s[j]
    BY <1>3, <1>5, <1>6, <2>1 DEF GoingDown, LaterOrLoaded
  <2>3. (k - j) + 1 \in 1..k /\ (k - j) + 1 < i /\ (k - ((k - j) + 1)) + 1 = j
    BY <2>1, <2>2
  <2>4. r[(k - j) + 1] = x
    BY <1>5, <2>2, <2>3
  <2> QED
    BY <1>5, <2>3, <2>4
<1>7. EarlierOrLoaded(r, X, L)
  BY <1>5, <1>6 DEF EarlierOrLoaded
<1> QED
  BY <1>1, <1>2, <1>3, <1>4, <1>7 DEF GoingUp

\* What the next mod to come up needs is there.
LEMMA NextUp ==
  ASSUME NEW c \in Commands, NEW X, NEW L, NEW d, GoingUp(c, X, L, d), c.todo # <<>>
  PROVE  ToSet(L[Head(c.todo)]) \subseteq X
<1>1. PICK s \in Seq(Names) : s = c.todo
  BY DEF Commands
<1>2. PICK k \in Nat : k # 0 /\ DOMAIN s = 1..k /\ Head(s) = s[1]
  BY <1>1, TailOfList
<1>3. 1 \in DOMAIN s /\ {q \in DOMAIN s : q < 1} = {}
  BY <1>2
<1>4. ToSet(L[s[1]]) \subseteq X \union {s[j] : j \in {q \in DOMAIN s : q < 1}}
  BY <1>1, <1>3 DEF GoingUp, EarlierOrLoaded
<1> QED
  BY <1>1, <1>2, <1>3, <1>4

\* The next mod has come up.
LEMMA OneUp ==
  ASSUME NEW c \in Commands, NEW X, NEW L, NEW d, GoingUp(c, X, L, d), c.at = "enable",
         NEW n, n = [c EXCEPT !.at = "up", !.entered = FALSE, !.todo = Tail(@)]
  PROVE  GoingUp(n, X, L, d)
<1>1. /\ c.todo \in Seq(Names) /\ n.cmd = c.cmd /\ n.entered = FALSE /\ n.at = "up"
      /\ n.todo = Tail(c.todo)
  BY DEF Commands
<1>2. PICK s : s = c.todo
  OBVIOUS
<1>3. PICK t : t = Tail(s)
  OBVIOUS
<1>4. s # <<>> /\ Head(s) \in X
  BY <1>2 DEF GoingUp
<1>5. PICK k \in Nat : /\ k # 0 /\ DOMAIN s = 1..k /\ Head(s) = s[1]
                       /\ DOMAIN t = 1..(k - 1) /\ \A i \in 1..(k - 1) : t[i] = s[i + 1]
  BY <1>1, <1>2, <1>3, <1>4, TailOfList
<1>6. ASSUME NEW i \in 1..(k - 1), NEW x \in ToSet(L[t[i]]), x \notin X
      PROVE  x \in {t[j] : j \in {q \in DOMAIN t : q < i}}
  <2>1. i + 1 \in 1..k /\ t[i] = s[i + 1]
    BY <1>5
  <2>2. PICK j \in 1..k : j < i + 1 /\ x = s[j]
    BY <1>2, <1>5, <1>6, <2>1 DEF GoingUp, EarlierOrLoaded
  <2>3. j # 1
    BY <1>4, <1>5, <1>6, <2>2
  <2>4. j - 1 \in 1..(k - 1) /\ j - 1 < i /\ (j - 1) + 1 = j
    BY <2>2, <2>3
  <2>5. t[j - 1] = x
    BY <1>5, <2>2, <2>4
  <2> QED
    BY <1>5, <2>4, <2>5
<1>7. EarlierOrLoaded(t, X, L)
  BY <1>5, <1>6 DEF EarlierOrLoaded
<1> QED
  BY <1>1, <1>2, <1>3, <1>7 DEF GoingUp


\* The order a command goes by.
LEMMA PlanGoesDown ==
  ASSUME ControlTypes, Sound(loaded, Listed, deps),
         NEW m \in loaded, NEW cascade, NEW o \in DownOrder(m, cascade)
  PROVE  /\ ToSet(o) \subseteq loaded /\ NoRepeats(o)
         /\ DependentsFirst(loaded, Listed, o)
<1>1. PICK q \in DependentsOf(LoadedDeps, m) : o = Append(q, m)
  BY DEF DownOrder
<1>2. PICK L : L = LoadedDeps
  OBVIOUS
<1>3. /\ L \in [loaded -> Seq(Nat)] /\ loaded \in SUBSET Nat /\ IsFiniteSet(loaded)
      /\ \A n \in loaded : L[n] = deps[n]
  BY <1>2, LoadedLists
<1>4. \A n \in loaded : L[n] = Listed[n]
  BY <1>3 DEF Sound
<1>5. LoopFree(loaded, L)
  <2>1. \A T \in SUBSET loaded : \A n \in T : L[n] = Listed[n]
    BY <1>4
  <2> QED
    BY <2>1 DEF Sound, LoopFree
<1>6. o \in Seq(loaded) /\ NoRepeats(o) /\ DependentsFirst(loaded, L, o)
  BY <1>1, <1>2, <1>3, <1>5, PlanIsOrdered
<1>7. DependentsFirst(loaded, Listed, o)
  BY <1>4, <1>6 DEF DependentsFirst
<1> QED
  BY <1>6, <1>7, ListSet

LEMMA OneCommand ==
  ASSUME NEW S, NEW s \in Seq(S), Len(s) <= 1
  PROVE  /\ s # <<>> => /\ Len(s) = 1 /\ SubSeq(s, 1, Len(s) - 1) = <<>>
                        /\ \A c : LET e == [s EXCEPT ![Len(s)] = c]
                                  IN e # <<>> /\ Len(e) = 1 /\ e[Len(e)] = c
         /\ s = <<>> => \A c : LET e == Append(s, c)
                               IN e # <<>> /\ Len(e) = 1 /\ e[Len(e)] = c
<1>1. ASSUME s # <<>>
      PROVE  Len(s) = 1 /\ SubSeq(s, 1, Len(s) - 1) = <<>>
  <2>1. Len(s) \in Nat \ {0}
    BY <1>1, StackOps
  <2>2. Len(s) = 1
    <3>1. PICK n : n = Len(s)
      OBVIOUS
    <3>2. n \in Nat \ {0} /\ n <= 1
      BY <2>1, <3>1
    <3> QED
      BY <3>1, <3>2
  <2>3. SubSeq(s, 1, Len(s) - 1) \in Seq(S) /\ Len(SubSeq(s, 1, Len(s) - 1)) = 0
    BY <1>1, <2>2, StackOps
  <2> QED
    BY <2>2, <2>3, EmptySeq
<1>2. ASSUME s # <<>>, NEW c
      PROVE  LET e == [s EXCEPT ![Len(s)] = c] IN e # <<>> /\ Len(e) = 1 /\ e[Len(e)] = c
  <2>1. PICK e : e = [s EXCEPT ![Len(s)] = c]
    OBVIOUS
  <2>2. s \in Seq(S \union {c})
    BY WiderList
  <2>3. Len(e) = Len(s) /\ e[Len(s)] = c /\ e \in Seq(S \union {c})
    BY <1>2, <2>1, <2>2, StackOps
  <2>4. Len(e) = 1 /\ e[Len(e)] = c
    BY <1>1, <1>2, <2>3
  <2>5. e # <<>>
    BY <2>3, <2>4, EmptySeq
  <2> QED
    BY <2>1, <2>4, <2>5
<1>3. ASSUME s = <<>>, NEW c
      PROVE  LET e == Append(s, c) IN e # <<>> /\ Len(e) = 1 /\ e[Len(e)] = c
  <2>1. PICK e : e = Append(s, c)
    OBVIOUS
  <2>2. s \in Seq(S \union {c}) /\ Len(s) = 0
    BY <1>3, EmptySeq
  <2>3. Len(e) = 1 /\ e[1] = c
    BY <2>1, <2>2, Appended
  <2> QED
    BY <2>1, <2>3
<1> QED
  BY <1>1, <1>2, <1>3

\* With one command at most the top is the stack.
LEMMA TopMoves ==
  ASSUME stack \in Seq(Commands), Len(stack) <= 1, stack # <<>>
  PROVE  /\ Top \in Commands
         /\ Pop => stack' = <<>> /\ Len(stack') <= 1
         /\ \A c : SetTop(c) => Len(stack') <= 1 /\ Top' = c
<1>1. Top \in Commands
  BY StackOps DEF Top
<1>2. /\ SubSeq(stack, 1, Len(stack) - 1) = <<>>
      /\ \A c : LET e == [stack EXCEPT ![Len(stack)] = c] IN Len(e) = 1 /\ e[Len(e)] = c
  BY OneCommand
<1>3. Len(<<>>) = 0
  OBVIOUS
<1> QED
  BY <1>1, <1>2, <1>3 DEF Pop, SetTop, Top

LEMMA TopBegins ==
  ASSUME MaxStack <= 1, stack \in Seq(Commands), Len(stack) <= 1, MayType,
         NEW c, stack' = Append(stack, c)
  PROVE  Len(stack') <= 1 /\ Top' = c
<1>1. Len(stack) \in Nat /\ MaxStack \in Nat /\ Len(stack) < MaxStack
  BY LenProperties, ModControlAssumption DEF MayType
<1>2. stack = <<>>
  <2>1. Len(stack) = 0
    BY <1>1
  <2> QED
    BY <2>1, EmptySeq
<1>3. LET e == Append(stack, c) IN Len(e) = 1 /\ e[Len(e)] = c
  BY <1>2, OneCommand
<1> QED
  BY <1>3 DEF Top

LEMMA ControlStep ==
  ASSUME MaxStack <= 1, EditLoaded = FALSE, ControlInv, [Next]_vars
  PROVE  ControlInv'
<1>1. /\ ControlTypes /\ Len(stack) <= 1
      /\ Sound(loaded, Listed, deps)
      /\ stack # <<>> => Ordered(Top, loaded, Listed, deps)
  BY DEF ControlInv, SafeInv
<1>2. /\ disk \in [Names -> Manifest] /\ loaded \in SUBSET Names
      /\ deps \in [Names -> Seq(Names)] /\ stack \in Seq(Commands)
      /\ \A m \in Names : Listed[m] = disk[m].deps /\ Listed[m] \in Seq(Names)
  BY <1>1 DEF ControlTypes, Manifest, Listed
<1>3. SafeInv'
  BY SafeStep DEF ControlInv
<1>4. disk' = disk => Listed' = Listed
  BY DEF Listed
<1>5. stack # <<>> => /\ Top \in Commands
                      /\ Pop => stack' = <<>> /\ Len(stack') <= 1
                      /\ \A c : SetTop(c) => Len(stack') <= 1 /\ Top' = c
  BY <1>1, <1>2, TopMoves
<1>6. ASSUME MayType, NEW c, stack' = Append(stack, c)
      PROVE  Len(stack') <= 1 /\ Top' = c
  BY <1>1, <1>2, <1>6, TopBegins
<1>7. ASSUME Len(stack') <= 1, Sound(loaded', Listed', deps'),
             stack' # <<>> => Ordered(Top', loaded', Listed', deps')
      PROVE  ControlInv'
  BY <1>3, <1>7 DEF ControlInv
<1>8. ASSUME NEW m \in RustMods, CmdLoad(m) PROVE ControlInv'
  <2>1. PICK c : c = Command("load", "up", <<m>>)
    OBVIOUS
  <2>2. m \in Names /\ ToSet(Listed[m]) \subseteq loaded
    BY <1>2, <1>8 DEF CmdLoad, Present, Names
  <2>3. c.todo = <<m>> /\ c.cmd = "load" /\ c.at = "up" /\ c.entered = FALSE
    BY <2>1 DEF Command
  <2>4. EarlierOrLoaded(<<m>>, loaded, Listed)
    BY <2>2 DEF EarlierOrLoaded
  <2>5. Ordered(c, loaded, Listed, deps)
    BY <2>3, <2>4 DEF Ordered, GoingUp
  <2> QED
    BY <1>1, <1>4, <1>6, <1>7, <1>8, <2>1, <2>5 DEF CmdLoad
<1>9. ASSUME NEW m \in loaded, NEW cascade \in BOOLEAN, NEW o \in DownOrder(m, cascade),
             NEW cmd \in {"unload", "reload"}
      PROVE  Ordered(Command(cmd, "down", o), loaded, Listed, deps)
  <2>1. PICK c : c = Command(cmd, "down", o)
    OBVIOUS
  <2>2. c.todo = o /\ c.cmd = cmd /\ c.at = "down" /\ c.entered = FALSE /\ c.down = <<>>
    BY <2>1 DEF Command
  <2>3. ToSet(o) \subseteq loaded /\ NoRepeats(o) /\ DependentsFirst(loaded, Listed, o)
    BY <1>1, PlanGoesDown
  <2>4. LaterOrLoaded(<<>>, loaded, Listed)
    BY DEF LaterOrLoaded
  <2> QED
    BY <2>1, <2>2, <2>3, <2>4 DEF Ordered, GoingDown
<1>10. ASSUME NEW m \in RustMods, NEW cascade \in BOOLEAN,
              CmdUnload(m, cascade) \/ CmdReload(m, cascade)
       PROVE  ControlInv'
  <2>1. PICK o \in DownOrder(m, cascade), cmd \in {"unload", "reload"} :
          stack' = Append(stack, Command(cmd, "down", o))
    BY <1>10 DEF CmdUnload, CmdReload
  <2>2. /\ MayType /\ m \in loaded /\ disk' = disk /\ loaded' = loaded /\ deps' = deps
    BY <1>10 DEF CmdUnload, CmdReload
  <2>3. PICK c : c = Command(cmd, "down", o)
    OBVIOUS
  <2>4. Ordered(c, loaded, Listed, deps)
    BY <1>9, <2>1, <2>2, <2>3
  <2> QED
    BY <1>1, <1>4, <1>6, <1>7, <2>1, <2>2, <2>3, <2>4
<1>11. ASSUME NEW m \in RustMods, NEW mf \in Edits, EditManifest(m, mf) PROVE ControlInv'
  <2>1. /\ stack' = <<>> /\ m \notin loaded /\ loaded' = loaded /\ deps' = deps
        /\ disk' = [disk EXCEPT ![m] = mf]
    BY <1>11 DEF EditManifest
  <2>2. \A n \in loaded : Listed'[n] = Listed[n] /\ deps'[n] = deps[n]
    BY <1>2, <2>1 DEF Listed
  <2>3. PICK K : K = Listed'
    OBVIOUS
  <2>4. Sound(loaded, K, deps)
    BY <1>1, <2>1, <2>2, <2>3, SoundSame
  <2>5. Len(<<>>) = 0
    OBVIOUS
  <2> QED
    BY <1>7, <2>1, <2>3, <2>4, <2>5
<1>12. CASE BeginDown
  <2>1. PICK c : c = Top
    OBVIOUS
  <2>2. stack # <<>> /\ c.todo # <<>> /\ c.at = "down" /\ c \in Commands /\ GoingDown(c, loaded, Listed)
    BY <1>1, <1>5, <1>12, <2>1 DEF BeginDown, Doing, Ordered
  <2>3. Head(c.todo) \in loaded
    <3>1. ToSet(c.todo) \subseteq loaded /\ c.todo \in Seq(Names)
      BY <2>2 DEF GoingDown, Commands
    <3> QED
      BY <2>2, <3>1, TailOfList
  <2>4. PICK n : n = [c EXCEPT !.entered = TRUE]
    OBVIOUS
  <2>5. /\ n.todo = c.todo /\ n.down = c.down /\ n.cmd = c.cmd
        /\ n.at = "down" /\ n.entered = TRUE
    BY <2>2, <2>4 DEF Commands
  <2>6. Ordered(n, loaded, Listed, deps)
    BY <2>2, <2>5 DEF Ordered, GoingDown
  <2>7. SetTop(n) /\ disk' = disk /\ loaded' = loaded /\ deps' = deps
    BY <1>12, <2>1, <2>3, <2>4 DEF BeginDown
  <2> QED
    BY <1>1, <1>4, <1>5, <1>7, <2>2, <2>6, <2>7
<1>13. CASE EndDown
  <2>1. PICK c : c = Top
    OBVIOUS
  <2>2. stack # <<>> /\ c.todo # <<>> /\ c.at = "down" /\ c \in Commands /\ GoingDown(c, loaded, Listed)
    BY <1>1, <1>5, <1>13, <2>1 DEF EndDown, Doing, Ordered
  <2>3. PICK n : n = [c EXCEPT !.entered = FALSE, !.todo = Tail(@),
                               !.down = Append(@, Head(c.todo))]
    OBVIOUS
  <2>4. PICK h : h = Head(c.todo)
    OBVIOUS
  <2>5. Sound(loaded \ {h}, Listed, deps) /\ GoingDown(n, loaded \ {h}, Listed)
    BY <1>1, <2>2, <2>3, <2>4, OneDown
  <2>6. n.at = "down"
    BY <2>2, <2>3 DEF Commands
  <2>7. SetTop(n) /\ disk' = disk /\ loaded' = loaded \ {h} /\ deps' = deps
    BY <1>13, <2>1, <2>3, <2>4 DEF EndDown
  <2> QED
    BY <1>4, <1>5, <1>7, <2>2, <2>5, <2>6, <2>7 DEF Ordered
<1>14. CASE FailDown
  <2>1. stack # <<>> /\ Pop /\ disk' = disk /\ loaded' = loaded /\ deps' = deps
    BY <1>14 DEF FailDown, Doing
  <2> QED
    BY <1>1, <1>4, <1>5, <1>7, <2>1
<1>15. CASE Turn
  <2>1. PICK c : c = Top
    OBVIOUS
  <2>2. stack # <<>> /\ c.todo = <<>> /\ c.at = "down" /\ c \in Commands /\ GoingDown(c, loaded, Listed)
    BY <1>1, <1>5, <1>15, <2>1 DEF Turn, Ordered
  <2>3. disk' = disk /\ loaded' = loaded /\ deps' = deps
    BY <1>15 DEF Turn
  <2>4. PICK n : n = [c EXCEPT !.at = "up", !.todo = Reverse(c.down)]
    OBVIOUS
  <2>5. n.at = "up" /\ GoingUp(n, loaded, Listed, deps)
    <3>1. n.at = "up"
      BY <2>2, <2>4 DEF Commands
    <3> QED
      BY <2>2, <2>4, <3>1, TurnedAround
  <2>6. SetTop(n) \/ Pop
    BY <1>15, <2>1, <2>4 DEF Turn
  <2> QED
    BY <1>1, <1>4, <1>5, <1>7, <2>2, <2>3, <2>5, <2>6 DEF Ordered
<1>16. CASE BeginUp
  <2>1. PICK c : c = Top
    OBVIOUS
  <2>2. /\ stack # <<>> /\ c.todo # <<>> /\ c.at = "up" /\ c \in Commands
        /\ GoingUp(c, loaded, Listed, deps)
    BY <1>1, <1>5, <1>16, <2>1 DEF BeginUp, Doing, Ordered
  <2>3. PICK h \in Names : h = Head(c.todo)
    <3>1. c.todo \in Seq(Names)
      BY <2>2 DEF Commands
    <3> QED
      BY <2>2, <3>1, TailOfList
  <2>4. /\ h \notin loaded /\ deps' = [deps EXCEPT ![h] = disk[h].deps]
        /\ disk' = disk /\ loaded' = loaded /\ SetTop([c EXCEPT !.entered = TRUE])
    BY <1>16, <2>1, <2>3 DEF BeginUp
  <2>5. PICK e : e = deps'
    OBVIOUS
  <2>6. e[h] = Listed[h] /\ \A m \in loaded : e[m] = deps[m]
    BY <1>2, <2>3, <2>4, <2>5
  <2>7. Sound(loaded, Listed, e)
    BY <1>1, <2>6, SoundSame
  <2>8. PICK n : n = [c EXCEPT !.entered = TRUE]
    OBVIOUS
  <2>9. /\ n.todo = c.todo /\ n.cmd = c.cmd
        /\ n.at = "up" /\ n.entered = TRUE
    BY <2>2, <2>8 DEF Commands
  <2>10. Ordered(n, loaded, Listed, e)
    BY <2>2, <2>3, <2>4, <2>6, <2>9 DEF Ordered, GoingUp
  <2> QED
    BY <1>4, <1>5, <1>7, <2>2, <2>4, <2>5, <2>7, <2>8, <2>10
<1>17. CASE MainUp
  <2>1. PICK c : c = Top
    OBVIOUS
  <2>2. /\ stack # <<>> /\ c.todo # <<>> /\ c.at = "up" /\ c.entered /\ c \in Commands
        /\ GoingUp(c, loaded, Listed, deps)
    BY <1>1, <1>5, <1>17, <2>1 DEF MainUp, Doing, Ordered
  <2>3. PICK h : h = Head(c.todo)
    OBVIOUS
  <2>4. h \notin loaded /\ deps[h] = Listed[h] /\ ToSet(Listed[h]) \subseteq loaded
    BY <2>2, <2>3, NextUp DEF GoingUp
  <2>5. h \in ToSet(c.todo)
    <3>1. c.todo \in Seq(Names)
      BY <2>2 DEF Commands
    <3> QED
      BY <2>2, <2>3, <3>1, TailOfList
  <2>6. PICK X : X = loaded \union {h}
    OBVIOUS
  <2>7. Sound(X, Listed, deps) /\ \A m \in X : h \notin ToSet(Listed[m])
    BY <1>1, <2>4, <2>6, SoundMore
  <2>8. PICK n : n = [c EXCEPT !.at = "enable"]
    OBVIOUS
  <2>9. n.todo = c.todo /\ n.cmd = c.cmd /\ n.at = "enable"
    BY <2>2, <2>8 DEF Commands
  <2>10. EarlierOrLoaded(n.todo, X, Listed)
    BY <2>2, <2>6, <2>9 DEF GoingUp, EarlierOrLoaded
  <2>11. Ordered(n, X, Listed, deps)
    BY <2>2, <2>3, <2>5, <2>6, <2>7, <2>9, <2>10 DEF Ordered, GoingUp
  <2>12. SetTop(n) /\ disk' = disk /\ loaded' = X /\ deps' = deps
    BY <1>17, <2>1, <2>3, <2>6, <2>8 DEF MainUp
  <2> QED
    BY <1>4, <1>5, <1>7, <2>2, <2>7, <2>11, <2>12
<1>18. CASE EndUp
  <2>1. PICK c : c = Top
    OBVIOUS
  <2>2. stack # <<>> /\ c.at = "enable" /\ c \in Commands /\ GoingUp(c, loaded, Listed, deps)
    BY <1>1, <1>5, <1>18, <2>1 DEF EndUp, Doing, Ordered
  <2>3. PICK n : n = [c EXCEPT !.at = "up", !.entered = FALSE, !.todo = Tail(@)]
    OBVIOUS
  <2>4. n.at = "up"
    BY <2>2, <2>3 DEF Commands
  <2>5. GoingUp(n, loaded, Listed, deps)
    BY <2>2, <2>3, OneUp
  <2>6. SetTop(n) /\ disk' = disk /\ loaded' = loaded /\ deps' = deps
    BY <1>18, <2>1, <2>3 DEF EndUp
  <2> QED
    BY <1>1, <1>4, <1>5, <1>7, <2>2, <2>4, <2>5, <2>6 DEF Ordered
<1>19. CASE FailUp
  <2>1. stack # <<>> /\ Pop /\ disk' = disk /\ deps' = deps
    BY <1>19 DEF FailUp, Doing
  <2>2. Sound(loaded', Listed, deps)
    <3>1. CASE loaded' = loaded
      BY <1>1, <3>1
    <3>2. CASE loaded' # loaded
      <4>1. PICK c : c = Top
        OBVIOUS
      <4>2. c.at = "enable" /\ loaded' = loaded \ {Head(c.todo)}
        BY <1>19, <3>2, <4>1 DEF FailUp, Doing
      <4>3. \A m \in loaded : Head(c.todo) \notin ToSet(Listed[m])
        BY <1>1, <2>1, <4>1, <4>2 DEF Ordered, GoingUp
      <4> QED
        BY <1>1, <4>2, <4>3, SoundLess
    <3> QED
      BY <3>1, <3>2
  <2> QED
    BY <1>4, <1>5, <1>7, <2>1, <2>2
<1>20. CASE Finish
  <2>1. stack # <<>> /\ Pop /\ disk' = disk /\ loaded' = loaded /\ deps' = deps
    BY <1>20 DEF Finish
  <2> QED
    BY <1>1, <1>4, <1>5, <1>7, <2>1
<1>21. CASE UNCHANGED vars
  <2>1. /\ stack' = stack /\ disk' = disk /\ loaded' = loaded /\ deps' = deps
    BY <1>21 DEF vars
  <2>2. Top' = Top
    BY <2>1 DEF Top
  <2> QED
    BY <1>1, <1>4, <1>7, <2>1, <2>2
<1> QED
  BY <1>8, <1>10, <1>11, <1>12, <1>13, <1>14, <1>15, <1>16, <1>17, <1>18, <1>19, <1>20,
     <1>21 DEF Next

LEMMA ControlInit ==
  ASSUME Init
  PROVE  ControlInv
<1>1. ControlTypes /\ stack = <<>>
  BY TypedInit
<1>2. SafeInv
  BY <1>1 DEF SafeInv
<1>3. loaded \in SUBSET Names /\ \A m \in Names : Listed[m] = disk[m].deps /\ deps[m] = disk[m].deps
  BY <1>1 DEF Init, Listed, ControlTypes
<1>4. /\ \A m \in loaded : ToSet(disk[m].deps) \subseteq loaded
      /\ \A T \in SUBSET loaded : T # {} => \E m \in T : \A n \in T : m \notin ToSet(disk[n].deps)
  BY DEF Init, Acyclic
<1>5. LoopFree(loaded, Listed)
  <2>1. \A T \in SUBSET loaded : \A m \in T : Listed[m] = disk[m].deps
    BY <1>3
  <2> QED
    BY <1>4, <2>1 DEF LoopFree
<1>6. Sound(loaded, Listed, deps)
  BY <1>3, <1>4, <1>5 DEF Sound
<1> QED
  BY <1>1, <1>2, <1>6 DEF ControlInv

LEMMA ControlThroughout ==
  ASSUME MaxStack <= 1, EditLoaded = FALSE
  PROVE  Spec => []ControlInv
<1>1. Init => ControlInv
  BY ControlInit
<1>2. ControlInv /\ [Next]_vars => ControlInv'
  BY ControlStep
<1> QED
  BY <1>1, <1>2, PTL DEF Spec

\* Commands one after another, whichever steps fail, with cascades of any depth, leave
\* every loaded mod with what it depends on: it is what dependentsOf's order and the
\* order up, its reverse, are for.  Manifests of loaded mods stay as they are; with an
\* edit, or with a command typed by a mod that goes down, it is false.
THEOREM DependenciesLoadedTheorem ==
  ASSUME MaxStack <= 1, EditLoaded = FALSE
  PROVE  Spec => []DependenciesLoaded
<1>1. ControlInv => DependenciesLoaded
  BY DEF ControlInv, Sound, DependenciesLoaded
<1> QED
  BY <1>1, ControlThroughout, PTL


\* What was loaded when a reload began is loaded, or on its way down or up.
Restoring(c, X) ==
  /\ c.at = "down" /\ c.entered /\ c.todo # <<>> => Head(c.todo) \in X
  /\ c.at = "enable" => c.todo # <<>> /\ Head(c.todo) \in X
  /\ c.cmd = "reload" => /\ c.at = "down" => c.before = X \union ToSet(c.down)
                         /\ c.at # "down" => c.before = X \union ToSet(c.todo)

RestoreInv ==
  /\ SafeInv /\ Len(stack) <= 1
  /\ stack # <<>> => Restoring(Top, loaded)

LEMMA RestoreStep ==
  ASSUME MaxStack <= 1, RestoreInv, [Next]_vars
  PROVE  RestoreInv'
<1>1. /\ Len(stack) <= 1 /\ stack \in Seq(Commands)
      /\ stack # <<>> => Restoring(Top, loaded)
  BY DEF RestoreInv, SafeInv, ControlTypes
<1>2. SafeInv'
  BY SafeStep DEF RestoreInv
<1>3. stack # <<>> => /\ Top \in Commands
                      /\ Pop => stack' = <<>> /\ Len(stack') <= 1
                      /\ \A c : SetTop(c) => Len(stack') <= 1 /\ Top' = c
  BY <1>1, TopMoves
<1>4. ASSUME MayType, NEW c, stack' = Append(stack, c)
      PROVE  Len(stack') <= 1 /\ Top' = c
  BY <1>1, <1>4, TopBegins
<1>5. ASSUME Len(stack') <= 1, stack' # <<>> => Restoring(Top', loaded')
      PROVE  RestoreInv'
  BY <1>2, <1>5 DEF RestoreInv
<1>6. ToSet(<<>>) = {}
  BY DEF ToSet
<1>7. \A c \in Commands : c.todo # <<>> =>
        /\ ToSet(c.todo) = {Head(c.todo)} \union ToSet(Tail(c.todo))
        /\ ToSet(Append(c.down, Head(c.todo))) = ToSet(c.down) \union {Head(c.todo)}
  <2> SUFFICES ASSUME NEW c \in Commands, c.todo # <<>>
               PROVE  /\ ToSet(c.todo) = {Head(c.todo)} \union ToSet(Tail(c.todo))
                      /\ ToSet(Append(c.down, Head(c.todo))) = ToSet(c.down) \union {Head(c.todo)}
    OBVIOUS
  <2>1. c.todo \in Seq(Names) /\ c.down \in Seq(Names)
    BY DEF Commands
  <2>2. Head(c.todo) \in Names /\ ToSet(c.todo) = {Head(c.todo)} \union ToSet(Tail(c.todo))
    BY <2>1, TailOfList
  <2> QED
    BY <2>1, <2>2, AppendList
<1>8. ASSUME NEW m \in RustMods, CmdLoad(m) PROVE RestoreInv'
  <2>1. Restoring(Command("load", "up", <<m>>), loaded)
    BY DEF Restoring, Command
  <2> QED
    BY <1>4, <1>5, <1>8, <2>1 DEF CmdLoad
<1>9. ASSUME NEW m \in RustMods, NEW cascade \in BOOLEAN,
             CmdUnload(m, cascade) \/ CmdReload(m, cascade)
      PROVE  RestoreInv'
  <2>1. PICK o \in DownOrder(m, cascade), cmd \in {"unload", "reload"} :
          stack' = Append(stack, Command(cmd, "down", o))
    BY <1>9 DEF CmdUnload, CmdReload
  <2>2. MayType /\ loaded' = loaded
    BY <1>9 DEF CmdUnload, CmdReload
  <2>3. PICK c : c = Command(cmd, "down", o)
    OBVIOUS
  <2>4. Restoring(c, loaded)
    BY <1>6, <2>3 DEF Restoring, Command
  <2> QED
    BY <1>4, <1>5, <2>1, <2>2, <2>3, <2>4
<1>10. ASSUME NEW m \in RustMods, NEW mf \in Edits, EditManifest(m, mf) PROVE RestoreInv'
  BY <1>1, <1>5, <1>10 DEF EditManifest
<1>11. CASE BeginDown
  <2>1. PICK c : c = Top
    OBVIOUS
  <2>2. stack # <<>> /\ c \in Commands /\ Restoring(c, loaded) /\ c.at = "down" /\ c.todo # <<>>
    BY <1>1, <1>3, <1>11, <2>1 DEF BeginDown, Doing
  <2>3. CASE Head(c.todo) \in loaded
    <3>1. PICK n : n = [c EXCEPT !.entered = TRUE]
      OBVIOUS
    <3>2. Restoring(n, loaded)
      BY <2>2, <2>3, <3>1 DEF Restoring, Commands
    <3>3. SetTop(n) /\ loaded' = loaded
      BY <1>11, <2>1, <2>3, <3>1 DEF BeginDown
    <3> QED
      BY <1>3, <1>5, <2>2, <3>2, <3>3
  <2>4. CASE Head(c.todo) \notin loaded
    <3>1. PICK n : n = [c EXCEPT !.todo = Tail(@)]
      OBVIOUS
    <3>2. ~ c.entered
      BY <1>11, <2>1 DEF BeginDown
    <3>3. Restoring(n, loaded)
      BY <2>2, <3>1, <3>2 DEF Restoring, Commands
    <3>4. SetTop(n) /\ loaded' = loaded
      BY <1>11, <2>1, <2>4, <3>1 DEF BeginDown
    <3> QED
      BY <1>3, <1>5, <2>2, <3>3, <3>4
  <2> QED
    BY <2>3, <2>4
<1>12. CASE EndDown
  <2>1. PICK c : c = Top
    OBVIOUS
  <2>2. /\ stack # <<>> /\ c \in Commands /\ Restoring(c, loaded)
        /\ c.at = "down" /\ c.todo # <<>> /\ c.entered
    BY <1>1, <1>3, <1>12, <2>1 DEF EndDown, Doing
  <2>3. PICK n : n = [c EXCEPT !.entered = FALSE, !.todo = Tail(@),
                               !.down = Append(@, Head(c.todo))]
    OBVIOUS
  <2>4. /\ n.at = "down" /\ n.entered = FALSE /\ n.down = Append(c.down, Head(c.todo))
        /\ n.cmd = c.cmd /\ n.before = c.before
    BY <2>2, <2>3 DEF Commands
  <2>5. Restoring(n, loaded \ {Head(c.todo)})
    BY <1>7, <2>2, <2>4 DEF Restoring
  <2>6. SetTop(n) /\ loaded' = loaded \ {Head(c.todo)}
    BY <1>12, <2>1, <2>3 DEF EndDown
  <2> QED
    BY <1>3, <1>5, <2>2, <2>5, <2>6
<1>13. CASE Turn
  <2>1. PICK c : c = Top
    OBVIOUS
  <2>2. stack # <<>> /\ c \in Commands /\ Restoring(c, loaded) /\ c.at = "down"
    BY <1>1, <1>3, <1>13, <2>1 DEF Turn
  <2>3. PICK n : n = [c EXCEPT !.at = "up", !.todo = Reverse(c.down)]
    OBVIOUS
  <2>4. ToSet(Reverse(c.down)) = ToSet(c.down)
    <3>1. c.down \in Seq(Names)
      BY <2>2 DEF Commands
    <3> QED
      BY <3>1, ReversedList
  <2>5. n.at = "up" /\ n.todo = Reverse(c.down) /\ n.cmd = c.cmd /\ n.before = c.before
    BY <2>2, <2>3 DEF Commands
  <2>6. Restoring(n, loaded)
    BY <2>2, <2>4, <2>5 DEF Restoring
  <2>7. (SetTop(n) \/ Pop) /\ loaded' = loaded
    BY <1>13, <2>1, <2>3 DEF Turn
  <2> QED
    BY <1>3, <1>5, <2>2, <2>6, <2>7
<1>14. CASE BeginUp
  <2>1. PICK c : c = Top
    OBVIOUS
  <2>2. stack # <<>> /\ c \in Commands /\ Restoring(c, loaded) /\ c.at = "up"
    BY <1>1, <1>3, <1>14, <2>1 DEF BeginUp, Doing
  <2>3. PICK n : n = [c EXCEPT !.entered = TRUE]
    OBVIOUS
  <2>4. Restoring(n, loaded)
    BY <2>2, <2>3 DEF Restoring, Commands
  <2>5. SetTop(n) /\ loaded' = loaded
    BY <1>14, <2>1, <2>3 DEF BeginUp
  <2> QED
    BY <1>3, <1>5, <2>2, <2>4, <2>5
<1>15. CASE MainUp
  <2>1. PICK c : c = Top
    OBVIOUS
  <2>2. stack # <<>> /\ c \in Commands /\ Restoring(c, loaded) /\ c.at = "up" /\ c.todo # <<>>
    BY <1>1, <1>3, <1>15, <2>1 DEF MainUp, Doing
  <2>3. PICK n : n = [c EXCEPT !.at = "enable"]
    OBVIOUS
  <2>4. n.at = "enable" /\ n.todo = c.todo /\ n.cmd = c.cmd /\ n.before = c.before
    BY <2>2, <2>3 DEF Commands
  <2>5. Restoring(n, loaded \union {Head(c.todo)})
    BY <1>7, <2>2, <2>4 DEF Restoring
  <2>6. SetTop(n) /\ loaded' = loaded \union {Head(c.todo)}
    BY <1>15, <2>1, <2>3 DEF MainUp
  <2> QED
    BY <1>3, <1>5, <2>2, <2>5, <2>6
<1>16. CASE EndUp
  <2>1. PICK c : c = Top
    OBVIOUS
  <2>2. stack # <<>> /\ c \in Commands /\ Restoring(c, loaded) /\ c.at = "enable" /\ c.todo # <<>>
    BY <1>1, <1>3, <1>16, <2>1 DEF EndUp, Doing
  <2>3. PICK n : n = [c EXCEPT !.at = "up", !.entered = FALSE, !.todo = Tail(@)]
    OBVIOUS
  <2>4. n.at = "up" /\ n.todo = Tail(c.todo) /\ n.cmd = c.cmd /\ n.before = c.before
    BY <2>2, <2>3 DEF Commands
  <2>5. Restoring(n, loaded)
    BY <1>7, <2>2, <2>4 DEF Restoring
  <2>6. SetTop(n) /\ loaded' = loaded
    BY <1>16, <2>1, <2>3 DEF EndUp
  <2> QED
    BY <1>3, <1>5, <2>2, <2>5, <2>6
<1>17. CASE FailDown \/ FailUp \/ Finish
  <2>1. stack # <<>> /\ Pop
    BY <1>17 DEF FailDown, FailUp, Finish, Doing
  <2> QED
    BY <1>3, <1>5, <2>1
<1>18. CASE UNCHANGED vars
  <2>1. stack' = stack /\ loaded' = loaded
    BY <1>18 DEF vars
  <2>2. Top' = Top
    BY <2>1 DEF Top
  <2> QED
    BY <1>1, <1>5, <2>1, <2>2
<1> QED
  BY <1>8, <1>9, <1>10, <1>11, <1>12, <1>13, <1>14, <1>15, <1>16, <1>17, <1>18 DEF Next

\* A reload that succeeds brings back what it took down, all of it and nothing else,
\* whatever the manifests say by then.
THEOREM ReloadRestoresTheorem ==
  ASSUME MaxStack <= 1
  PROVE  Spec => ReloadRestores
<1> DEFINE Restored == /\ Len(stack) = 1 /\ stack' = <<>>
                       /\ stack[1].cmd = "reload" /\ stack[1].at = "up" /\ stack[1].todo = <<>>
                       => loaded' = stack[1].before
<1>1. RestoreInv /\ [Next]_vars => Restored
  <2> SUFFICES ASSUME RestoreInv, [Next]_vars, Len(stack) = 1, stack' = <<>>,
                      stack[1].cmd = "reload", stack[1].at = "up", stack[1].todo = <<>>
               PROVE  loaded' = stack[1].before
    OBVIOUS
  <2>1. stack # <<>> /\ Top = stack[1]
    BY DEF Top
  <2>2. stack[1].before = loaded
    <3>1. Restoring(Top, loaded) /\ ToSet(<<>>) = {}
      BY <2>1 DEF RestoreInv, ToSet
    <3> QED
      BY <2>1, <3>1 DEF Restoring
  <2>3. loaded' = loaded
    <3>1. ~ Doing("down") /\ ~ Doing("up") /\ ~ Doing("enable")
      BY <2>1 DEF Doing
    <3>2. CASE UNCHANGED vars
      BY <3>2 DEF vars
    <3>3. CASE Next
      BY <2>1, <3>1, <3>3 DEF Next, CmdLoad, CmdUnload, CmdReload, EditManifest, BeginDown, EndDown,
         FailDown, Turn, BeginUp, MainUp, EndUp, FailUp, Finish
    <3> QED
      BY <3>2, <3>3
  <2> QED
    BY <2>2, <2>3
<1>2. Init => RestoreInv
  <2> SUFFICES ASSUME Init PROVE RestoreInv
    OBVIOUS
  <2>1. SafeInv /\ stack = <<>>
    BY TypedInit DEF SafeInv
  <2> QED
    BY <2>1 DEF RestoreInv
<1>3. RestoreInv /\ [Next]_vars => RestoreInv'
  BY RestoreStep
<1> QED
  BY <1>1, <1>2, <1>3, PTL DEF Spec, ReloadRestores

-----------------------------------------------------------------------------
(* Who needs whom.                                                         *)

\* Holding all who list y, or a member of it.
HoldsAll(M, L, y, T) ==
  \A m \in M : ToSet(L[m]) \intersect (T \union {y}) # {} => m \in T

LEMMA NeedingIs ==
  ASSUME NEW M, NEW L \in [M -> Seq(Nat)], NEW y
  PROVE  /\ Needing(L, y) \in SUBSET M
         /\ HoldsAll(M, L, y, Needing(L, y))
         /\ \A T \in SUBSET M : HoldsAll(M, L, y, T) => Needing(L, y) \subseteq T
<1>1. Needing(L, y) = {x \in M : \A T \in SUBSET M : HoldsAll(M, L, y, T) => x \in T}
  BY DEF Needing, HoldsAll
<1>2. ASSUME NEW m \in M, ToSet(L[m]) \intersect (Needing(L, y) \union {y}) # {}
      PROVE  m \in Needing(L, y)
  <2> SUFFICES ASSUME NEW T \in SUBSET M, HoldsAll(M, L, y, T) PROVE m \in T
    BY <1>1
  <2>1. Needing(L, y) \subseteq T
    BY <1>1
  <2> QED
    BY <1>2, <2>1 DEF HoldsAll
<1> QED
  BY <1>1, <1>2 DEF HoldsAll

\* The search finds who needs the target, ...
LEMMA SearchIsNeeding ==
  ASSUME NEW M, IsFiniteSet(M), NEW L \in [M -> Seq(Nat)], NEW t \in M
  PROVE  Affected(L, t) = Needing(L, t) \ {t}
<1>0. PICK found : found \in SearchesOf(M, L, t)
  BY SearchRounds
<1>1. /\ found \in [Nat -> SUBSET M] /\ found[0] = {t}
      /\ \A n \in Nat : found[n + 1] = found[n] \union DependedBy(L, found[n])
      /\ Affected(L, t) = found[Cardinality(M)] \ {t}
  BY <1>0 DEF SearchesOf
<1>2. PICK T : T = Needing(L, t)
  OBVIOUS
<1>3. T \in SUBSET M /\ HoldsAll(M, L, t, T)
  BY <1>2, NeedingIs
<1> DEFINE P == {n \in Nat : found[n] \subseteq T \union {t}}
<1>4. 0 \in P
  BY <1>1
<1>5. \A n \in P : n + 1 \in P
  <2> TAKE n \in P
  <2>1. DependedBy(L, found[n]) \subseteq T
    BY <1>3 DEF DependedBy, HoldsAll
  <2> QED
    BY <1>1, <2>1
<1>6. P = Nat
  BY <1>4, <1>5, NumbersAll
<1>7. Affected(L, t) \subseteq T
  <2>1. Cardinality(M) \in P
    BY <1>6, FS_CardinalityType
  <2> QED
    BY <1>1, <2>1
<1>8. Needing(L, t) \subseteq Affected(L, t) \union {t}
  <2>1. /\ Affected(L, t) \in SUBSET (M \ {t})
        /\ DependedBy(L, Affected(L, t) \union {t}) \subseteq Affected(L, t) \union {t}
    BY SearchClosed
  <2>2. PICK A : A = Affected(L, t) \union {t}
    OBVIOUS
  <2>3. A \in SUBSET M /\ HoldsAll(M, L, t, A)
    BY <2>1, <2>2 DEF DependedBy, HoldsAll
  <2>4. \A S \in SUBSET M : HoldsAll(M, L, t, S) => Needing(L, t) \subseteq S
    BY NeedingIs
  <2> QED
    BY <2>2, <2>3, <2>4
<1> QED
  BY <1>1, <1>2, <1>7, <1>8

\* ... and an answer is Kahn's order and what is left over, each mod once.
TwoParts(L, A, q, o, rest) ==
  /\ o = Kahn(L, A) /\ o \in Seq(A) /\ rest \in Seq(A \ ToSet(o))
  /\ ToSet(rest) = A \ ToSet(o) /\ NoRepeats(rest)
  /\ q = o \o rest

LEMMA AnswerIs ==
  ASSUME NEW M \in SUBSET Nat, IsFiniteSet(M), NEW L \in [M -> Seq(Nat)], NEW t \in M,
         NEW q \in DependentsOf(L, t), NEW A, A = Affected(L, t)
  PROVE  \E o, rest : TwoParts(L, A, q, o, rest)
<1>2. A \in SUBSET M /\ IsFiniteSet(A)
  <2>1. Affected(L, t) \in SUBSET (M \ {t})
    BY SearchClosed
  <2>2. A \in SUBSET M
    BY <2>1
  <2> QED
    BY <2>2, FS_Subset
<1>0. M \in SUBSET Int
  OBVIOUS
<1>3. PICK o : o = Kahn(L, A)
  OBVIOUS
<1>4. o \in Seq(A)
  BY <1>0, <1>2, <1>3, KahnOrder
<1>5. PICK rest \in SetToSeqs(A \ ToSet(o)) : q = o \o rest
  BY <1>3 DEF DependentsOf
<1>6. PICK Y : Y = A \ ToSet(o)
  OBVIOUS
<1>7. PICK k \in Nat : k = Cardinality(Y)
  <2>1. Y \in SUBSET A
    BY <1>6
  <2> QED
    BY <1>2, <2>1, FS_Subset, FS_CardinalityType
<1>8. /\ rest \in [1..k -> Y] /\ \A i, j \in 1..k : i # j => rest[i] # rest[j]
  BY <1>5, <1>6, <1>7 DEF SetToSeqs, IsInjective
<1>9. rest \in Seq(Y) /\ DOMAIN rest = 1..k /\ Len(rest) = k
  BY <1>8, IsSequence
<1>10. NoRepeats(rest)
  BY <1>8, <1>9 DEF NoRepeats
<1>11. ToSet(rest) = Y
  <2>1. ToSet(rest) \in SUBSET Y
    BY <1>8, <1>9 DEF ToSet
  <2>2. Cardinality(ToSet(rest)) = k
    BY <1>9, <1>10, NoRepeatsCount
  <2>3. Y \in SUBSET A
    BY <1>6
  <2>4. IsFiniteSet(Y)
    BY <1>2, <2>3, FS_Subset
  <2>5. PICK X : X = ToSet(rest)
    OBVIOUS
  <2>6. X # Y => Cardinality(X) \in Nat /\ Cardinality(X) < Cardinality(Y)
    BY <2>1, <2>4, <2>5, Fewer
  <2> QED
    BY <1>7, <2>2, <2>5, <2>6
<1> QED
  BY <1>3, <1>4, <1>5, <1>6, <1>9, <1>10, <1>11 DEF TwoParts

\* Two lists without repeats or common elements, one after the other.
LEMMA ConcatNoRepeats ==
  ASSUME NEW S, NEW s \in Seq(S), NEW r \in Seq(S), NoRepeats(s), NoRepeats(r),
         ToSet(s) \intersect ToSet(r) = {}
  PROVE  /\ NoRepeats(s \o r)
         /\ Len(s) \in Nat /\ DOMAIN s = 1..Len(s) /\ DOMAIN (s \o r) \in SUBSET Nat
         /\ \A i \in DOMAIN (s \o r) :
              /\ i <= Len(s) => i \in DOMAIN s /\ (s \o r)[i] = s[i]
              /\ i > Len(s) => (s \o r)[i] \in ToSet(r)
<1>1. PICK n \in Nat : n = Len(s) /\ DOMAIN s = 1..n
  BY LenProperties
<1>2. PICK k \in Nat : k = Len(r) /\ DOMAIN r = 1..k
  BY LenProperties
<1>3. PICK c : c = s \o r
  OBVIOUS
<1>4. /\ DOMAIN c = 1..(n + k)
      /\ \A i \in 1..(n + k) : c[i] = IF i <= n THEN s[i] ELSE r[i - n]
  <2>1. c \in Seq(S) /\ Len(c) = n + k
    BY <1>1, <1>2, <1>3, ConcatProperties
  <2>2. \A i \in 1..(n + k) : c[i] = IF i <= n THEN s[i] ELSE r[i - n]
    BY <1>1, <1>2, <1>3, ConcatProperties
  <2> QED
    BY <2>1, <2>2, LenProperties
<1>5. \A i \in 1..(n + k) : i <= n => i \in 1..n /\ c[i] = s[i]
  BY <1>4
<1>6. \A i \in 1..(n + k) : i > n => i - n \in 1..k /\ c[i] = r[i - n]
  BY <1>4
<1>7. \A i \in 1..(n + k) : i > n => c[i] \in ToSet(r)
  BY <1>2, <1>6 DEF ToSet
<1>8. NoRepeats(c)
  <2> SUFFICES ASSUME NEW i \in 1..(n + k), NEW j \in 1..(n + k), c[i] = c[j] PROVE i = j
    BY <1>4 DEF NoRepeats
  <2>1. CASE i <= n /\ j <= n
    BY <1>1, <1>5, <2>1 DEF NoRepeats
  <2>2. CASE i > n /\ j > n
    <3>1. i - n = j - n
      BY <1>2, <1>6, <2>2 DEF NoRepeats
    <3> QED
      BY <3>1
  <2>3. ASSUME NEW a \in 1..(n + k), NEW b \in 1..(n + k), a <= n, b > n, c[a] = c[b] PROVE FALSE
    <3>1. c[a] \in ToSet(s)
      BY <1>1, <1>5, <2>3 DEF ToSet
    <3>2. c[b] \in ToSet(r)
      BY <1>7, <2>3
    <3> QED
      BY <2>3, <3>1, <3>2
  <2> QED
    BY <2>1, <2>2, <2>3
<1> QED
  BY <1>1, <1>3, <1>4, <1>5, <1>7, <1>8

LEMMA AnswersRight ==
  ASSUME NEW M \in SUBSET Nat, IsFiniteSet(M), NEW L \in [M -> Seq(Nat)], NEW t \in M,
         NEW q \in DependentsOf(L, t)
  PROVE  IsAnswer(L, t, q)
<1>1. PICK A : A = Affected(L, t)
  OBVIOUS
<1>2. A \in SUBSET M /\ IsFiniteSet(A)
  <2>1. Affected(L, t) \in SUBSET (M \ {t})
    BY SearchClosed
  <2>2. A \in SUBSET M
    BY <1>1, <2>1
  <2> QED
    BY <2>2, FS_Subset
<1>0. M \in SUBSET Int
  OBVIOUS
<1>12. PICK o, rest : TwoParts(L, A, q, o, rest)
  BY <1>1, AnswerIs
<1>3. /\ o = Kahn(L, A) /\ o \in Seq(A) /\ rest \in Seq(A \ ToSet(o))
      /\ ToSet(rest) = A \ ToSet(o) /\ NoRepeats(rest)
      /\ q = o \o rest
  BY <1>12 DEF TwoParts
<1>4. NoRepeats(o)
  BY <1>0, <1>2, <1>3, KahnOrder
<1>5. rest \in Seq(A)
  <2>1. Len(rest) \in Nat /\ rest \in [1..Len(rest) -> A \ ToSet(o)]
    BY <1>3, LenProperties
  <2>2. rest \in [1..Len(rest) -> A]
    BY <2>1
  <2> QED
    BY <2>1, <2>2, IsSequence
<1>6. ToSet(o) \subseteq A
  BY <1>3, ListSet
<1>7. ToSet(q) = A
  <2>1. ToSet(o \o rest) = ToSet(o) \union ToSet(rest)
    BY <1>3, <1>5, ConcatList
  <2> QED
    BY <1>3, <1>6, <2>1
<1>8. NoRepeats(q)
  BY <1>3, <1>4, <1>5, ConcatNoRepeats
<1>9. A = Needing(L, t) \ {t}
  BY <1>1, SearchIsNeeding
<1> QED
  BY <1>7, <1>8, <1>9 DEF IsAnswer, NoRepeats

\* The lists of the mods but one.
LEMMA DirectIs ==
  ASSUME NEW M, IsFiniteSet(M), NEW L \in [M -> Seq(Nat)], NEW O \in SUBSET M,
         NEW D, D = [m \in O |-> L[m]]
  PROVE  D \in [O -> Seq(Nat)] /\ IsFiniteSet(O) /\ \A m \in O : D[m] = L[m]
BY FS_Subset

\* Where all of a finite set are needed by others of it, some mod needs itself.
LEMMA SomeCycle ==
  ASSUME NEW O, IsFiniteSet(O), NEW D \in [O -> Seq(Nat)], NEW T \in SUBSET O,
         \A x \in T : \E m \in T : x \in ToSet(D[m]), NEW y \in T
  PROVE  \E m \in T : m \in Needing(D, m) /\ m \in Needing(D, y)
<1> DEFINE Behind(x) == Needing(D, x) \intersect T
           Loop(x) == \E m \in T : m \in Needing(D, m) /\ m \in Needing(D, x)
           P == {k \in Nat : \A x \in T : Cardinality(Behind(x)) <= k => Loop(x)}
<1>1. \A x \in T : IsFiniteSet(Behind(x)) /\ Cardinality(Behind(x)) \in Nat
  <2> TAKE x \in T
  <2>1. Behind(x) \in SUBSET O
    OBVIOUS
  <2> QED
    BY <2>1, FS_Subset, FS_CardinalityType
<1>2. ASSUME NEW x \in T
      PROVE  \E w \in T : w \in Behind(x) /\ Needing(D, w) \subseteq Needing(D, x)
  <2>1. PICK w \in T : x \in ToSet(D[w])
    OBVIOUS
  <2>2. w \in Needing(D, x)
    BY <2>1, NeedingIs DEF HoldsAll
  <2>3. PICK X : X = Needing(D, x)
    OBVIOUS
  <2>4. X \in SUBSET O /\ HoldsAll(O, D, x, X)
    BY <2>3, NeedingIs
  <2>5. HoldsAll(O, D, w, X)
    BY <2>2, <2>3, <2>4 DEF HoldsAll
  <2>6. \A S \in SUBSET O : HoldsAll(O, D, w, S) => Needing(D, w) \subseteq S
    BY NeedingIs
  <2> QED
    BY <2>2, <2>3, <2>4, <2>5, <2>6
<1>8. \A x \in T : Behind(x) # {}
  BY <1>2
<1> HIDE DEF Behind
<1>3. 0 \in P
  <2> SUFFICES ASSUME NEW x \in T, Cardinality(Behind(x)) <= 0 PROVE FALSE
    OBVIOUS
  <2>1. Cardinality(Behind(x)) = 0
    BY <1>1
  <2>2. Behind(x) = {}
    BY <1>1, <2>1, FS_EmptySet
  <2> QED
    BY <1>8, <2>2
<1>4. \A k \in P : k + 1 \in P
  <2> TAKE k \in P
  <2>0. k \in Nat /\ k + 1 \in Nat /\ \A x \in T : Cardinality(Behind(x)) <= k => Loop(x)
    OBVIOUS
  <2> SUFFICES ASSUME NEW x \in T, Cardinality(Behind(x)) <= k + 1 PROVE Loop(x)
    <3> HIDE DEF Loop
    <3> QED
      BY <2>0
  <2>1. PICK w \in T : w \in Behind(x) /\ Needing(D, w) \subseteq Needing(D, x)
    BY <1>2
  <2>2. CASE w \in Needing(D, w)
    BY <2>1, <2>2 DEF Behind
  <2>3. CASE w \notin Needing(D, w)
    <3>1. PICK X, W : X = Behind(x) /\ W = Behind(w)
      OBVIOUS
    <3>2. W \in SUBSET X /\ W # X /\ IsFiniteSet(X)
      BY <1>1, <2>1, <2>3, <3>1 DEF Behind
    <3>3. Cardinality(W) \in Nat /\ Cardinality(X) \in Nat /\ Cardinality(W) < Cardinality(X)
      BY <3>2, Fewer
    <3>4. Cardinality(W) <= k
      BY <2>0, <3>1, <3>3
    <3>5. Loop(w)
      BY <2>0, <3>1, <3>4
    <3> QED
      BY <2>1, <3>5
  <2> QED
    BY <2>2, <2>3
<1>5. P = Nat
  BY <1>3, <1>4, NumbersAll
<1>6. Cardinality(Behind(y)) \in P
  BY <1>1, <1>5
<1>7. Cardinality(Behind(y)) <= Cardinality(Behind(y))
  BY <1>1
<1>9. Loop(y)
  <2> HIDE DEF Loop
  <2> QED
    BY <1>6, <1>7
<1> QED
  BY <1>9

LEMMA OrdersRight ==
  ASSUME NEW M \in SUBSET Nat, IsFiniteSet(M), NEW L \in [M -> Seq(Nat)], NEW t \in M,
         NEW q \in DependentsOf(L, t)
  PROVE  IsUnloadOrder(L, t, q)
<1>1. PICK A : A = Affected(L, t)
  OBVIOUS
<1>2. /\ A \in SUBSET M /\ t \notin A /\ IsFiniteSet(A)
      /\ \A m \in M : ToSet(L[m]) \intersect (A \union {t}) # {} => m \in A \union {t}
  <2>1. /\ Affected(L, t) \in SUBSET (M \ {t})
        /\ DependedBy(L, Affected(L, t) \union {t}) \subseteq Affected(L, t) \union {t}
    BY SearchClosed
  <2>2. A \in SUBSET M /\ t \notin A
    BY <1>1, <2>1
  <2>3. IsFiniteSet(A)
    BY <2>2, FS_Subset
  <2> QED
    BY <1>1, <2>1, <2>2, <2>3 DEF DependedBy
<1>0. M \in SUBSET Int
  OBVIOUS
<1>14. PICK o, rest : TwoParts(L, A, q, o, rest)
  BY <1>1, AnswerIs
<1>3. /\ o = Kahn(L, A) /\ o \in Seq(A) /\ rest \in Seq(A \ ToSet(o))
      /\ ToSet(rest) = A \ ToSet(o) /\ NoRepeats(rest)
      /\ q = o \o rest
  BY <1>14 DEF TwoParts
<1>4. /\ NoRepeats(o) /\ DependentsFirst(A, L, o)
      /\ \A d \in A \ ToSet(o) : \E m \in A \ ToSet(o) : d \in ToSet(L[m])
  BY <1>0, <1>2, <1>3, KahnOrder
<1>5. rest \in Seq(A)
  <2>1. Len(rest) \in Nat /\ rest \in [1..Len(rest) -> A \ ToSet(o)]
    BY <1>3, LenProperties
  <2>2. rest \in [1..Len(rest) -> A]
    BY <2>1
  <2> QED
    BY <2>1, <2>2, IsSequence
<1>6. /\ NoRepeats(q) /\ Len(o) \in Nat /\ DOMAIN o = 1..Len(o) /\ DOMAIN q \in SUBSET Nat
      /\ \A i \in DOMAIN q : /\ i <= Len(o) => i \in DOMAIN o /\ q[i] = o[i]
                             /\ i > Len(o) => q[i] \in ToSet(rest)
  BY <1>3, <1>4, <1>5, ConcatNoRepeats
<1>7. PICK O : O = M \ {t}
  OBVIOUS
<1>8. PICK D : D = [m \in O |-> L[m]]
  OBVIOUS
<1>9. D \in [O -> Seq(Nat)] /\ IsFiniteSet(O) /\ \A m \in O : D[m] = L[m]
  <2>1. O \in SUBSET M
    BY <1>7
  <2> QED
    BY <1>8, <2>1, DirectIs
<1>10. IsUnloadOrder(L, t, q) <=>
         \A i, j \in DOMAIN q : i < j /\ q[j] \in Needing(D, q[i]) =>
            \E m \in O : m \in Needing(D, m) \intersect Needing(D, q[j])
  <2>1. DOMAIN L = M
    OBVIOUS
  <2> QED
    BY <1>7, <1>8, <2>1 DEF IsUnloadOrder
<1> SUFFICES ASSUME NEW i \in DOMAIN q, NEW j \in DOMAIN q, i < j, q[j] \in Needing(D, q[i])
             PROVE  \E m \in O : m \in Needing(D, m) \intersect Needing(D, q[j])
  BY <1>10
<1>11. i \in Nat /\ j \in Nat
  BY <1>6
\* Whoever needs a mod of Kahn's order is before it.
<1>12. CASE i <= Len(o)
  <2>1. i \in 1..Len(o) /\ q[i] = o[i]
    BY <1>6, <1>12
  <2>2. PICK T : T = {o[h] : h \in 1..(i - 1)}
    OBVIOUS
  <2>3. \A h \in 1..(i - 1) : h \in 1..Len(o) /\ h < i
    BY <1>6, <2>1
  <2>4. \A h \in 1..Len(o) : o[h] \in A
    BY <1>3, <1>6
  <2>5. T \in SUBSET O /\ \A x \in T : x \in A
    BY <1>2, <1>7, <2>2, <2>3, <2>4
  <2>6. ASSUME NEW m \in O, NEW h \in 1..i, o[h] \in ToSet(L[m]) PROVE m \in T
    <3>1. h \in DOMAIN o /\ o[h] \in A
      BY <1>6, <2>1, <2>4
    <3>2. m \in A
      BY <1>2, <1>7, <2>6, <3>1
    <3>3. PICK g \in 1..(h - 1) : o[g] = m
      BY <1>4, <2>6, <3>1, <3>2 DEF DependentsFirst
    <3>4. g \in 1..(i - 1)
      BY <2>1
    <3> QED
      BY <2>2, <3>3, <3>4
  <2>7. ASSUME NEW m \in O, NEW x \in T \union {o[i]}, x \in ToSet(L[m]) PROVE m \in T
    <3>1. PICK h \in 1..i : o[h] = x
      <4>1. CASE x = o[i]
        BY <2>1, <4>1
      <4>2. CASE x \in T
        BY <2>1, <2>2, <4>2
      <4> QED
        BY <4>1, <4>2
    <3> QED
      BY <2>6, <2>7, <3>1
  <2>8. HoldsAll(O, D, o[i], T)
    BY <1>9, <2>7 DEF HoldsAll
  <2>9. Needing(D, o[i]) \subseteq T
    BY <1>9, <2>5, <2>8, NeedingIs
  <2>10. PICK h \in 1..(i - 1) : q[j] = o[h]
    BY <2>1, <2>2, <2>9
  <2>11. CASE j <= Len(o)
    <3>1. j \in DOMAIN o /\ h \in DOMAIN o /\ o[j] = o[h] /\ h # j
      BY <1>6, <1>11, <2>3, <2>10, <2>11
    <3> QED
      BY <1>4, <3>1 DEF NoRepeats
  <2>12. CASE j > Len(o)
    <3>1. q[j] \notin ToSet(o)
      BY <1>3, <1>6, <2>12
    <3>2. q[j] \in ToSet(o)
      BY <1>6, <2>3, <2>10 DEF ToSet
    <3> QED
      BY <3>1, <3>2
  <2> QED
    BY <1>6, <1>11, <2>11, <2>12
\* What is left over is needed by what is left over.
<1>13. CASE i > Len(o)
  <2>1. q[j] \in ToSet(rest)
    BY <1>6, <1>11, <1>13
  <2>2. PICK T : T = A \ ToSet(o)
    OBVIOUS
  <2>3. T \in SUBSET O /\ q[j] \in T
    BY <1>2, <1>3, <1>7, <2>1, <2>2
  <2>4. \A x \in T : \E m \in T : x \in ToSet(D[m])
    BY <1>4, <1>9, <2>2, <2>3
  <2>5. \E m \in T : m \in Needing(D, m) /\ m \in Needing(D, q[j])
    BY <1>9, <2>3, <2>4, SomeCycle
  <2> QED
    BY <2>3, <2>5
<1> QED
  BY <1>6, <1>11, <1>12, <1>13

-----------------------------------------------------------------------------
(* The questions.                                                          *)

\* What is asked while this part moves.
QuestionTypes ==
  /\ manifests \in [MapNames -> Seq(MapNames)]
  /\ target \in MapNames

LEMMA MapTypes ==
  ASSUME QuestionTypes PROVE DependencyMap \in [MapNames -> Seq(Nat)]
<1> SUFFICES ASSUME NEW m \in MapNames PROVE Absorbed(manifests[m], views[m]) \in Seq(Nat)
  BY DEF DependencyMap
<1>1. manifests[m] \in Seq(MapNames)
  BY DEF QuestionTypes
<1>2. manifests[m] \o manifests[m] \in Seq(MapNames)
  BY <1>1, ConcatList
<1>3. \A s \in Seq(MapNames) : s \in Seq(Nat)
  <2> TAKE s \in Seq(MapNames)
  <2>1. Len(s) \in Nat /\ s \in [1..Len(s) -> MapNames]
    BY LenProperties
  <2>2. s \in [1..Len(s) -> Nat]
    BY <2>1, MapAssumption
  <2> QED
    BY <2>1, <2>2, IsSequence
<1> QED
  BY <1>1, <1>2, <1>3 DEF Absorbed

LEMMA QuestionBegins == QuestionInit => QuestionTypes
<1> SUFFICES ASSUME QuestionInit PROVE QuestionTypes
  OBVIOUS
<1>1. \A l \in Lists : l \in Seq(MapNames)
  BY MapAssumption, IsSequence DEF Lists
<1> QED
  BY <1>1 DEF QuestionInit, QuestionTypes

\* Whatever the manifests say, with cycles and with names listed twice, dependentsOf
\* names exactly the mods that need the target, each once, and a mod before all it
\* needs, unless mods of a cycle need it.
THEOREM UnloadPlanTheorem == ModsSpec => UnloadPlan
<1> DEFINE Typed == part = "question" => QuestionTypes
<1>1. ModsInit => Typed
  BY QuestionBegins DEF ModsInit
<1>2. ASSUME Typed, [ModsNext]_<<part, vars, questionVars, lifeVars, commandVars,
                                eventVars, storeVars, moneyVars, keyVars, busVars>>
      PROVE  /\ Typed'
             /\ [answer # answer' => IsAnswer(DependencyMap, target, answer')]_questionVars
             /\ [answer # answer' => IsUnloadOrder(DependencyMap, target, answer')]_questionVars
  <2>1. CASE UNCHANGED questionVars /\ UNCHANGED part
    BY <1>2, <2>1 DEF questionVars, QuestionTypes
  <2>2. CASE part = "question" /\ Ask /\ UNCHANGED part
    <3>1. QuestionTypes /\ UNCHANGED <<manifests, views, target>>
      BY <1>2, <2>2 DEF Ask
    <3>2. answer' \in DependentsOf(DependencyMap, target)
      BY <2>2 DEF Ask
    <3>3. MapNames \in SUBSET Nat /\ IsFiniteSet(MapNames) /\ target \in MapNames
      BY <3>1, MapAssumption DEF QuestionTypes
    <3>4. DependencyMap \in [MapNames -> Seq(Nat)]
      BY <3>1, MapTypes
    <3>5. IsAnswer(DependencyMap, target, answer') /\ IsUnloadOrder(DependencyMap, target, answer')
      BY <3>2, <3>3, <3>4, AnswersRight, OrdersRight
    <3> QED
      BY <2>2, <3>1, <3>5 DEF QuestionTypes
  <2> QED
    BY <1>2, <2>1, <2>2 DEF ModsNext
<1> QED
  BY <1>1, <1>2, PTL DEF ModsSpec, UnloadPlan, EveryDependentOnce, UnloadOrder
=============================================================================
