---------------------------- MODULE ListProofs ----------------------------
(***************************************************************************)
(* Lemmas about lists: what an append adds, what makes a function a list,  *)
(* and what a filter leaves; and the induction that a recursive function   *)
(* needs, stated for sets of numbers.                                      *)
(***************************************************************************)
EXTENDS Subsequence, Integers, FiniteSetTheorems, SequenceTheorems, TLAPS

\* What is appended comes after what was there.
LEMMA Appended ==
  ASSUME NEW S, NEW s \in Seq(S), NEW x \in S
  PROVE  /\ Len(s) \in Nat /\ DOMAIN s = 1..Len(s)
         /\ Append(s, x) \in Seq(S) /\ Len(Append(s, x)) = Len(s) + 1
         /\ DOMAIN Append(s, x) = 1..(Len(s) + 1)
         /\ \A i \in 1..Len(s) : Append(s, x)[i] = s[i]
         /\ Append(s, x)[Len(s) + 1] = x
BY AppendProperties, LenProperties

LEMMA IsSequence ==
  ASSUME NEW S, NEW n \in Nat, NEW f \in [1..n -> S]
  PROVE  f \in Seq(S) /\ Len(f) = n
<1>1. \E k \in Nat : f \in [1..k -> S]
  OBVIOUS
<1>2. f \in Seq(S)
  BY <1>1, SeqDef
<1>3. Len(f) \in Nat /\ DOMAIN f = 1..Len(f) /\ DOMAIN f = 1..n
  BY <1>2, LenProperties
<1> QED
  BY <1>2, <1>3

-----------------------------------------------------------------------------
(* Filters.                                                                *)

\* The ranks of n numbers are the numbers up to n, each once and in order.
LEMMA Ranks ==
  ASSUME NEW K \in SUBSET Int, IsFiniteSet(K)
  PROVE  /\ Cardinality(K) \in Nat
         /\ \A i \in K : Rank(K, i) \in 1..Cardinality(K)
         /\ \A i, j \in K : i < j => Rank(K, i) < Rank(K, j)
         /\ \A r \in 1..Cardinality(K) : \E i \in K : Rank(K, i) = r
<1>2. IsFiniteSet(K) /\ Cardinality(K) \in Nat
  BY FS_CardinalityType
<1> DEFINE Low(i) == {h \in K : h <= i}
<1>3. \A i \in K : /\ IsFiniteSet(Low(i)) /\ Cardinality(Low(i)) \in Nat
                   /\ Cardinality(Low(i)) <= Cardinality(K)
  <2> TAKE i \in K
  <2>1. Low(i) \in SUBSET K
    OBVIOUS
  <2> QED
    BY <1>2, <2>1, FS_Subset, FS_CardinalityType
<1>4. \A i \in K : Cardinality(Low(i)) # 0
  <2> TAKE i \in K
  <2>1. i \in Low(i)
    OBVIOUS
  <2> QED
    BY <1>3, <2>1, FS_EmptySet
<1>5. \A i \in K : Rank(K, i) \in 1..Cardinality(K)
  BY <1>2, <1>3, <1>4 DEF Rank
<1>6. \A i, j \in K : i < j => Rank(K, i) < Rank(K, j)
  <2> SUFFICES ASSUME NEW i \in K, NEW j \in K, i < j
               PROVE  Cardinality(Low(i)) < Cardinality(Low(j))
    BY DEF Rank
  <2>1. Low(i) \in SUBSET Low(j) /\ j \in Low(j) /\ j \notin Low(i)
    <3>1. i \in Int /\ j \in Int /\ \A h \in K : h \in Int
      OBVIOUS
    <3>2. \A h \in K : h <= i => h <= j
      BY <3>1
    <3>3. j <= j /\ ~(j <= i)
      BY <3>1
    <3> QED
      BY <3>2, <3>3
  <2>2. Cardinality(Low(i)) <= Cardinality(Low(j))
        /\ (Cardinality(Low(j)) = Cardinality(Low(i)) => Low(j) = Low(i))
    BY <1>3, <2>1, FS_Subset
  <2> QED
    BY <1>3, <2>1, <2>2
<1> DEFINE f == [i \in K |-> Rank(K, i)]
<1>7. f \in Injection(K, 1..Cardinality(K))
  <2>1. f \in [K -> 1..Cardinality(K)]
    BY <1>5
  <2>2. \A i, j \in K : f[i] = f[j] => i = j
    <3> SUFFICES ASSUME NEW i \in K, NEW j \in K, i # j PROVE Rank(K, i) # Rank(K, j)
      OBVIOUS
    <3>1. i < j \/ j < i
      OBVIOUS
    <3> QED
      BY <1>2, <1>5, <1>6, <3>1
  <2> QED
    BY <2>1, <2>2 DEF Injection, IsInjective
<1>8. IsFiniteSet(1..Cardinality(K)) /\ Cardinality(1..Cardinality(K)) = Cardinality(K)
  BY <1>2, FS_Interval
<1>9. f \in Surjection(K, 1..Cardinality(K))
  BY <1>7, <1>8, FS_Injection
<1>10. \A r \in 1..Cardinality(K) : \E i \in K : Rank(K, i) = r
  BY <1>9 DEF Surjection
<1> QED
  BY <1>2, <1>5, <1>6, <1>10

\* A filter leaves the elements it keeps, each where those before and after it are.
LEMMA KeptIsSubsequence ==
  ASSUME NEW S, NEW s \in Seq(S), NEW K \in SUBSET (DOMAIN s)
  PROVE  \E n \in Nat : \E p \in [1..n -> K] :
           /\ Kept(s, K) \in Seq(S) /\ Len(Kept(s, K)) = n /\ DOMAIN Kept(s, K) = 1..n
           /\ \A j \in 1..n : Kept(s, K)[j] = s[p[j]]
           /\ \A i, j \in 1..n : i < j => p[i] < p[j]
           /\ \A k \in K : \E j \in 1..n : p[j] = k
<1>1. Len(s) \in Nat /\ DOMAIN s = 1..Len(s)
  BY LenProperties
<1>0. K \in SUBSET Int /\ IsFiniteSet(K)
  <2>1. IsFiniteSet(DOMAIN s)
    BY <1>1, FS_Interval
  <2> QED
    BY <1>1, <2>1, FS_Subset
<1>2. PICK n \in Nat :
        /\ n = Cardinality(K)
        /\ \A i \in K : Rank(K, i) \in 1..n
        /\ \A i, j \in K : i < j => Rank(K, i) < Rank(K, j)
        /\ \A r \in 1..n : \E i \in K : Rank(K, i) = r
  BY <1>0, Ranks
<1> DEFINE At(j) == CHOOSE i \in K : Rank(K, i) = j
<1>3. \A j \in 1..n : At(j) \in K /\ Rank(K, At(j)) = j
  BY <1>2
<1> HIDE DEF At
<1>4. PICK p : p = [j \in 1..n |-> At(j)]
  OBVIOUS
<1>5. p \in [1..n -> K] /\ \A j \in 1..n : Rank(K, p[j]) = j
  BY <1>3, <1>4
<1>6. \A i, j \in 1..n : i < j => p[i] < p[j]
  <2> SUFFICES ASSUME NEW i \in 1..n, NEW j \in 1..n, i < j PROVE p[i] < p[j]
    OBVIOUS
  <2>1. p[i] \in K /\ p[j] \in K /\ p[i] \in Nat /\ p[j] \in Nat
    BY <1>1, <1>5
  <2>2. p[i] # p[j] /\ ~(p[j] < p[i])
    BY <1>2, <1>5, <2>1
  <2> QED
    BY <2>1, <2>2
<1>7. \A k \in K : \E j \in 1..n : p[j] = k
  <2> SUFFICES ASSUME NEW k \in K PROVE p[Rank(K, k)] = k /\ Rank(K, k) \in 1..n
    OBVIOUS
  <2>1. PICK j \in 1..n : j = Rank(K, k)
    BY <1>2
  <2>2. p[j] \in K /\ Rank(K, p[j]) = j
    BY <1>5
  <2>3. p[j] \in Nat /\ k \in Nat
    BY <1>1, <2>2
  <2>4. ~(p[j] < k) /\ ~(k < p[j])
    BY <1>2, <2>1, <2>2
  <2> QED
    BY <2>1, <2>3, <2>4
<1>8. Kept(s, K) = [j \in 1..n |-> s[p[j]]]
  BY <1>2, <1>4 DEF Kept, At
<1>9. Kept(s, K) \in [1..n -> S]
  <2>1. \A j \in 1..n : s[p[j]] \in S
    BY <1>1, <1>5, ElementOfSeq
  <2> QED
    BY <1>8, <2>1
<1>10. Kept(s, K) \in Seq(S) /\ Len(Kept(s, K)) = n
  BY <1>9, IsSequence
<1>11. DOMAIN Kept(s, K) = 1..n /\ \A j \in 1..n : Kept(s, K)[j] = s[p[j]]
  BY <1>8
<1> HIDE DEF Kept
<1>12. /\ Kept(s, K) \in Seq(S) /\ Len(Kept(s, K)) = n /\ DOMAIN Kept(s, K) = 1..n
       /\ \A j \in 1..n : Kept(s, K)[j] = s[p[j]]
  BY <1>10, <1>11
<1>13. \E q \in [1..n -> K] :
         /\ \A j \in 1..n : Kept(s, K)[j] = s[q[j]]
         /\ \A i, j \in 1..n : i < j => q[i] < q[j]
         /\ \A k \in K : \E j \in 1..n : q[j] = k
  BY <1>5, <1>6, <1>7, <1>12
<1> QED
  BY <1>12, <1>13


\* What a filter leaves is what it keeps, all of it, in the order it had.
LEMMA KeptElements ==
  ASSUME NEW S, NEW s \in Seq(S), NEW K \in SUBSET (DOMAIN s)
  PROVE  /\ Kept(s, K) \in Seq(S)
         /\ \A i \in DOMAIN Kept(s, K) : \E k \in K : Kept(s, K)[i] = s[k]
         /\ \A k \in K : \E i \in DOMAIN Kept(s, K) : Kept(s, K)[i] = s[k]
         /\ \A i, j \in DOMAIN Kept(s, K) : i < j =>
              \E k, l \in K : k < l /\ Kept(s, K)[i] = s[k] /\ Kept(s, K)[j] = s[l]
<1>1. PICK n \in Nat : \E p \in [1..n -> K] :
        /\ Kept(s, K) \in Seq(S) /\ Len(Kept(s, K)) = n /\ DOMAIN Kept(s, K) = 1..n
        /\ \A j \in 1..n : Kept(s, K)[j] = s[p[j]]
        /\ \A i, j \in 1..n : i < j => p[i] < p[j]
        /\ \A k \in K : \E j \in 1..n : p[j] = k
  BY KeptIsSubsequence, SMTT(30)
<1>2. PICK p \in [1..n -> K] :
        /\ Kept(s, K) \in Seq(S) /\ DOMAIN Kept(s, K) = 1..n
        /\ \A j \in 1..n : Kept(s, K)[j] = s[p[j]]
        /\ \A i, j \in 1..n : i < j => p[i] < p[j]
        /\ \A k \in K : \E j \in 1..n : p[j] = k
  BY <1>1
<1>3. PICK w : w = Kept(s, K)
  OBVIOUS
<1>4. w \in Seq(S) /\ DOMAIN w = 1..n /\ \A j \in 1..n : w[j] = s[p[j]] /\ p[j] \in K
  BY <1>2, <1>3
<1>5. \A i \in DOMAIN w : \E k \in K : w[i] = s[k]
  BY <1>4
<1>6. \A k \in K : \E i \in DOMAIN w : w[i] = s[k]
  BY <1>2, <1>4
<1>7. \A i, j \in DOMAIN w : i < j => \E k, l \in K : k < l /\ w[i] = s[k] /\ w[j] = s[l]
  BY <1>2, <1>4
<1> QED
  BY <1>3, <1>4, <1>5, <1>6, <1>7

-----------------------------------------------------------------------------
(* Recursive functions.                                                    *)

\* Induction, for a set of numbers.
LEMMA NumbersAll ==
  ASSUME NEW P \in SUBSET Nat, 0 \in P, \A n \in P : n + 1 \in P
  PROVE  P = Nat
<1> SUFFICES ASSUME NEW n \in Nat, n \notin P PROVE FALSE
  OBVIOUS
<1> DEFINE Low == {k \in 0..n : k \in P}
           f == [k \in Low |-> k + 1]
<1>1. IsFiniteSet(Low)
  <2>1. IsFiniteSet(0..n)
    BY FS_Interval
  <2>2. Low \in SUBSET (0..n)
    OBVIOUS
  <2> QED
    BY <2>1, <2>2, FS_Subset
<1>2. f \in Injection(Low, Low)
  <2>1. \A k \in Low : k + 1 \in Low
    <3> TAKE k \in Low
    <3>1. k # n /\ k \in 0..n /\ k \in P
      OBVIOUS
    <3> QED
      BY <3>1
  <2>2. \A i, j \in Low : i + 1 = j + 1 => i = j
    OBVIOUS
  <2> QED
    BY <2>1, <2>2 DEF Injection, IsInjective
<1>3. f \in Surjection(Low, Low)
  BY <1>1, <1>2, FS_Injection
<1>4. 0 \in Low
  OBVIOUS
<1>5. PICK k \in Low : f[k] = 0
  BY <1>3, <1>4 DEF Surjection
<1> QED
  BY <1>5

\* What a recursion gives for the numbers up to n, when its step is a function on S.
ChainsOf(S, base, n, G) ==
  {f \in [0..n -> S] : f[0] = base /\ \A i \in 1..n : f[i] = G[f[i - 1]]}

LEMMA ChainLonger ==
  ASSUME NEW S, NEW base \in S, NEW G \in [S -> S], NEW k \in Nat,
         NEW f \in ChainsOf(S, base, k, G)
  PROVE  ChainsOf(S, base, k + 1, G) # {}
<1>1. f \in [0..k -> S] /\ f[0] = base /\ \A i \in 1..k : f[i] = G[f[i - 1]]
  BY DEF ChainsOf
<1>2. PICK e \in S : e = G[f[k]]
  BY <1>1
<1>3. PICK g : g = [i \in 0..(k + 1) |-> IF i = k + 1 THEN e ELSE f[i]]
  OBVIOUS
<1>4. g \in [0..(k + 1) -> S] /\ g[k + 1] = e /\ \A i \in 0..k : g[i] = f[i]
  BY <1>1, <1>3
<1>5. \A i \in 1..(k + 1) : g[i] = G[g[i - 1]]
  <2> TAKE i \in 1..(k + 1)
  <2>1. CASE i = k + 1
    <3>1. i - 1 = k /\ k \in 0..k
      BY <2>1
    <3> QED
      BY <1>2, <1>4, <2>1, <3>1
  <2>2. CASE i # k + 1
    <3>1. i \in 1..k /\ i \in 0..k /\ i - 1 \in 0..k
      BY <2>2
    <3> QED
      BY <1>1, <1>4, <3>1
  <2> QED
    BY <2>1, <2>2
<1>6. g[0] = base
  BY <1>1, <1>4
<1>7. g \in ChainsOf(S, base, k + 1, G)
  BY <1>4, <1>5, <1>6 DEF ChainsOf
<1> QED
  BY <1>7

LEMMA ChainExists ==
  ASSUME NEW S, NEW base \in S, NEW G \in [S -> S], NEW n \in Nat
  PROVE  ChainsOf(S, base, n, G) # {}
<1> DEFINE C == [k \in Nat |-> ChainsOf(S, base, k, G)]
           P == {k \in Nat : C[k] # {}}
<1>1. [i \in 0..0 |-> base] \in ChainsOf(S, base, 0, G)
  BY DEF ChainsOf
<1>2. 0 \in P
  BY <1>1
<1>3. \A k \in P : k + 1 \in P
  <2> TAKE k \in P
  <2>1. PICK f : f \in ChainsOf(S, base, k, G)
    OBVIOUS
  <2> QED
    BY <2>1, ChainLonger
<1>4. P = Nat
  BY <1>2, <1>3, NumbersAll
<1>5. n \in P
  BY <1>4
<1> QED
  BY <1>5

LEMMA ChainsAgree ==
  ASSUME NEW S, NEW base \in S, NEW G \in [S -> S], NEW m \in Nat, NEW n \in Nat,
         NEW f \in ChainsOf(S, base, m, G), NEW g \in ChainsOf(S, base, n, G),
         NEW j \in Nat, j <= m, j <= n
  PROVE  f[j] = g[j]
<1> DEFINE P == {k \in Nat : k <= m /\ k <= n => f[k] = g[k]}
<1>1. /\ f[0] = base /\ \A i \in 1..m : f[i] = G[f[i - 1]]
      /\ g[0] = base /\ \A i \in 1..n : g[i] = G[g[i - 1]]
  BY DEF ChainsOf
<1>2. 0 \in P
  BY <1>1
<1>3. \A k \in P : k + 1 \in P
  <2> TAKE k \in P
  <2> SUFFICES ASSUME k + 1 <= m, k + 1 <= n PROVE f[k + 1] = g[k + 1]
    OBVIOUS
  <2>1. k + 1 \in 1..m /\ k + 1 \in 1..n /\ (k + 1) - 1 = k /\ f[k] = g[k]
    OBVIOUS
  <2> QED
    BY <1>1, <2>1
<1>4. P = Nat
  BY <1>2, <1>3, NumbersAll
<1>5. j \in P
  BY <1>4
<1> QED
  BY <1>5

\* A recursion over the numbers whose step is a function on S defines a function.
RecursionsOf(S, base, G) ==
  {f \in [Nat -> S] : f[0] = base /\ \A n \in Nat : f[n + 1] = G[f[n]]}

LEMMA RecursionExists ==
  ASSUME NEW S, NEW base \in S, NEW G \in [S -> S]
  PROVE  RecursionsOf(S, base, G) # {}
<1> DEFINE C == [n \in Nat |-> CHOOSE f : f \in ChainsOf(S, base, n, G)]
<1>1. \A n \in Nat : C[n] \in ChainsOf(S, base, n, G)
  BY ChainExists
<1> HIDE DEF C
<1>2. PICK f : f = [n \in Nat |-> C[n][n]]
  OBVIOUS
<1>3. \A n \in Nat : C[n][n] \in S
  BY <1>1 DEF ChainsOf
<1>4. f \in [Nat -> S]
  BY <1>2, <1>3
<1>5. f[0] = base
  BY <1>1, <1>2 DEF ChainsOf
<1>6. \A n \in Nat : f[n + 1] = G[f[n]]
  <2> TAKE n \in Nat
  <2>1. n + 1 \in Nat /\ n + 1 \in 1..(n + 1) /\ (n + 1) - 1 = n /\ n <= n /\ n <= n + 1
    OBVIOUS
  <2>2. C[n + 1][n + 1] = G[C[n + 1][n]]
    BY <1>1, <2>1 DEF ChainsOf
  <2>3. C[n + 1][n] = C[n][n]
    BY <1>1, <2>1, ChainsAgree
  <2> QED
    BY <1>2, <2>1, <2>2, <2>3
<1> QED
  BY <1>4, <1>5, <1>6 DEF RecursionsOf

\* The position FoldLeft takes first off a set.
Largest(s) == CHOOSE x \in s : \A y \in s : x >= y

\* Some number is the largest of those up to n.
LEMMA LargestOf ==
  ASSUME NEW n \in Nat, NEW t \in SUBSET (1..n), t # {}
  PROVE  Largest(t) \in t /\ \A y \in t : Largest(t) >= y
<1> DEFINE P == {k \in Nat : \A u \in SUBSET (1..k) :
                   u # {} => \E x \in u : \A y \in u : x >= y}
<1>1. 0 \in P
  <2>1. 1..0 = {}
    OBVIOUS
  <2> QED
    BY <2>1
<1>2. \A k \in P : k + 1 \in P
  <2> TAKE k \in P
  <2> SUFFICES ASSUME NEW u \in SUBSET (1..(k + 1)), u # {}
               PROVE  \E x \in u : \A y \in u : x >= y
    OBVIOUS
  <2>1. CASE k + 1 \in u
    <3>1. \A y \in u : k + 1 >= y
      OBVIOUS
    <3> QED
      BY <2>1, <3>1
  <2>2. CASE k + 1 \notin u
    <3>1. u \in SUBSET (1..k)
      BY <2>2
    <3> QED
      BY <3>1
  <2> QED
    BY <2>1, <2>2
<1>3. P = Nat
  BY <1>1, <1>2, NumbersAll
<1>4. n \in P
  BY <1>3
<1>5. \E x \in t : \A y \in t : x >= y
  BY <1>4
<1> QED
  BY <1>5 DEF Largest

\* The folds over positions up to n, the last one first, whose step is a function on
\* S: FoldLeft is one of them, at 1..n.
FoldsOf(S, base, n, G) ==
  {f \in [SUBSET (1..n) -> S] : \A s \in SUBSET (1..n) :
     f[s] = IF s = {} THEN base ELSE G[<<f[s \ {Largest(s)}], Largest(s)>>]}

LEMMA FoldExists ==
  ASSUME NEW S, NEW base \in S, NEW n \in Nat, NEW G \in [S \X (1..n) -> S]
  PROVE  FoldsOf(S, base, n, G) # {}
<1> DEFINE Folds(k, f) == \A s \in SUBSET (1..k) :
             f[s] = IF s = {} THEN base ELSE G[<<f[s \ {Largest(s)}], Largest(s)>>]
           FS == [k \in Nat |-> {f \in [SUBSET (1..k) -> S] : Folds(k, f)}]
           P == {k \in Nat : k <= n => FS[k] # {}}
<1>1. \E f \in [SUBSET (1..0) -> S] : Folds(0, f)
  <2>1. PICK f : f = [s \in SUBSET (1..0) |-> base]
    OBVIOUS
  <2>2. f \in [SUBSET (1..0) -> S]
    BY <2>1
  <2>3. \A s \in SUBSET (1..0) : s = {} /\ f[s] = base
    BY <2>1
  <2>4. Folds(0, f)
    BY <2>3
  <2> QED
    BY <2>2, <2>4
<1>2. ASSUME NEW k \in Nat, k + 1 <= n,
             NEW f \in [SUBSET (1..k) -> S], Folds(k, f)
      PROVE  \E g \in [SUBSET (1..(k + 1)) -> S] : Folds(k + 1, g)
  <2>2. PICK g : g = [s \in SUBSET (1..(k + 1)) |->
                        IF k + 1 \in s THEN G[<<f[s \ {k + 1}], k + 1>>] ELSE f[s]]
    OBVIOUS
  <2>3. \A s \in SUBSET (1..(k + 1)) :
          /\ k + 1 \notin s => s \in SUBSET (1..k)
          /\ s \ {k + 1} \in SUBSET (1..k)
    OBVIOUS
  <2>4. k + 1 \in 1..n
    BY <1>2
  <2>5. ASSUME NEW s \in SUBSET (1..(k + 1)), k + 1 \in s
        PROVE  /\ g[s] \in S /\ Largest(s) = k + 1
               /\ g[s] = G[<<g[s \ {k + 1}], k + 1>>]
    <3>1. f[s \ {k + 1}] \in S
      BY <2>3
    <3>2. g[s] = G[<<f[s \ {k + 1}], k + 1>>]
      BY <2>2, <2>5
    <3>3. g[s] \in S
      BY <2>4, <3>1, <3>2
    <3>4. s \ {k + 1} \in SUBSET (1..(k + 1)) /\ k + 1 \notin s \ {k + 1}
      OBVIOUS
    <3>5. g[s \ {k + 1}] = f[s \ {k + 1}]
      BY <2>2, <3>4
    <3>6. \A y \in s : k + 1 >= y
      OBVIOUS
    <3>7. \A x \in s : (\A y \in s : x >= y) => x = k + 1
      BY <2>5
    <3>8. Largest(s) = k + 1
      BY <2>5, <3>6, <3>7 DEF Largest
    <3> QED
      BY <3>2, <3>3, <3>5, <3>8
  <2>6. ASSUME NEW s \in SUBSET (1..(k + 1)), k + 1 \notin s
        PROVE  /\ g[s] \in S
               /\ g[s] = IF s = {} THEN base ELSE G[<<g[s \ {Largest(s)}], Largest(s)>>]
    <3>1. s \in SUBSET (1..k) /\ g[s] = f[s]
      BY <2>2, <2>3, <2>6
    <3>2. s \ {Largest(s)} \in SUBSET (1..k)
      BY <3>1
    <3>3. s \ {Largest(s)} \in SUBSET (1..(k + 1)) /\ k + 1 \notin s \ {Largest(s)}
      BY <2>6
    <3>4. g[s \ {Largest(s)}] = f[s \ {Largest(s)}]
      BY <2>2, <3>3
    <3> QED
      BY <1>2, <3>1, <3>4
  <2>7. g \in [SUBSET (1..(k + 1)) -> S]
    BY <2>2, <2>5, <2>6
  <2>8. Folds(k + 1, g)
    BY <2>5, <2>6
  <2> QED
    BY <2>7, <2>8
<1>0. \A k \in Nat : \A f : f \in FS[k] <=> f \in [SUBSET (1..k) -> S] /\ Folds(k, f)
  OBVIOUS
<1> HIDE DEF Folds, FS
<1>3. P = Nat
  <2>0. 0 \in P
    BY <1>1, <1>0
  <2>1. \A k \in P : k + 1 \in P
    <3> TAKE k \in P
    <3> SUFFICES ASSUME k + 1 <= n PROVE FS[k + 1] # {}
      OBVIOUS
    <3>1. PICK f : f \in FS[k]
      OBVIOUS
    <3>2. f \in [SUBSET (1..k) -> S] /\ Folds(k, f)
      BY <3>1, <1>0
    <3>3. PICK g \in [SUBSET (1..(k + 1)) -> S] : Folds(k + 1, g)
      BY <1>2, <3>2
    <3>4. k + 1 \in Nat
      OBVIOUS
    <3>5. g \in FS[k + 1]
      BY <3>3, <3>4, <1>0
    <3> QED
      BY <3>5
  <2> QED
    BY <2>0, <2>1, NumbersAll
<1>5. n \in P
  BY <1>3
<1>6. PICK f : f \in FS[n]
  BY <1>5
<1>4. f \in [SUBSET (1..n) -> S] /\ Folds(n, f)
  BY <1>6, <1>0
<1> QED
  BY <1>4 DEF Folds, FoldsOf


\* The positions up to i.
LEMMA UpTo ==
  ASSUME NEW n \in Nat, NEW i \in 1..n
  PROVE  /\ 1..i \in SUBSET (1..n) /\ 1..i # {} /\ Largest(1..i) = i
         /\ (1..i) \ {i} = 1..(i - 1) /\ i \in 0..n /\ i - 1 \in 0..n
<1>1. 1..i \in SUBSET (1..n) /\ i \in 1..i /\ i \in Nat
  OBVIOUS
<1>2. Largest(1..i) \in 1..i /\ Largest(1..i) >= i
  BY <1>1, LargestOf
<1>3. Largest(1..i) = i
  BY <1>1, <1>2
<1> QED
  BY <1>1, <1>3

-----------------------------------------------------------------------------
(* Finite sets.                                                            *)

\* Of a finite set a part that is not all of it has fewer elements.
LEMMA Fewer ==
  ASSUME NEW Y, IsFiniteSet(Y), NEW X \in SUBSET Y, X # Y
  PROVE  Cardinality(X) \in Nat /\ Cardinality(Y) \in Nat /\ Cardinality(X) < Cardinality(Y)
BY FS_Subset, FS_CardinalityType

\* The values of a function with finitely many arguments.
LEMMA RangeFinite ==
  ASSUME NEW f, IsFiniteSet(DOMAIN f)
  PROVE  IsFiniteSet(Range(f))
<1> DEFINE g == [x \in DOMAIN f |-> f[x]]
<1>1. g \in [DOMAIN f -> Range(f)] /\ \A y \in Range(f) : \E x \in DOMAIN f : g[x] = y
  BY DEF Range
<1>2. g \in Surjection(DOMAIN f, Range(f))
  BY <1>1 DEF Surjection
<1> QED
  BY <1>2, FS_Surjection
=============================================================================
