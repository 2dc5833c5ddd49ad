----------------------------- MODULE AuditProofs -----------------------------
(***************************************************************************)
(* The safety of a run's plan from its seed to its summary, for any tree,  *)
(* caps, evidence, index and ledger that Audit assumes and any number of   *)
(* kills, edits and runs of others.                                        *)
(***************************************************************************)
EXTENDS Audit, FiniteSetTheorems, WellFoundedInduction, TLAPS

-----------------------------------------------------------------------------
(* Numbers.  Every nonempty set of natural numbers has a least element, a  *)
(* set closed under succession holds them all.                             *)
LEMMA Least == \A T \in SUBSET Nat : T # {} => \E m \in T : \A n \in T : m <= n
<1> SUFFICES ASSUME NEW T \in SUBSET Nat, T # {} PROVE \E m \in T : \A n \in T : m <= n
  OBVIOUS
<1>1. IsWellFoundedOn(OpToRel(<, Nat), Nat)
  BY NatLessThanWellFounded
<1>2. PICK m \in T : \A n \in T : ~(<<n, m>> \in OpToRel(<, Nat))
  BY <1>1, WFMin
<1>3. \A n \in T : ~(n < m)
  <2> TAKE n \in T
  <2>1. n \in Nat /\ m \in Nat
    OBVIOUS
  <2> QED
    BY <1>2, <2>1 DEF OpToRel
<1> QED
  BY <1>3

LEMMA Succession ==
  ASSUME NEW T, 0 \in T, \A n \in Nat : n \in T => n + 1 \in T
  PROVE  Nat \subseteq T
<1> DEFINE bad == Nat \ T
<1> SUFFICES ASSUME bad # {} PROVE FALSE
  OBVIOUS
<1>1. PICK m \in bad : \A n \in bad : m <= n
  <2>1. bad \in SUBSET Nat
    OBVIOUS
  <2> HIDE DEF bad
  <2> QED
    BY <2>1, Least
<1>2. m \in Nat /\ m \notin T /\ m # 0
  OBVIOUS
<1>3. m - 1 \in Nat /\ ~(m <= m - 1)
  BY <1>2
<1>4. m - 1 \in T
  BY <1>1, <1>3
<1>5. (m - 1) + 1 = m
  BY <1>2
<1> QED
  BY <1>2, <1>3, <1>4, <1>5

(* The same up to a bound.                                                 *)
LEMMA BoundedSuccession ==
  ASSUME NEW N \in Nat, NEW T, 0 \in T, \A n \in Nat : n < N /\ n \in T => n + 1 \in T
  PROVE  0..N \subseteq T
<1> DEFINE U == {n \in Nat : n <= N => n \in T}
<1>1. 0 \in U
  OBVIOUS
<1>2. ASSUME NEW n \in Nat, n \in U PROVE n + 1 \in U
  BY <1>2
<1> HIDE DEF U
<1>3. Nat \subseteq U
  BY <1>1, <1>2, Succession
<1> QED
  BY <1>3 DEF U

(* A function of the numbers up to N can be defined by recursion.          *)
Steps(f, N, b, g) == f[0] = b /\ \A n \in 1..N : f[n] = g[<<n, f[n - 1]>>]

LEMMA Recursion ==
  ASSUME NEW A, NEW b \in A, NEW g, \A n \in Nat : \A a \in A : g[<<n, a>>] \in A
  PROVE  \A N \in Nat : \E f \in [0..N -> A] : Steps(f, N, b, g)
<1> DEFINE Good(f, n) == f[0] = b /\ \A k \in 1..n : f[k] = g[<<k, f[k - 1]>>]
           T == {n \in Nat : \E f \in [0..n -> A] : Good(f, n)}
<1>1. 0 \in T
  <2> DEFINE f == [k \in 0..0 |-> b]
  <2>1. f \in [0..0 -> A] /\ Good(f, 0)
    OBVIOUS
  <2> QED
    BY <2>1
<1>2. ASSUME NEW n \in Nat, n \in T PROVE n + 1 \in T
  <2>1. PICK f \in [0..n -> A] : Good(f, n)
    BY <1>2
  <2> DEFINE h == [k \in 0..(n + 1) |-> IF k = n + 1 THEN g[<<n + 1, f[n]>>] ELSE f[k]]
  <2>2. \A k \in 0..n : f[k] \in A /\ h[k] = f[k] /\ k \in 0..(n + 1)
    OBVIOUS
  <2>3. h[n + 1] = g[<<n + 1, f[n]>>] /\ g[<<n + 1, f[n]>>] \in A
    BY <2>2
  <2>4. h \in [0..(n + 1) -> A]
    BY <2>2, <2>3
  <2>5. h[0] = b
    BY <2>1, <2>2
  <2>6. ASSUME NEW k \in 1..(n + 1) PROVE h[k] = g[<<k, h[k - 1]>>]
    <3>1. CASE k = n + 1
      <4>1. n \in 0..n /\ k - 1 = n
        BY <3>1
      <4>2. h[k - 1] = f[n]
        BY <2>2, <4>1
      <4> HIDE DEF h
      <4> QED
        BY <2>3, <3>1, <4>2
    <3>2. CASE k # n + 1
      <4>1. k \in 1..n /\ k \in 0..n /\ k - 1 \in 0..n
        BY <3>2
      <4>2. h[k] = f[k] /\ h[k - 1] = f[k - 1]
        BY <2>2, <4>1
      <4> HIDE DEF h
      <4> QED
        BY <2>1, <4>1, <4>2
    <3> QED
      BY <3>1, <3>2
  <2>7. Good(h, n + 1)
    BY <2>5, <2>6
  <2> HIDE DEF Good, h
  <2> QED
    BY <2>4, <2>7
<1> HIDE DEF T
<1>3. Nat \subseteq T
  BY <1>1, <1>2, Succession
<1> QED
  BY <1>3 DEF T, Steps

-----------------------------------------------------------------------------
(* Orders.  R is a strict total order on S.                                *)
StrictOrder(S, R) ==
  /\ \A x \in S : <<x, x>> \notin R
  /\ \A x, y, z \in S : <<x, y>> \in R /\ <<y, z>> \in R => <<x, z>> \in R
  /\ \A x, y \in S : x # y => <<x, y>> \in R \/ <<y, x>> \in R

Below(S, R, x) == {y \in S : <<y, x>> \in R}

LEMMA BelowGrows ==
  ASSUME NEW S, IsFiniteSet(S), NEW R, StrictOrder(S, R)
  PROVE  /\ \A x \in S : IsFiniteSet(Below(S, R, x)) /\ Cardinality(Below(S, R, x)) \in 0..(Cardinality(S) - 1)
         /\ \A x, y \in S : <<x, y>> \in R => Cardinality(Below(S, R, x)) < Cardinality(Below(S, R, y))
<1>1. Cardinality(S) \in Nat
  BY FS_CardinalityType
<1>2. ASSUME NEW x \in S
      PROVE  IsFiniteSet(Below(S, R, x)) /\ Cardinality(Below(S, R, x)) \in 0..(Cardinality(S) - 1)
  <2>1. Below(S, R, x) \in SUBSET (S \ {x})
    BY DEF Below, StrictOrder
  <2>2. IsFiniteSet(S \ {x}) /\ Cardinality(S \ {x}) = Cardinality(S) - 1
    BY FS_RemoveElement
  <2>3. IsFiniteSet(Below(S, R, x)) /\ Cardinality(Below(S, R, x)) <= Cardinality(S \ {x})
    BY <2>1, <2>2, FS_Subset
  <2>4. Cardinality(Below(S, R, x)) \in Nat
    BY <2>3, FS_CardinalityType
  <2> QED
    BY <1>1, <2>2, <2>3, <2>4
<1>3. ASSUME NEW x \in S, NEW y \in S, <<x, y>> \in R
      PROVE  Cardinality(Below(S, R, x)) < Cardinality(Below(S, R, y))
  <2>1. x \notin Below(S, R, x)
    BY DEF Below, StrictOrder
  <2>2. Below(S, R, x) \cup {x} \in SUBSET Below(S, R, y)
    BY <1>3 DEF Below, StrictOrder
  <2>3. Cardinality(Below(S, R, x) \cup {x}) = Cardinality(Below(S, R, x)) + 1
    BY <1>2, <2>1, FS_AddElement
  <2>4. Cardinality(Below(S, R, x) \cup {x}) <= Cardinality(Below(S, R, y))
    BY <1>2, <2>2, FS_Subset
  <2> QED
    BY <1>2, <2>3, <2>4
<1> QED
  BY <1>2, <1>3

(* Every rank below the size of S is that of one member.                   *)
LEMMA Positions ==
  ASSUME NEW S, IsFiniteSet(S), NEW R, StrictOrder(S, R)
  PROVE  \A n \in 1..Cardinality(S) : \E x \in S : Cardinality(Below(S, R, x)) = n - 1
<1> DEFINE N == Cardinality(S)
           rank == [x \in S |-> Cardinality(Below(S, R, x))]
<1>1. N \in Nat
  BY FS_CardinalityType
<1>2. \A x \in S : rank[x] \in 0..(N - 1)
  BY BelowGrows
<1>3. \A x, y \in S : rank[x] = rank[y] => x = y
  <2> SUFFICES ASSUME NEW x \in S, NEW y \in S, x # y PROVE rank[x] # rank[y]
    OBVIOUS
  <2>1. rank[x] < rank[y] \/ rank[y] < rank[x]
    BY BelowGrows DEF StrictOrder
  <2>2. rank[x] \in Int /\ rank[y] \in Int
    BY <1>1, <1>2
  <2> HIDE DEF rank
  <2> QED
    BY <2>1, <2>2
<1>4. rank \in Injection(S, 0..(N - 1))
  <2>1. rank \in [S -> 0..(N - 1)]
    BY <1>2
  <2> HIDE DEF rank
  <2> QED
    BY <1>3, <2>1 DEF Injection, IsInjective
<1>5. IsFiniteSet(0..(N - 1)) /\ Cardinality(0..(N - 1)) = N
  <2>1. 0 \in Int /\ N - 1 \in Int
    BY <1>1
  <2>2. IsFiniteSet(0..(N - 1)) /\ Cardinality(0..(N - 1)) = IF 0 > N - 1 THEN 0 ELSE (N - 1) - 0 + 1
    BY <2>1, FS_Interval
  <2> HIDE DEF N, rank
  <2> QED
    BY <1>1, <2>2
<1>6. rank \in Surjection(S, 0..(N - 1))
  <2> HIDE DEF rank
  <2> QED
    BY <1>4, <1>5, FS_Injection
<1>7. \A n \in 0..(N - 1) : \E x \in S : rank[x] = n
  <2> HIDE DEF rank
  <2> QED
    BY <1>6 DEF Surjection
<1> SUFFICES ASSUME NEW n \in 1..N PROVE \E x \in S : Cardinality(Below(S, R, x)) = n - 1
  OBVIOUS
<1>8. n - 1 \in 0..(N - 1)
  BY <1>1
<1> QED
  BY <1>7, <1>8

(* q lists S in the order R.                                               *)
Lists(q, S, R) ==
  /\ q \in [1..Cardinality(S) -> S]
  /\ \A n \in 1..Cardinality(S) : Cardinality(Below(S, R, q[n])) = n - 1

LEMMA Listed ==
  ASSUME NEW S, IsFiniteSet(S), NEW R, StrictOrder(S, R), NEW q, Lists(q, S, R)
  PROVE  /\ Cardinality(S) \in Nat /\ q \in Seq(S) /\ Len(q) = Cardinality(S)
         /\ \A m, n \in 1..Cardinality(S) : m < n => <<q[m], q[n]>> \in R
         /\ \A m, n \in 1..Cardinality(S) : q[m] = q[n] => m = n
         /\ \A x \in S : \E n \in 1..Cardinality(S) : q[n] = x
<1> DEFINE N == Cardinality(S)
<1>1. N \in Nat
  BY FS_CardinalityType
<1>2. q \in Seq(S) /\ Len(q) = N /\ DOMAIN q = 1..N
  <2>1. q \in [1..N -> S]
    BY DEF Lists
  <2> HIDE DEF N
  <2> QED
    BY <1>1, <2>1
<1>3. ASSUME NEW m \in 1..N, NEW n \in 1..N, q[m] = q[n] PROVE m = n
  <2>1. m - 1 = n - 1
    BY <1>3 DEF Lists
  <2> HIDE DEF N
  <2> QED
    BY <1>1, <2>1
<1>4. ASSUME NEW m \in 1..N, NEW n \in 1..N, m < n PROVE <<q[m], q[n]>> \in R
  <2>1. q[m] \in S /\ q[n] \in S
    BY DEF Lists
  <2>2. q[m] # q[n]
    <3>1. m # n
      <4> HIDE DEF N
      <4> QED
        BY <1>1, <1>4
    <3> QED
      BY <1>3, <3>1
  <2>3. <<q[n], q[m]>> \notin R
    <3> SUFFICES ASSUME <<q[n], q[m]>> \in R PROVE FALSE
      OBVIOUS
    <3>1. Cardinality(Below(S, R, q[n])) < Cardinality(Below(S, R, q[m]))
      BY <2>1, BelowGrows
    <3>2. n - 1 < m - 1
      BY <3>1 DEF Lists
    <3> HIDE DEF N
    <3> QED
      BY <1>1, <1>4, <3>2
  <2> QED
    BY <2>1, <2>2, <2>3 DEF StrictOrder
<1>5. \A x \in S : \E n \in 1..N : q[n] = x
  <2>1. q \in Injection(1..N, S)
    <3>1. q \in [1..N -> S]
      BY DEF Lists
    <3> HIDE DEF N
    <3> QED
      BY <1>3, <3>1 DEF Injection, IsInjective
  <2>2. Cardinality(1..N) = N
    <3>1. 1 \in Int /\ N \in Int
      BY <1>1
    <3>2. Cardinality(1..N) = IF 1 > N THEN 0 ELSE N - 1 + 1
      BY <3>1, FS_Interval
    <3> HIDE DEF N
    <3> QED
      BY <1>1, <3>2
  <2>3. q \in Surjection(1..N, S)
    BY <2>1, <2>2, FS_Injection
  <2> QED
    BY <2>3 DEF Surjection
<1> QED
  BY <1>1, <1>2, <1>3, <1>4, <1>5

(* The order of the numbers.                                               *)
Ascending == {p \in Int \X Int : p[1] < p[2]}

LEMMA AscendingStrict == \A S : S \subseteq Int => StrictOrder(S, Ascending)
<1> TAKE S
<1> HAVE S \subseteq Int
<1>1. \A x, y \in S : <<x, y>> \in Ascending <=> x < y
  BY DEF Ascending
<1>2. \A x, y, z \in S : ~(x < x) /\ (x < y /\ y < z => x < z) /\ (x # y => x < y \/ y < x)
  OBVIOUS
<1> QED
  BY <1>1, <1>2 DEF StrictOrder

LEMMA InOrderLists ==
  ASSUME NEW S, IsFiniteSet(S), S \subseteq Int
  PROVE  Lists(InOrder(S), S, Ascending)
<1> DEFINE N == Cardinality(S)
<1>1. \A x \in S : {y \in S : y < x} = Below(S, Ascending, x)
  BY DEF Below, Ascending
<1>2. ASSUME NEW n \in 1..N PROVE \E x \in S : Cardinality({y \in S : y < x}) = n - 1
  <2>1. StrictOrder(S, Ascending)
    BY AscendingStrict
  <2>2. PICK x \in S : Cardinality(Below(S, Ascending, x)) = n - 1
    BY <2>1, Positions
  <2> QED
    BY <1>1, <2>2
<1>3. InOrder(S) = [n \in 1..N |-> CHOOSE x \in S : Cardinality({y \in S : y < x}) = n - 1]
  BY DEF InOrder, Ranked
<1>4. ASSUME NEW n \in 1..N
      PROVE  InOrder(S)[n] \in S /\ Cardinality({y \in S : y < InOrder(S)[n]}) = n - 1
  BY <1>2, <1>3
<1>5. InOrder(S) \in [1..N -> S]
  BY <1>3, <1>4
<1> QED
  BY <1>1, <1>4, <1>5 DEF Lists

-----------------------------------------------------------------------------
(* Sequences.  What is picked of a sequence, and what is sorted.           *)
LEMMA PickedIs ==
  ASSUME NEW X, NEW s \in Seq(X), NEW I \in SUBSET (1..Len(s))
  PROVE  /\ IsFiniteSet(I) /\ Cardinality(I) \in Nat
         /\ Picked(s, I) \in Seq(X) /\ Len(Picked(s, I)) = Cardinality(I)
         /\ \A n \in 1..Cardinality(I) : \E i \in I : Picked(s, I)[n] = s[i]
         /\ \A i \in I : \E n \in 1..Cardinality(I) : Picked(s, I)[n] = s[i]
         /\ (\A i, k \in I : s[i] = s[k] => i = k) =>
              \A m, n \in 1..Cardinality(I) : Picked(s, I)[m] = Picked(s, I)[n] => m = n
<1> DEFINE at == InOrder(I)
           N == Cardinality(I)
<1>1. IsFiniteSet(I) /\ I \subseteq Int
  <2>1. 1 \in Int /\ Len(s) \in Int
    OBVIOUS
  <2>2. IsFiniteSet(1..Len(s))
    BY <2>1, FS_Interval
  <2>3. IsFiniteSet(I)
    BY <2>2, FS_Subset
  <2>4. I \subseteq Int
    OBVIOUS
  <2> QED
    BY <2>3, <2>4
<1>2. Lists(at, I, Ascending) /\ StrictOrder(I, Ascending)
  BY <1>1, InOrderLists, AscendingStrict
<1>3. /\ N \in Nat /\ at \in [1..N -> I] /\ DOMAIN at = 1..N
      /\ \A m, n \in 1..N : at[m] = at[n] => m = n
      /\ \A x \in I : \E n \in 1..N : at[n] = x
  <2>1. at \in [1..N -> I]
    BY <1>2 DEF Lists
  <2> HIDE DEF at
  <2> QED
    BY <1>1, <1>2, <2>1, Listed
<1>4. Picked(s, I) = [n \in 1..N |-> s[at[n]]]
  BY <1>3 DEF Picked
<1> HIDE DEF at, N
<1>5. \A i \in I : s[i] \in X
  OBVIOUS
<1>6. Picked(s, I) \in [1..N -> X]
  BY <1>3, <1>4, <1>5
<1>7. Picked(s, I) \in Seq(X) /\ Len(Picked(s, I)) = N
  BY <1>3, <1>6
<1>8. \A n \in 1..N : at[n] \in I /\ Picked(s, I)[n] = s[at[n]]
  BY <1>3, <1>4
<1> HIDE <1>4
<1>9. \A i \in I : \E n \in 1..N : Picked(s, I)[n] = s[i]
  BY <1>3, <1>8
<1>10. \A n \in 1..N : \E i \in I : Picked(s, I)[n] = s[i]
  BY <1>8
<1>11. ASSUME \A i, k \in I : s[i] = s[k] => i = k, NEW m \in 1..N, NEW n \in 1..N, Picked(s, I)[m] = Picked(s, I)[n]
       PROVE  m = n
  <2>1. at[m] \in I /\ at[n] \in I /\ s[at[m]] = s[at[n]]
    BY <1>8, <1>11
  <2>2. at[m] = at[n]
    BY <1>11, <2>1
  <2> QED
    BY <1>3, <2>2
<1> QED
  BY <1>1, <1>3, <1>7, <1>9, <1>10, <1>11 DEF N

(* Keys of the same length are in a strict total order.                    *)
LEMMA PrecedesStrict ==
  ASSUME NEW m \in Nat
  PROVE  /\ \A k \in [1..m -> Int] : ~Precedes(k, k)
         /\ \A k, l \in [1..m -> Int] : k # l => Precedes(k, l) \/ Precedes(l, k)
         /\ \A k, l, o \in [1..m -> Int] : Precedes(k, l) /\ Precedes(l, o) => Precedes(k, o)
<1>1. ASSUME NEW k \in [1..m -> Int] PROVE ~Precedes(k, k)
  <2>1. \A i \in 1..m : ~(k[i] < k[i])
    <3> TAKE i \in 1..m
    <3>1. k[i] \in Int
      OBVIOUS
    <3> QED
      BY <3>1
  <2> QED
    BY <2>1 DEF Precedes
<1>2. ASSUME NEW k \in [1..m -> Int], NEW l \in [1..m -> Int], k # l
      PROVE  Precedes(k, l) \/ Precedes(l, k)
  <2> DEFINE D == {i \in 1..m : k[i] # l[i]}
  <2>1. PICK i \in D : \A n \in D : i <= n
    <3>1. D # {}
      BY <1>2
    <3>2. D \in SUBSET Nat
      OBVIOUS
    <3> HIDE DEF D
    <3> QED
      BY <3>1, <3>2, Least
  <2>2. i \in 1..m /\ k[i] # l[i]
    OBVIOUS
  <2>3. \A n \in 1..(i - 1) : n \in 1..m /\ ~(i <= n)
    BY <2>2
  <2>4. \A n \in 1..(i - 1) : k[n] = l[n]
    BY <2>1, <2>3
  <2>5. k[i] < l[i] \/ l[i] < k[i]
    <3>1. k[i] \in Int /\ l[i] \in Int
      BY <2>2
    <3> QED
      BY <2>2, <3>1
  <2> HIDE DEF D
  <2> QED
    BY <2>2, <2>4, <2>5 DEF Precedes
<1>3. ASSUME NEW k \in [1..m -> Int], NEW l \in [1..m -> Int], NEW o \in [1..m -> Int],
             Precedes(k, l), Precedes(l, o)
      PROVE  Precedes(k, o)
  <2>1. PICK i \in 1..m : k[i] < l[i] /\ \A n \in 1..(i - 1) : k[n] = l[n]
    BY <1>3 DEF Precedes
  <2>2. PICK j \in 1..m : l[j] < o[j] /\ \A n \in 1..(j - 1) : l[n] = o[n]
    BY <1>3 DEF Precedes
  <2>3. k[i] \in Int /\ l[i] \in Int /\ o[i] \in Int /\ k[j] \in Int /\ l[j] \in Int /\ o[j] \in Int
    OBVIOUS
  <2>4. CASE i < j
    <3>1. i \in 1..(j - 1) /\ \A n \in 1..(i - 1) : n \in 1..(j - 1)
      BY <2>4
    <3>2. k[i] < o[i] /\ \A n \in 1..(i - 1) : k[n] = o[n]
      BY <2>1, <2>2, <3>1
    <3> QED
      BY <3>2 DEF Precedes
  <2>5. CASE j < i
    <3>1. j \in 1..(i - 1) /\ \A n \in 1..(j - 1) : n \in 1..(i - 1)
      BY <2>5
    <3>2. k[j] < o[j] /\ \A n \in 1..(j - 1) : k[n] = o[n]
      BY <2>1, <2>2, <3>1
    <3> QED
      BY <3>2 DEF Precedes
  <2>6. CASE i = j
    <3>1. k[i] < o[i]
      BY <2>1, <2>2, <2>3, <2>6
    <3>2. \A n \in 1..(i - 1) : k[n] = o[n]
      BY <2>1, <2>2, <2>6
    <3> QED
      BY <3>1, <3>2 DEF Precedes
  <2> QED
    BY <2>4, <2>5, <2>6
<1> QED
  BY <1>1, <1>2, <1>3

(* A sorted sequence is the same sequence in another order.                *)
Shuffles(place, N) ==
  /\ place \in [1..N -> 1..N]
  /\ \A m, n \in 1..N : place[m] = place[n] => m = n
  /\ \A i \in 1..N : \E n \in 1..N : place[n] = i

Arranged(q, s, place) ==
  q = [n \in 1..Len(s) |-> s[place[n]]]

LEMMA SortedShuffles ==
  ASSUME NEW X, NEW s \in Seq(X), NEW m \in Nat, NEW key, \A i \in 1..Len(s) : key[i] \in [1..m -> Int]
  PROVE  \E place : Shuffles(place, Len(s)) /\ Arranged(Sorted(s, key), s, place)
<1> DEFINE N == Len(s)
           D == DOMAIN s
           R == {p \in D \X D : Precedes(Append(key[p[1]], p[1]), Append(key[p[2]], p[2]))}
           place == Ranked(D, LAMBDA i, k : Precedes(Append(key[i], i), Append(key[k], k)))
<1>1. N \in Nat /\ D = 1..N
  OBVIOUS
<1>2. IsFiniteSet(D) /\ Cardinality(D) = N
  <2>1. 1 \in Int /\ N \in Int
    OBVIOUS
  <2>2. IsFiniteSet(1..N) /\ Cardinality(1..N) = IF 1 > N THEN 0 ELSE N - 1 + 1
    BY <2>1, FS_Interval
  <2> HIDE DEF N, D
  <2> QED
    BY <1>1, <2>2
<1>3. ASSUME NEW i \in D
      PROVE  Append(key[i], i) \in [1..(m + 1) -> Int] /\ Append(key[i], i)[m + 1] = i
  <2>1. key[i] \in [1..m -> Int] /\ i \in Int
    BY <1>1
  <2>2. key[i] \in Seq(Int) /\ Len(key[i]) = m
    BY <2>1
  <2>3. Append(key[i], i) \in Seq(Int) /\ Len(Append(key[i], i)) = m + 1 /\ Append(key[i], i)[m + 1] = i
    BY <2>1, <2>2
  <2>4. \A q \in Seq(Int) : Len(q) = m + 1 => q \in [1..(m + 1) -> Int]
    OBVIOUS
  <2> QED
    BY <2>3, <2>4
<1>4. \A i, k \in D : <<i, k>> \in R <=> Precedes(Append(key[i], i), Append(key[k], k))
  OBVIOUS
<1>5. StrictOrder(D, R)
  <2> HIDE DEF R, D, N
  <2>1. m + 1 \in Nat
    OBVIOUS
  <2>2. \A i, k \in D : i # k => Append(key[i], i) # Append(key[k], k)
    <3> TAKE i \in D
    <3> TAKE k \in D
    <3>1. Append(key[i], i)[m + 1] = i /\ Append(key[k], k)[m + 1] = k
      BY <1>3
    <3> QED
      BY <3>1
  <2>3. \A x \in D : <<x, x>> \notin R
    BY <1>3, <1>4, <2>1, PrecedesStrict
  <2>4. \A x, y \in D : x # y => <<x, y>> \in R \/ <<y, x>> \in R
    <3> TAKE x \in D
    <3> TAKE y \in D
    <3>1. Append(key[x], x) \in [1..(m + 1) -> Int] /\ Append(key[y], y) \in [1..(m + 1) -> Int]
      BY <1>3
    <3> QED
      BY <1>4, <2>1, <2>2, <3>1, PrecedesStrict
  <2>5. ASSUME NEW x \in D, NEW y \in D, NEW z \in D, <<x, y>> \in R, <<y, z>> \in R PROVE <<x, z>> \in R
    <3>1. /\ Append(key[x], x) \in [1..(m + 1) -> Int] /\ Append(key[y], y) \in [1..(m + 1) -> Int]
          /\ Append(key[z], z) \in [1..(m + 1) -> Int]
      BY <1>3
    <3>2. Precedes(Append(key[x], x), Append(key[y], y)) /\ Precedes(Append(key[y], y), Append(key[z], z))
      BY <1>4, <2>5
    <3>3. Precedes(Append(key[x], x), Append(key[z], z))
      BY <2>1, <3>1, <3>2, PrecedesStrict
    <3> QED
      BY <1>4, <3>3
  <2> QED
    BY <2>3, <2>4, <2>5 DEF StrictOrder
<1>6. \A x \in D : {y \in D : Precedes(Append(key[y], y), Append(key[x], x))} = Below(D, R, x)
  BY <1>4 DEF Below
<1>7. ASSUME NEW n \in 1..N
      PROVE  /\ place[n] \in D
             /\ Cardinality({y \in D : Precedes(Append(key[y], y), Append(key[place[n]], place[n]))}) = n - 1
  <2>1. PICK x \in D : Cardinality(Below(D, R, x)) = n - 1
    <3> HIDE DEF D, R, N
    <3> QED
      BY <1>2, <1>5, Positions
  <2>2. Cardinality({y \in D : Precedes(Append(key[y], y), Append(key[x], x))}) = n - 1
    BY <1>6, <2>1
  <2>3. place[n] = CHOOSE z \in D : Cardinality({y \in D : Precedes(Append(key[y], y), Append(key[z], z))}) = n - 1
    <3> HIDE DEF D
    <3> QED
      BY <1>2 DEF Ranked
  <2> HIDE DEF D, R, N, place
  <2> QED
    BY <2>2, <2>3
<1>8. DOMAIN place = 1..N
  <2> HIDE DEF D
  <2> QED
    BY <1>2 DEF Ranked
<1>9. place \in [1..N -> D]
  <2> DEFINE at(n) == CHOOSE z \in D : Cardinality({y \in D : Precedes(Append(key[y], y), Append(key[z], z))}) = n - 1
  <2>1. place = [n \in 1..N |-> at(n)]
    <3> HIDE DEF D
    <3> QED
      BY <1>2 DEF Ranked
  <2> HIDE DEF D, R, N, place, at
  <2> QED
    BY <1>7, <2>1
<1>10. Lists(place, D, R)
  <2> HIDE DEF D, R, N, place
  <2> QED
    BY <1>2, <1>6, <1>7, <1>9 DEF Lists
<1>11. Shuffles(place, N)
  <2> HIDE DEF D, R, N, place
  <2>1. /\ \A k, n \in 1..Cardinality(D) : place[k] = place[n] => k = n
        /\ \A x \in D : \E n \in 1..Cardinality(D) : place[n] = x
    BY <1>2, <1>5, <1>10, Listed
  <2> QED
    BY <1>1, <1>2, <1>9, <2>1 DEF Shuffles
<1>12. Sorted(s, key) = [n \in 1..N |-> s[place[n]]]
  BY <1>1 DEF Sorted
<1> QED
  BY <1>11, <1>12 DEF Arranged

-----------------------------------------------------------------------------
(* Plans.  r holds the batches of the plan p, numbered from 1, in any      *)
(* order, whatever their tiers and whoever is deferred.                    *)
Size(p) == Len(p.batches)

Same(r, p) ==
  /\ r \in Plans /\ p \in Plans /\ Size(r) = Size(p)
  /\ \A i \in 1..Size(p) : /\ r.batches[i].id \in 1..Size(p)
                           /\ r.batches[i].files = p.batches[r.batches[i].id].files
  /\ \A i, k \in 1..Size(p) : r.batches[i].id = r.batches[k].id => i = k
  /\ \A id \in 1..Size(p) : \E i \in 1..Size(p) : r.batches[i].id = id
  /\ r.filesInScope = p.filesInScope /\ r.batchCount = p.batchCount
  /\ r.large = p.large /\ r.budget = p.budget

FilesIn(p, ids) == UNION {ToSet(p.batches[id].files) : id \in ids}

LEMMA PlanParts ==
  ASSUME NEW r \in Plans
  PROVE  /\ r.batches \in Seq(Batches) /\ Size(r) \in Nat /\ DOMAIN r.batches = 1..Size(r)
         /\ \A i \in 1..Size(r) : /\ r.batches[i] \in Batches /\ r.batches[i].id \in Nat
                                  /\ r.batches[i].tier \in Int /\ r.batches[i].files \in Seq(Int)
                                  /\ r.batches[i].deferred \in BOOLEAN
         /\ r.filesInScope \in Nat /\ r.batchCount \in Nat /\ r.large \in BOOLEAN
         /\ r.budget \in Nat \cup {None} /\ r.covered \in Seq(Nat)
         /\ r.admission \in Admissions \cup {None}
<1>1. r.batches \in Seq(Batches)
  BY DEF Plans
<1>2. Size(r) \in Nat /\ DOMAIN r.batches = 1..Size(r) /\ \A i \in 1..Size(r) : r.batches[i] \in Batches
  BY <1>1 DEF Size
<1>3. \A b \in Batches : b.id \in Nat /\ b.tier \in Int /\ b.files \in Seq(Int) /\ b.deferred \in BOOLEAN
  BY DEF Batches
<1>4. /\ r.filesInScope \in Nat /\ r.batchCount \in Nat /\ r.large \in BOOLEAN
      /\ r.budget \in Nat \cup {None} /\ r.covered \in Seq(Nat)
      /\ r.admission \in Admissions \cup {None}
  BY DEF Plans
<1> QED
  BY <1>1, <1>2, <1>3, <1>4

LEMMA SameBatches ==
  ASSUME NEW r, NEW p, Same(r, p)
  PROVE  /\ Ids(r) = 1..Size(p)
         /\ \A i \in 1..Size(p) : BatchOf(r, r.batches[i].id) = r.batches[i]
         /\ \A id \in 1..Size(p) : /\ \E i \in 1..Size(p) : BatchOf(r, id) = r.batches[i] /\ r.batches[i].id = id
                                   /\ BatchOf(r, id).id = id
                                   /\ BatchOf(r, id).files = p.batches[id].files
                                   /\ BatchOf(r, id).files \in Seq(Int)
                                   /\ BatchOf(r, id).deferred \in BOOLEAN
         /\ \A ids \in SUBSET (1..Size(p)) : FilesOf(r, ids) = FilesIn(p, ids)
<1>1. DOMAIN r.batches = 1..Size(p)
  BY PlanParts DEF Same
<1>2. Ids(r) = 1..Size(p)
  <2>1. \A i \in 1..Size(p) : r.batches[i].id \in 1..Size(p)
    BY DEF Same
  <2>2. \A id \in 1..Size(p) : \E i \in 1..Size(p) : r.batches[i].id = id
    BY DEF Same
  <2> QED
    BY <1>1, <2>1, <2>2 DEF Ids
<1>3. ASSUME NEW id \in 1..Size(p)
      PROVE  \E i \in 1..Size(p) : BatchOf(r, id) = r.batches[i] /\ r.batches[i].id = id
  <2>1. \E i \in 1..Size(p) : r.batches[i].id = id
    BY DEF Same
  <2> QED
    BY <1>1, <2>1 DEF BatchOf
<1>4. ASSUME NEW i \in 1..Size(p) PROVE BatchOf(r, r.batches[i].id) = r.batches[i]
  <2>1. r.batches[i].id \in 1..Size(p)
    BY DEF Same
  <2>2. PICK k \in 1..Size(p) : BatchOf(r, r.batches[i].id) = r.batches[k] /\ r.batches[k].id = r.batches[i].id
    BY <1>3, <2>1
  <2>3. k = i
    BY <2>2 DEF Same
  <2> QED
    BY <2>2, <2>3
<1>5. ASSUME NEW id \in 1..Size(p)
      PROVE  /\ BatchOf(r, id).id = id /\ BatchOf(r, id).files = p.batches[id].files
             /\ BatchOf(r, id).files \in Seq(Int) /\ BatchOf(r, id).deferred \in BOOLEAN
  <2>1. PICK i \in 1..Size(p) : BatchOf(r, id) = r.batches[i] /\ r.batches[i].id = id
    BY <1>3
  <2>2. r.batches[i].files = p.batches[r.batches[i].id].files
    BY DEF Same
  <2>3. r.batches[i].files \in Seq(Int) /\ r.batches[i].deferred \in BOOLEAN
    BY PlanParts DEF Same
  <2> QED
    BY <2>1, <2>2, <2>3
<1>6. ASSUME NEW ids \in SUBSET (1..Size(p)) PROVE FilesOf(r, ids) = FilesIn(p, ids)
  <2>1. \A id \in ids : BatchOf(r, id).files = p.batches[id].files
    BY <1>5
  <2>2. {ToSet(BatchOf(r, id).files) : id \in ids} = {ToSet(p.batches[id].files) : id \in ids}
    BY <2>1
  <2> QED
    BY <2>2 DEF FilesOf, FilesIn
<1> QED
  BY <1>2, <1>3, <1>4, <1>5, <1>6

(* Neither an order nor a mark changes what a plan holds.                  *)
Alike(b, c) == b.id = c.id /\ b.files = c.files

LEMMA SameShuffled ==
  ASSUME NEW r, NEW p, Same(r, p), NEW s \in Plans, NEW place, Shuffles(place, Size(p)),
         Size(s) = Size(p), \A i \in 1..Size(p) : Alike(s.batches[i], r.batches[place[i]]),
         s.filesInScope = r.filesInScope, s.batchCount = r.batchCount, s.large = r.large, s.budget = r.budget
  PROVE  Same(s, p)
<1> DEFINE N == Size(p)
<1>1. \A i \in 1..N : place[i] \in 1..N
  BY DEF Shuffles
<1>2. \A i \in 1..N : s.batches[i].id = r.batches[place[i]].id /\ s.batches[i].files = r.batches[place[i]].files
  BY DEF Alike
<1>3. \A i \in 1..N : s.batches[i].id \in 1..N /\ s.batches[i].files = p.batches[s.batches[i].id].files
  BY <1>1, <1>2 DEF Same
<1>4. ASSUME NEW i \in 1..N, NEW k \in 1..N, s.batches[i].id = s.batches[k].id PROVE i = k
  <2>1. r.batches[place[i]].id = r.batches[place[k]].id
    BY <1>2, <1>4
  <2>2. place[i] = place[k]
    BY <1>1, <2>1 DEF Same
  <2> QED
    BY <2>2 DEF Shuffles
<1>5. ASSUME NEW id \in 1..N PROVE \E i \in 1..N : s.batches[i].id = id
  <2>1. PICK k \in 1..N : r.batches[k].id = id
    BY DEF Same
  <2>2. PICK i \in 1..N : place[i] = k
    BY DEF Shuffles
  <2> QED
    BY <1>2, <2>1, <2>2
<1> QED
  BY <1>3, <1>4, <1>5 DEF Same

LEMMA Standing == \A N \in Nat : Shuffles([i \in 1..N |-> i], N)
BY DEF Shuffles

LEMMA DeferringIs ==
  ASSUME NEW r, NEW p, Same(r, p), NEW A
  PROVE  LET d == Deferring(r, A) IN
         /\ Same(d, p) /\ d.covered = r.covered /\ d.admission = r.admission
         /\ \A i \in 1..Size(p) : d.batches[i].id = r.batches[i].id /\ d.batches[i].deferred = (r.batches[i].id \notin A)
<1> DEFINE d == Deferring(r, A)
           N == Size(p)
<1>1. /\ r \in Plans /\ N \in Nat /\ r.batches \in Seq(Batches) /\ Len(r.batches) = N /\ DOMAIN r.batches = 1..N
      /\ \A i \in 1..N : r.batches[i] \in Batches
  BY PlanParts DEF Same, Size
<1> DEFINE mark(b) == [b EXCEPT !.deferred = b.id \notin A]
<1>2. d.batches = [i \in 1..N |-> mark(r.batches[i])]
  BY <1>1 DEF Deferring, Plans
<1>3. \A b \in Batches : mark(b) \in Batches /\ Alike(mark(b), b) /\ mark(b).deferred = (b.id \notin A)
  BY DEF Batches, Alike
<1>4. \A i \in 1..N : /\ d.batches[i] \in Batches /\ Alike(d.batches[i], r.batches[i])
                      /\ d.batches[i].deferred = (r.batches[i].id \notin A)
  <2> HIDE DEF mark, d
  <2> QED
    BY <1>1, <1>2, <1>3
<1>5. d.batches \in Seq(Batches) /\ Len(d.batches) = N
  <2>1. d.batches \in [1..N -> Batches]
    BY <1>2, <1>4
  <2> HIDE DEF d, N
  <2> QED
    BY <1>1, <2>1
<1>6. /\ d.filesInScope = r.filesInScope /\ d.batchCount = r.batchCount /\ d.large = r.large /\ d.budget = r.budget
      /\ d.covered = r.covered /\ d.admission = r.admission
  BY <1>1 DEF Deferring, Plans
<1>7. d \in Plans
  <2>1. d = [r EXCEPT !.batches = d.batches]
    BY <1>1 DEF Deferring, Plans
  <2> HIDE DEF d
  <2> QED
    BY <1>1, <1>5, <2>1 DEF Plans
<1> HIDE DEF d
<1>8. Same(d, p)
  <2> DEFINE place == [i \in 1..N |-> i]
  <2>1. Shuffles(place, N)
    BY <1>1, Standing
  <2>2. \A i \in 1..N : Alike(d.batches[i], r.batches[place[i]])
    BY <1>4
  <2> HIDE DEF place
  <2> QED
    BY <1>5, <1>6, <1>7, <2>1, <2>2, SameShuffled DEF Size
<1> QED
  BY <1>4, <1>6, <1>8 DEF d, Alike

LEMMA SeqParts == \A X : \A q \in Seq(X) : Len(q) \in Nat /\ DOMAIN q = 1..Len(q) /\ \A n \in 1..Len(q) : q[n] \in X
OBVIOUS

LEMMA SeqWider == \A X, Y : X \subseteq Y => \A q \in Seq(X) : q \in Seq(Y)
<1> TAKE X, Y
<1> HAVE X \subseteq Y
<1> TAKE q \in Seq(X)
<1>1. Len(q) \in Nat /\ q = [n \in 1..Len(q) |-> q[n]] /\ \A n \in 1..Len(q) : q[n] \in Y
  OBVIOUS
<1> QED
  BY <1>1

(* A sequence has as many members as places at most.                       *)
LEMMA ToSetSize ==
  ASSUME NEW X, NEW q \in Seq(X)
  PROVE  /\ IsFiniteSet(ToSet(q)) /\ Cardinality(ToSet(q)) \in Nat /\ Cardinality(ToSet(q)) <= Len(q)
         /\ ToSet(q) \subseteq X /\ ToSet(q) = {q[i] : i \in 1..Len(q)}
         /\ IsInjective(q) => Cardinality(ToSet(q)) = Len(q)
<1> DEFINE N == Len(q)
<1>1. N \in Nat /\ DOMAIN q = 1..N /\ q \in [1..N -> X]
  OBVIOUS
<1>2. IsFiniteSet(1..N) /\ Cardinality(1..N) = N
  <2>1. 1 \in Int /\ N \in Int
    OBVIOUS
  <2>2. IsFiniteSet(1..N) /\ Cardinality(1..N) = IF 1 > N THEN 0 ELSE N - 1 + 1
    BY <2>1, FS_Interval
  <2> HIDE DEF N
  <2> QED
    BY <1>1, <2>2
<1>3. ToSet(q) = {q[i] : i \in 1..N} /\ ToSet(q) \subseteq X
  BY <1>1 DEF ToSet
<1> HIDE DEF N
<1>4. q \in Surjection(1..N, ToSet(q))
  <2>1. q \in [1..N -> ToSet(q)]
    BY <1>1, <1>3
  <2>2. \A t \in ToSet(q) : \E s \in 1..N : q[s] = t
    BY <1>3
  <2> QED
    BY <2>1, <2>2 DEF Surjection
<1>5. /\ IsFiniteSet(ToSet(q)) /\ Cardinality(ToSet(q)) <= Cardinality(1..N)
      /\ Cardinality(ToSet(q)) = Cardinality(1..N) <=> q \in Injection(1..N, ToSet(q))
  BY <1>2, <1>4, FS_Surjection
<1>6. Cardinality(ToSet(q)) \in Nat
  BY <1>5, FS_CardinalityType
<1>7. ASSUME IsInjective(q) PROVE Cardinality(ToSet(q)) = N
  <2>1. q \in [1..N -> ToSet(q)]
    BY <1>4 DEF Surjection
  <2>2. q \in Injection(1..N, ToSet(q))
    BY <1>1, <1>7, <2>1 DEF Injection, IsInjective
  <2> QED
    BY <1>2, <1>5, <2>2
<1> QED
  BY <1>2, <1>3, <1>5, <1>6, <1>7 DEF N

LEMMA ToSetAppend ==
  ASSUME NEW X, NEW q \in Seq(X), NEW x \in X
  PROVE  /\ Append(q, x) \in Seq(X) /\ Len(Append(q, x)) = Len(q) + 1
         /\ ToSet(Append(q, x)) = ToSet(q) \cup {x}
         /\ IsInjective(q) /\ x \notin ToSet(q) => IsInjective(Append(q, x))
<1> DEFINE a == Append(q, x)
           N == Len(q)
<1>1. a \in Seq(X) /\ Len(a) = N + 1 /\ N \in Nat /\ a[N + 1] = x /\ \A i \in 1..N : a[i] = q[i]
  OBVIOUS
<1>2. DOMAIN a = 1..(N + 1) /\ DOMAIN q = 1..N
  OBVIOUS
<1> HIDE DEF a, N
<1>3. 1..(N + 1) = 1..N \cup {N + 1}
  BY <1>1
<1>4. ToSet(a) = ToSet(q) \cup {x}
  BY <1>1, <1>2, <1>3 DEF ToSet
<1>5. ASSUME IsInjective(q), x \notin ToSet(q) PROVE IsInjective(a)
  <2> SUFFICES ASSUME NEW i \in 1..(N + 1), NEW k \in 1..(N + 1), a[i] = a[k] PROVE i = k
    BY <1>2 DEF IsInjective
  <2>1. CASE i \in 1..N /\ k \in 1..N
    BY <1>1, <1>2, <1>5, <2>1 DEF IsInjective
  <2>2. CASE i = N + 1 /\ k \in 1..N
    BY <1>1, <1>2, <1>5, <2>2 DEF ToSet
  <2>3. CASE i \in 1..N /\ k = N + 1
    BY <1>1, <1>2, <1>5, <2>3 DEF ToSet
  <2> QED
    BY <1>3, <2>1, <2>2, <2>3
<1> QED
  BY <1>1, <1>4, <1>5 DEF a, N

(* What the extension takes: within both budgets, nothing twice.           *)
Taken(p, ids, n, acc, maxBatches, maxFiles) ==
  /\ IsInjective(acc.ids) /\ ToSet(acc.ids) \subseteq {ids[k] : k \in 1..n}
  /\ Len(acc.ids) <= maxBatches
  /\ acc.files <= maxFiles
  /\ IsFiniteSet(FilesIn(p, ToSet(acc.ids))) /\ Cardinality(FilesIn(p, ToSet(acc.ids))) <= acc.files

LEMMA ExtensionIs ==
  ASSUME NEW r, NEW p, Same(r, p), NEW ids \in Seq(1..Size(p)), NEW mb \in Nat, NEW mf \in Nat
  PROVE  LET e == Extension(r, ids, mb, mf) IN
         /\ e \in Seq(1..Size(p)) /\ IsInjective(e) /\ ToSet(e) \subseteq ToSet(ids) /\ Len(e) <= mb
         /\ IsFiniteSet(FilesIn(p, ToSet(e))) /\ Cardinality(FilesIn(p, ToSet(e))) <= mf
<1> DEFINE N == Size(p)
           L == Len(ids)
           A == [ids : Seq(1..N), files : Nat]
           b == [ids |-> <<>>, files |-> 0]
           size(id) == Len(BatchOf(r, id).files)
           take(acc, id) ==
             IF \/ id \in ToSet(acc.ids)
                \/ Len(acc.ids) >= mb
                \/ acc.files + size(id) > mf
             THEN acc
             ELSE [ids |-> Append(acc.ids, id), files |-> acc.files + size(id)]
           fold == CHOOSE f : f = [n \in 0..L |-> IF n = 0 THEN b ELSE take(f[n - 1], ids[n])]
           g == [x \in Nat \X A |-> IF x[1] \in 1..L THEN take(x[2], ids[x[1]]) ELSE x[2]]
<1>1. L \in Nat /\ \A n \in 1..L : ids[n] \in 1..N
  BY SeqParts
<1>2. \A id \in 1..N : size(id) \in Nat
  BY SameBatches
<1>3. ASSUME NEW acc \in A, NEW id \in 1..N PROVE take(acc, id) \in A
  <2>1. size(id) \in Nat /\ acc.files \in Nat /\ acc.ids \in Seq(1..N)
    BY <1>2
  <2>2. acc.files + size(id) \in Nat /\ Append(acc.ids, id) \in Seq(1..N)
    BY <2>1
  <2> HIDE DEF size, N
  <2> QED
    BY <2>2
<1> HIDE DEF take, A, size
<1>4. \A n \in Nat : \A a \in A : g[<<n, a>>] \in A
  BY <1>1, <1>3
<1>5. b \in A
  BY DEF A
<1>6. PICK f \in [0..L -> A] : f[0] = b /\ \A n \in 1..L : f[n] = g[<<n, f[n - 1]>>]
  <2> HIDE DEF g, b, L
  <2>1. \E f \in [0..L -> A] : Steps(f, L, b, g)
    BY <1>1, <1>4, <1>5, Recursion
  <2> QED
    BY <2>1 DEF Steps
<1>7. ASSUME NEW n \in 1..L PROVE f[n] = take(f[n - 1], ids[n])
  <2>1. n - 1 \in 0..L
    OBVIOUS
  <2>2. f[n - 1] \in A /\ n \in Nat
    BY <2>1
  <2>3. g[<<n, f[n - 1]>>] = take(f[n - 1], ids[n])
    BY <2>2
  <2> HIDE DEF g, b, L
  <2> QED
    BY <1>6, <2>3
<1> HIDE DEF g
<1>8. f = [n \in 0..L |-> IF n = 0 THEN b ELSE take(f[n - 1], ids[n])]
  <2>1. \A n \in 0..L : f[n] = IF n = 0 THEN b ELSE take(f[n - 1], ids[n])
    BY <1>6, <1>7
  <2> HIDE DEF b, L
  <2> QED
    BY <1>6, <2>1
<1>9. fold = [n \in 0..L |-> IF n = 0 THEN b ELSE take(fold[n - 1], ids[n])]
  BY <1>8
<1>10. Extension(r, ids, mb, mf) = fold[L].ids
  BY DEF Extension, Folded, take, size
<1> HIDE DEF fold
<1>11. fold[0] = b /\ \A n \in 0..L : n < L => fold[n + 1] = take(fold[n], ids[n + 1])
  <2>1. fold[0] = b
    BY <1>1, <1>9
  <2>2. ASSUME NEW n \in 0..L, n < L PROVE fold[n + 1] = take(fold[n], ids[n + 1])
    <3>1. n + 1 \in 0..L /\ n + 1 # 0 /\ (n + 1) - 1 = n
      BY <1>1, <2>2
    <3>2. \A k \in 0..L : k # 0 => fold[k] = take(fold[k - 1], ids[k])
      BY <1>9
    <3> QED
      BY <3>1, <3>2
  <2> QED
    BY <2>1, <2>2
<1> DEFINE T == {n \in Nat : fold[n] \in A /\ Taken(p, ids, n, fold[n], mb, mf)}
<1>12. 0 \in T
  <2>1. b.ids = <<>> /\ b.files = 0 /\ ToSet(<<>>) = {} /\ IsInjective(<<>>) /\ Len(<<>>) = 0
    BY DEF ToSet, IsInjective
  <2>2. FilesIn(p, {}) = {}
    BY DEF FilesIn
  <2>3. Taken(p, ids, 0, b, mb, mf)
    BY <2>1, <2>2, FS_EmptySet DEF Taken
  <2> QED
    BY <1>5, <1>11, <2>3
<1>13. ASSUME NEW n \in Nat, n < L, n \in T PROVE n + 1 \in T
  <2> DEFINE acc == fold[n]
             id == ids[n + 1]
  <2>1. n \in 0..L /\ n + 1 \in 1..L /\ id \in 1..N
    BY <1>1, <1>13
  <2>2. acc \in A /\ Taken(p, ids, n, acc, mb, mf) /\ fold[n + 1] = take(acc, id)
    BY <1>11, <1>13, <2>1
  <2>3. take(acc, id) \in A
    BY <1>3, <2>1, <2>2
  <2>4. {ids[k] : k \in 1..(n + 1)} = {ids[k] : k \in 1..n} \cup {id}
    <3>1. 1..(n + 1) = 1..n \cup {n + 1}
      OBVIOUS
    <3> QED
      BY <3>1
  <2> HIDE DEF acc, id, T
  <2>5. CASE take(acc, id) = acc
    <3>1. Taken(p, ids, n + 1, acc, mb, mf)
      BY <2>2, <2>4 DEF Taken
    <3> QED
      BY <2>2, <2>3, <2>5, <3>1 DEF T
  <2>6. CASE take(acc, id) # acc
    <3> DEFINE more == Append(acc.ids, id)
    <3>1. /\ id \notin ToSet(acc.ids) /\ ~(Len(acc.ids) >= mb) /\ ~(acc.files + size(id) > mf)
          /\ take(acc, id).ids = more /\ take(acc, id).files = acc.files + size(id)
      BY <2>6 DEF take
    <3>2. acc.ids \in Seq(1..N) /\ acc.files \in Nat /\ size(id) \in Nat
      BY <1>2, <2>1, <2>2 DEF A
    <3>3. Len(more) = Len(acc.ids) + 1 /\ ToSet(more) = ToSet(acc.ids) \cup {id} /\ IsInjective(more)
      <4>1. IsInjective(acc.ids)
        BY <2>2 DEF Taken
      <4> HIDE DEF N
      <4> QED
        BY <2>1, <3>1, <3>2, <4>1, ToSetAppend
    <3>4. Len(more) <= mb
      BY <3>1, <3>2, <3>3
    <3>5. FilesIn(p, ToSet(more)) = FilesIn(p, ToSet(acc.ids)) \cup ToSet(p.batches[id].files)
      BY <3>3 DEF FilesIn
    <3>6. /\ IsFiniteSet(ToSet(p.batches[id].files))
          /\ Cardinality(ToSet(p.batches[id].files)) \in Nat
          /\ Cardinality(ToSet(p.batches[id].files)) <= size(id)
      <4>1. size(id) = Len(p.batches[id].files) /\ p.batches[id].files \in Seq(Int)
        BY <2>1, SameBatches DEF size
      <4> QED
        BY <4>1, ToSetSize
    <3>7. /\ IsFiniteSet(FilesIn(p, ToSet(more)))
          /\ Cardinality(FilesIn(p, ToSet(more))) <= acc.files + size(id)
      <4> DEFINE S == FilesIn(p, ToSet(acc.ids))
                 U == ToSet(p.batches[id].files)
      <4>1. IsFiniteSet(S) /\ Cardinality(S) <= acc.files
        BY <2>2 DEF Taken
      <4>2. IsFiniteSet(U) /\ Cardinality(U) \in Nat /\ Cardinality(U) <= size(id)
        BY <3>6
      <4>3. IsFiniteSet(S \cup U) /\ IsFiniteSet(S \cap U)
            /\ Cardinality(S \cup U) = Cardinality(S) + Cardinality(U) - Cardinality(S \cap U)
        BY <4>1, <4>2, FS_Union, FS_Intersection
      <4>4. Cardinality(S) \in Nat /\ Cardinality(S \cap U) \in Nat
        BY <4>1, <4>3, FS_CardinalityType
      <4>5. FilesIn(p, ToSet(more)) = S \cup U
        BY <3>5
      <4> HIDE DEF S, U
      <4>6. Cardinality(S \cup U) <= acc.files + size(id)
        BY <3>2, <4>1, <4>2, <4>3, <4>4
      <4> QED
        BY <4>3, <4>5, <4>6
    <3>8. acc.files + size(id) <= mf
      BY <3>1, <3>2
    <3>9. ToSet(more) \subseteq {ids[k] : k \in 1..(n + 1)}
      BY <2>2, <2>4, <3>3 DEF Taken
    <3> HIDE DEF more
    <3>10. Taken(p, ids, n + 1, take(acc, id), mb, mf)
      BY <3>1, <3>3, <3>4, <3>7, <3>8, <3>9 DEF Taken
    <3> QED
      BY <2>2, <2>3, <3>10 DEF T
  <2> QED
    BY <2>5, <2>6
<1>14. L \in T
  <2> HIDE DEF T, L
  <2>1. 0..L \subseteq T
    BY <1>1, <1>12, <1>13, BoundedSuccession
  <2> QED
    BY <1>1, <2>1
<1>15. fold[L].ids \in Seq(1..N)
  BY <1>14 DEF A
<1>16. {ids[k] : k \in 1..L} = ToSet(ids)
  BY DEF ToSet
<1>17. Taken(p, ids, L, fold[L], mb, mf) /\ fold[L].files \in Nat
  BY <1>14 DEF A
<1>18. Cardinality(FilesIn(p, ToSet(fold[L].ids))) \in Nat
  BY <1>17, FS_CardinalityType DEF Taken
<1>19. Cardinality(FilesIn(p, ToSet(fold[L].ids))) <= mf
  BY <1>17, <1>18 DEF Taken
<1> QED
  BY <1>10, <1>15, <1>16, <1>17, <1>19 DEF Taken

LEMMA PrefixIs ==
  ASSUME NEW X, NEW s \in Seq(X), NEW k \in 0..Len(s)
  PROVE  /\ SubSeq(s, 1, k) \in Seq(X) /\ Len(SubSeq(s, 1, k)) = k
         /\ \A i \in 1..k : SubSeq(s, 1, k)[i] = s[i]
         /\ ToSet(SubSeq(s, 1, k)) \subseteq ToSet(s)
         /\ IsInjective(s) => IsInjective(SubSeq(s, 1, k))
<1> DEFINE q == SubSeq(s, 1, k)
<1>1. q \in Seq(X) /\ Len(q) = k /\ \A i \in 1..k : q[i] = s[i]
  OBVIOUS
<1>2. DOMAIN q = 1..k /\ DOMAIN s = 1..Len(s) /\ 1..k \subseteq 1..Len(s)
  OBVIOUS
<1> HIDE DEF q
<1>3. ToSet(q) \subseteq ToSet(s)
  BY <1>1, <1>2 DEF ToSet
<1>4. IsInjective(s) => IsInjective(q)
  BY <1>1, <1>2 DEF IsInjective
<1> QED
  BY <1>1, <1>3, <1>4 DEF q

LEMMA JoinIs ==
  ASSUME NEW X, NEW a \in Seq(X), NEW b \in Seq(X)
  PROVE  /\ a \o b \in Seq(X) /\ Len(a \o b) = Len(a) + Len(b)
         /\ ToSet(a \o b) = ToSet(a) \cup ToSet(b)
         /\ IsInjective(a) /\ IsInjective(b) /\ ToSet(a) \cap ToSet(b) = {} => IsInjective(a \o b)
<1> DEFINE q == a \o b
           M == Len(a)
           N == Len(b)
<1>1. /\ M \in Nat /\ N \in Nat /\ q \in Seq(X) /\ Len(q) = M + N
      /\ \A i \in 1..M : q[i] = a[i]
      /\ \A i \in 1..N : q[M + i] = b[i]
  OBVIOUS
<1>2. DOMAIN q = 1..(M + N) /\ DOMAIN a = 1..M /\ DOMAIN b = 1..N
  OBVIOUS
<1> HIDE DEF q, M, N
<1>3. \A i \in 1..(M + N) : i \in 1..M \/ (i - M \in 1..N /\ i = M + (i - M))
  BY <1>1
<1>4. (\A i \in 1..M : i \in 1..(M + N)) /\ \A i \in 1..N : M + i \in 1..(M + N)
  BY <1>1
<1>5. ASSUME NEW x \in ToSet(q) PROVE x \in ToSet(a) \cup ToSet(b)
  <2>1. PICK i \in 1..(M + N) : x = q[i]
    BY <1>2, <1>5 DEF ToSet
  <2>2. CASE i \in 1..M
    BY <1>1, <1>2, <2>1, <2>2 DEF ToSet
  <2>3. CASE i - M \in 1..N /\ i = M + (i - M)
    <3>1. x = b[i - M]
      BY <1>1, <2>1, <2>3
    <3> QED
      BY <1>2, <2>3, <3>1 DEF ToSet
  <2> QED
    BY <1>3, <2>2, <2>3
<1>6. ToSet(a) \cup ToSet(b) \subseteq ToSet(q)
  BY <1>1, <1>2, <1>4 DEF ToSet
<1>7. ASSUME IsInjective(a), IsInjective(b), ToSet(a) \cap ToSet(b) = {} PROVE IsInjective(q)
  <2> SUFFICES ASSUME NEW i \in 1..(M + N), NEW k \in 1..(M + N), q[i] = q[k] PROVE i = k
    BY <1>2 DEF IsInjective
  <2>1. CASE i \in 1..M /\ k \in 1..M
    BY <1>1, <1>2, <1>7, <2>1 DEF IsInjective
  <2>2. CASE i - M \in 1..N /\ k - M \in 1..N
    <3>1. q[i] = b[i - M] /\ q[k] = b[k - M]
      BY <1>1, <1>3, <2>2
    <3>2. i - M = k - M
      BY <1>2, <1>7, <2>2, <3>1 DEF IsInjective
    <3> QED
      BY <1>1, <3>2
  <2>3. ASSUME NEW m \in 1..M, NEW n \in 1..(M + N), n - M \in 1..N, q[m] = q[n] PROVE FALSE
    <3>1. q[m] \in ToSet(a)
      BY <1>1, <1>2 DEF ToSet
    <3>2. q[n] \in ToSet(b)
      <4>1. n = M + (n - M)
        BY <1>1
      <4>2. q[n] = b[n - M]
        BY <1>1, <2>3, <4>1
      <4> QED
        BY <1>2, <2>3, <4>2 DEF ToSet
    <3> QED
      BY <1>7, <2>3, <3>1, <3>2
  <2> QED
    BY <1>3, <2>1, <2>2, <2>3
<1> QED
  BY <1>1, <1>5, <1>6, <1>7 DEF q, M, N

LEMMA PickedInjective ==
  ASSUME NEW X, NEW s \in Seq(X), IsInjective(s), NEW I \in SUBSET (1..Len(s))
  PROVE  IsInjective(Picked(s, I))
<1>1. DOMAIN s = 1..Len(s) /\ DOMAIN Picked(s, I) = 1..Cardinality(I)
  BY PickedIs
<1>2. \A i, k \in I : s[i] = s[k] => i = k
  BY <1>1 DEF IsInjective
<1>3. \A m, n \in 1..Cardinality(I) : Picked(s, I)[m] = Picked(s, I)[n] => m = n
  BY <1>2, PickedIs
<1> QED
  BY <1>1, <1>3 DEF IsInjective

LEMMA PickedSet ==
  ASSUME NEW X, NEW s \in Seq(X), NEW I \in SUBSET (1..Len(s))
  PROVE  Picked(s, I) \in Seq(X) /\ ToSet(Picked(s, I)) = {s[i] : i \in I}
<1>1. DOMAIN Picked(s, I) = 1..Cardinality(I)
  BY PickedIs
<1>2. \A n \in 1..Cardinality(I) : \E i \in I : Picked(s, I)[n] = s[i]
  BY PickedIs
<1>3. \A i \in I : \E n \in 1..Cardinality(I) : Picked(s, I)[n] = s[i]
  BY PickedIs
<1>4. Picked(s, I) \in Seq(X)
  BY PickedIs
<1>5. ToSet(Picked(s, I)) = {Picked(s, I)[n] : n \in 1..Cardinality(I)}
  BY <1>1 DEF ToSet
<1> DEFINE q == Picked(s, I)
<1> HIDE DEF q
<1>6. ToSet(q) = {s[i] : i \in I}
  <2>1. \A x \in ToSet(q) : x \in {s[i] : i \in I}
    BY <1>2, <1>5 DEF q
  <2>2. \A i \in I : s[i] \in ToSet(q)
    BY <1>3, <1>5 DEF q
  <2> QED
    BY <2>1, <2>2
<1> QED
  BY <1>4, <1>6 DEF q

(* The ids of a plan in its order.                                         *)
LEMMA OrderIs ==
  ASSUME NEW r, NEW p, Same(r, p)
  PROVE  LET order == [i \in DOMAIN r.batches |-> r.batches[i].id] IN
         order \in Seq(1..Size(p)) /\ IsInjective(order) /\ Len(order) = Size(p) /\ DOMAIN order = 1..Size(p)
<1> DEFINE order == [i \in DOMAIN r.batches |-> r.batches[i].id]
           N == Size(p)
<1>1. DOMAIN r.batches = 1..N /\ N \in Nat
  BY PlanParts DEF Same
<1>2. \A i \in 1..N : order[i] = r.batches[i].id /\ order[i] \in 1..N
  BY <1>1 DEF Same
<1>3. order = [i \in 1..N |-> r.batches[i].id]
  BY <1>1
<1>4. order \in [1..N -> 1..N] /\ DOMAIN order = 1..N
  BY <1>2, <1>3
<1>5. order \in Seq(1..N) /\ Len(order) = N
  <2> HIDE DEF order, N
  <2> QED
    BY <1>1, <1>4
<1>6. IsInjective(order)
  <2>1. \A i, k \in 1..N : order[i] = order[k] => i = k
    BY <1>2 DEF Same
  <2> HIDE DEF order, N
  <2> QED
    BY <1>4, <2>1 DEF IsInjective
<1> QED
  BY <1>4, <1>5, <1>6

LEMMA BaseFrontierIs ==
  ASSUME NEW r, NEW N \in Nat, r.covered \in Seq(1..N), IsInjective(r.covered),
         r.budget \in Nat, Len(r.covered) <= r.budget, NEW order \in Seq(1..N), IsInjective(order)
  PROVE  LET base == BaseFrontier(r, order) IN
         /\ base \in Seq(1..N) /\ IsInjective(base) /\ Len(base) <= r.budget
         /\ ToSet(r.covered) \subseteq ToSet(base)
<1> DEFINE I == {i \in DOMAIN order : order[i] \notin ToSet(r.covered)}
           more == Picked(order, I)
           k == AtMost(r.budget - Len(r.covered), Len(more))
           tail == SubSeq(more, 1, k)
<1>1. BaseFrontier(r, order) = r.covered \o tail
  BY DEF BaseFrontier, Select
<1>2. DOMAIN order = 1..Len(order)
  BY SeqParts
<1>3. I \in SUBSET (1..Len(order)) /\ \A i \in I : order[i] \notin ToSet(r.covered)
  BY <1>2
<1> HIDE DEF I
<1>4. more \in Seq(1..N) /\ ToSet(more) = {order[i] : i \in I}
  BY <1>3, PickedSet
<1>5. IsInjective(more)
  BY <1>3, PickedInjective
<1> HIDE DEF more
<1>6. Len(r.covered) \in Nat /\ Len(more) \in Nat
  BY <1>4, SeqParts
<1>7. k \in 0..Len(more) /\ k <= r.budget - Len(r.covered)
  BY <1>6 DEF AtMost
<1> HIDE DEF k
<1>8. tail \in Seq(1..N) /\ Len(tail) = k /\ ToSet(tail) \subseteq ToSet(more) /\ IsInjective(tail)
  BY <1>4, <1>5, <1>7, PrefixIs
<1> HIDE DEF tail
<1>9. ToSet(r.covered) \cap ToSet(tail) = {}
  BY <1>3, <1>4, <1>8
<1>10. /\ r.covered \o tail \in Seq(1..N) /\ Len(r.covered \o tail) = Len(r.covered) + k
       /\ ToSet(r.covered \o tail) = ToSet(r.covered) \cup ToSet(tail) /\ IsInjective(r.covered \o tail)
  <2>1. /\ r.covered \o tail \in Seq(1..N) /\ Len(r.covered \o tail) = Len(r.covered) + Len(tail)
        /\ ToSet(r.covered \o tail) = ToSet(r.covered) \cup ToSet(tail)
    BY <1>8, JoinIs
  <2>2. IsInjective(r.covered \o tail)
    BY <1>8, <1>9, JoinIs
  <2> QED
    BY <1>8, <2>1, <2>2
<1>11. Len(r.covered \o tail) <= r.budget
  BY <1>6, <1>7, <1>10
<1> QED
  BY <1>1, <1>10, <1>11

(* An admission that fits, and a plan that defers all the rest.            *)
Fits(r, p) ==
  LET base == r.admission.base   extra == r.admission.promoted IN
  /\ r.admission \in Admissions
  /\ base \in Seq(1..Size(p)) /\ extra \in Seq(1..Size(p)) /\ IsInjective(base \o extra)
  /\ Len(base) <= p.budget /\ Len(extra) <= MaxPromotionBatches
  /\ Cardinality(FilesIn(p, ToSet(extra))) <= MaxPromotionFiles
  /\ ToSet(r.covered) \subseteq ToSet(base \o extra)
  /\ \A i \in 1..Size(p) : r.batches[i].deferred = (r.batches[i].id \notin ToSet(base \o extra))

LEMMA SameAdmitted ==
  ASSUME NEW r, NEW p, Same(r, p), NEW admission \in Admissions
  PROVE  LET a == [r EXCEPT !.admission = admission] IN
         Same(a, p) /\ a.covered = r.covered /\ a.admission = admission /\ a.batches = r.batches
<1> DEFINE a == [r EXCEPT !.admission = admission]
<1>1. r \in Plans
  BY DEF Same
<1>2. a \in Plans
  BY <1>1 DEF Plans
<1>3. /\ a.batches = r.batches /\ a.filesInScope = r.filesInScope /\ a.batchCount = r.batchCount
      /\ a.large = r.large /\ a.budget = r.budget /\ a.covered = r.covered /\ a.admission = admission
  BY <1>1 DEF Plans
<1> HIDE DEF a
<1>4. Same(a, p)
  BY <1>2, <1>3 DEF Same, Size
<1> QED
  BY <1>3, <1>4 DEF a

LEMMA AdmitIs ==
  ASSUME NEW r, NEW p, Same(r, p), p.large, p.budget \in Nat,
         r.covered \in Seq(1..Size(p)), IsInjective(r.covered), Len(r.covered) <= p.budget,
         NEW eligible, NEW mb \in Nat, mb <= MaxPromotionBatches, NEW mf \in Nat, mf <= MaxPromotionFiles
  PROVE  LET a == Admit(r, eligible, mb, mf) IN
         /\ Same(a, p) /\ a.covered = r.covered /\ Fits(a, p)
         /\ ToSet(a.admission.promoted) \subseteq eligible
         /\ Cardinality(FilesIn(p, ToSet(a.admission.promoted))) <= mf
<1> DEFINE N == Size(p)
           order == [i \in DOMAIN r.batches |-> r.batches[i].id]
           base == BaseFrontier(r, order)
           I == {i \in DOMAIN order : order[i] \in eligible \ ToSet(base)}
           others == Picked(order, I)
           extra == Extension(r, others, mb, mf)
           d == Deferring(r, ToSet(base \o extra))
           admission == [base |-> base, promoted |-> extra]
           a == [d EXCEPT !.admission = admission]
<1>1. r.large = p.large /\ r.budget = p.budget /\ N \in Nat
  BY PlanParts DEF Same
<1>2. Len(r.covered) \in Nat
  BY SeqParts
<1>3. ~(Len(r.covered) > r.budget)
  BY <1>1, <1>2
<1>4. Admit(r, eligible, mb, mf) = a
  BY <1>1, <1>3 DEF Admit, Select
<1>5. order \in Seq(1..N) /\ IsInjective(order) /\ DOMAIN order = 1..Len(order)
  BY OrderIs
<1> HIDE DEF order
<1>6. base \in Seq(1..N) /\ IsInjective(base) /\ Len(base) <= p.budget /\ ToSet(r.covered) \subseteq ToSet(base)
  BY <1>1, <1>5, BaseFrontierIs
<1> HIDE DEF base
<1>7. I \in SUBSET (1..Len(order)) /\ \A i \in I : order[i] \in eligible /\ order[i] \notin ToSet(base)
  BY <1>5
<1> HIDE DEF I
<1>8. others \in Seq(1..N) /\ ToSet(others) = {order[i] : i \in I}
  BY <1>5, <1>7, PickedSet
<1> HIDE DEF others
<1>9. /\ extra \in Seq(1..N) /\ IsInjective(extra) /\ ToSet(extra) \subseteq ToSet(others) /\ Len(extra) <= mb
      /\ IsFiniteSet(FilesIn(p, ToSet(extra))) /\ Cardinality(FilesIn(p, ToSet(extra))) <= mf
  BY <1>8, ExtensionIs
<1> HIDE DEF extra
<1>10. ToSet(extra) \subseteq eligible /\ ToSet(base) \cap ToSet(extra) = {}
  BY <1>7, <1>8, <1>9
<1>11. /\ IsInjective(base \o extra) /\ base \o extra \in Seq(1..N)
       /\ ToSet(base \o extra) = ToSet(base) \cup ToSet(extra)
  BY <1>6, <1>9, <1>10, JoinIs
<1>12. /\ Same(d, p) /\ d.covered = r.covered
       /\ \A i \in 1..N : d.batches[i].id = r.batches[i].id /\ d.batches[i].deferred = (r.batches[i].id \notin ToSet(base \o extra))
  BY DeferringIs
<1> HIDE DEF d
<1>13. base \in Seq(Nat) /\ extra \in Seq(Nat)
  <2>1. 1..N \subseteq Nat
    OBVIOUS
  <2> HIDE DEF N
  <2> QED
    BY <1>6, <1>9, <2>1, SeqWider
<1>14. admission \in Admissions /\ admission.base = base /\ admission.promoted = extra
  BY <1>13 DEF Admissions
<1> HIDE DEF admission
<1>15. Same(a, p) /\ a.covered = d.covered /\ a.admission = admission /\ a.batches = d.batches
  BY <1>12, <1>14, SameAdmitted
<1> HIDE DEF a
<1>16. /\ Len(extra) \in Nat /\ Cardinality(FilesIn(p, ToSet(extra))) \in Nat
       /\ MaxPromotionBatches \in Nat /\ MaxPromotionFiles \in Nat
  BY <1>9, SeqParts, FS_CardinalityType, AuditAssumption
<1>17. Len(extra) <= MaxPromotionBatches /\ Cardinality(FilesIn(p, ToSet(extra))) <= MaxPromotionFiles
  BY <1>9, <1>16
<1>18. Fits(a, p)
  BY <1>6, <1>9, <1>11, <1>12, <1>14, <1>15, <1>17 DEF Fits
<1> QED
  BY <1>4, <1>9, <1>10, <1>12, <1>14, <1>15, <1>18

-----------------------------------------------------------------------------
(* Finite sets of numbers, and images.                                     *)
Descending == {p \in Int \X Int : p[1] > p[2]}

LEMMA DescendingStrict == \A S : S \subseteq Int => StrictOrder(S, Descending)
<1> TAKE S
<1> HAVE S \subseteq Int
<1>1. \A x, y \in S : <<x, y>> \in Descending <=> x > y
  BY DEF Descending
<1>2. \A x, y, z \in S : ~(x > x) /\ (x > y /\ y > z => x > z) /\ (x # y => x > y \/ y > x)
  OBVIOUS
<1> QED
  BY <1>1, <1>2 DEF StrictOrder

LEMMA FirstOf ==
  ASSUME NEW S, IsFiniteSet(S), S # {}, NEW R, StrictOrder(S, R)
  PROVE  \E x \in S : \A y \in S : <<y, x>> \notin R
<1>1. Cardinality(S) \in Nat /\ Cardinality(S) # 0
  BY FS_CardinalityType, FS_EmptySet
<1>2. 1 \in 1..Cardinality(S)
  BY <1>1
<1>3. PICK x \in S : Cardinality(Below(S, R, x)) = 1 - 1
  BY <1>2, Positions
<1>4. IsFiniteSet(Below(S, R, x))
  BY BelowGrows
<1>5. Below(S, R, x) = {}
  BY <1>3, <1>4, FS_EmptySet
<1> QED
  BY <1>5 DEF Below

LEMMA ExtremesAre ==
  ASSUME NEW S, IsFiniteSet(S), S # {}, S \subseteq Int
  PROVE  /\ Min(S) \in S /\ \A y \in S : Min(S) <= y
         /\ Max(S) \in S /\ \A y \in S : Max(S) >= y
<1>1. \E x \in S : \A y \in S : x <= y
  <2>1. PICK x \in S : \A y \in S : <<y, x>> \notin Ascending
    BY AscendingStrict, FirstOf
  <2>2. \A y \in S : ~(y < x)
    BY <2>1 DEF Ascending
  <2>3. \A y \in S : x <= y
    BY <2>2
  <2> QED
    BY <2>3
<1>2. \E x \in S : \A y \in S : x >= y
  <2>1. PICK x \in S : \A y \in S : <<y, x>> \notin Descending
    BY DescendingStrict, FirstOf
  <2>2. \A y \in S : ~(y > x)
    BY <2>1 DEF Descending
  <2>3. \A y \in S : x >= y
    BY <2>2
  <2> QED
    BY <2>3
<1>3. Min(S) \in S /\ \A y \in S : Min(S) <= y
  BY <1>1 DEF Min
<1>4. Max(S) \in S /\ \A y \in S : Max(S) >= y
  BY <1>2 DEF Max
<1> QED
  BY <1>3, <1>4

LEMMA ImageFinite ==
  ASSUME NEW S, IsFiniteSet(S), NEW f
  PROVE  IsFiniteSet({f[x] : x \in S}) /\ Cardinality({f[x] : x \in S}) <= Cardinality(S)
<1> DEFINE T == {f[x] : x \in S}
           g == [x \in S |-> f[x]]
<1>1. g \in Surjection(S, T)
  BY DEF Surjection
<1> HIDE DEF g, T
<1>2. IsFiniteSet(T) /\ Cardinality(T) <= Cardinality(S)
  BY <1>1, FS_Surjection
<1> QED
  BY <1>2 DEF T

LEMMA RanksTyped ==
  ASSUME NEW c \in Contexts, NEW batch
  PROVE  Ranks(c, batch).lane \in Int /\ Ranks(c, batch).score \in Int
<1> DEFINE Target == [file : Int, lane : Int, score : Int]
           found == {t \in ToSet(c.targets) : t.file \in ToSet(batch.files)}
           f == [t \in found |-> t.lane]
           g == [t \in found |-> t.score]
           lanes == {t.lane : t \in found}
           scores == {t.score : t \in found}
<1>1. c.targets \in Seq(Target)
  BY DEF Contexts
<1>2. IsFiniteSet(ToSet(c.targets)) /\ ToSet(c.targets) \subseteq Target
  <2> HIDE DEF Target
  <2> QED
    BY <1>1, ToSetSize
<1>3. found \in SUBSET ToSet(c.targets) /\ \A t \in found : t.lane \in Int /\ t.score \in Int
  BY <1>2
<1>4. IsFiniteSet(found)
  <2> HIDE DEF found
  <2> QED
    BY <1>2, <1>3, FS_Subset
<1> HIDE DEF found
<1>5. lanes = {f[t] : t \in found} /\ scores = {g[t] : t \in found}
  OBVIOUS
<1>6. IsFiniteSet(lanes) /\ IsFiniteSet(scores)
  <2> HIDE DEF f, g, lanes, scores
  <2> QED
    BY <1>4, <1>5, ImageFinite
<1>7. lanes \subseteq Int /\ scores \subseteq Int
  BY <1>3
<1> HIDE DEF lanes, scores
<1>8. IsFiniteSet({99} \cup lanes) /\ IsFiniteSet({0} \cup scores)
  BY <1>6, FS_Singleton, FS_Union
<1>9. Min({99} \cup lanes) \in {99} \cup lanes
  <2>1. {99} \cup lanes # {} /\ {99} \cup lanes \subseteq Int
    BY <1>7
  <2> QED
    BY <1>8, <2>1, ExtremesAre
<1>10. Max({0} \cup scores) \in {0} \cup scores
  <2>1. {0} \cup scores # {} /\ {0} \cup scores \subseteq Int
    BY <1>7
  <2> QED
    BY <1>8, <2>1, ExtremesAre
<1>11. Min({99} \cup lanes) \in Int /\ Max({0} \cup scores) \in Int
  <2>1. {99} \cup lanes \subseteq Int /\ {0} \cup scores \subseteq Int
    BY <1>7
  <2> QED
    BY <1>9, <1>10, <2>1
<1> QED
  BY <1>11 DEF Ranks, found, lanes, scores

-----------------------------------------------------------------------------
(* Orders of a plan: keys are tuples of m numbers.                         *)
Keyed(key, n, m) == \A i \in 1..n : key[i] \in [1..m -> Int]
Matched(bs, ordered, n) == \A i \in 1..n : Alike(bs[i], ordered[i])
With(r, bs) == [r EXCEPT !.batches = bs]

LEMMA SameReordered ==
  ASSUME NEW r, NEW p, Same(r, p), NEW m \in Nat, NEW key, Keyed(key, Size(p), m),
         NEW bs \in Seq(Batches), Len(bs) = Size(p), NEW ordered, ordered = Sorted(r.batches, key),
         Matched(bs, ordered, Size(p))
  PROVE  LET s == With(r, bs) IN
         Same(s, p) /\ s.covered = r.covered /\ s.admission = r.admission /\ s.batches = bs
<1> DEFINE s == With(r, bs)
           N == Size(p)
<1>1. r \in Plans /\ r.batches \in Seq(Batches) /\ Len(r.batches) = N
  BY PlanParts DEF Same, Size
<1>2. s \in Plans
  BY <1>1 DEF Plans, With
<1>3. /\ s.batches = bs /\ s.filesInScope = r.filesInScope /\ s.batchCount = r.batchCount
      /\ s.large = r.large /\ s.budget = r.budget /\ s.covered = r.covered /\ s.admission = r.admission
  BY <1>1 DEF Plans, With
<1> HIDE DEF s
<1>4. PICK place : Shuffles(place, N) /\ ordered = [n \in 1..N |-> r.batches[place[n]]]
  <2> HIDE DEF N
  <2>1. \E place : Shuffles(place, Len(r.batches)) /\ Arranged(Sorted(r.batches, key), r.batches, place)
    BY <1>1, SortedShuffles DEF N, Keyed
  <2> QED
    BY <1>1, <2>1 DEF Arranged
<1>5. \A i \in 1..N : Alike(s.batches[i], r.batches[place[i]])
  BY <1>3, <1>4 DEF Matched
<1>6. Size(s) = N
  BY <1>3 DEF Size
<1>7. Same(s, p)
  BY <1>2, <1>3, <1>4, <1>5, <1>6, SameShuffled
<1> QED
  BY <1>3, <1>7 DEF s

LEMMA SortedBatches ==
  ASSUME NEW r, NEW p, Same(r, p), NEW m \in Nat, NEW key, Keyed(key, Size(p), m)
  PROVE  /\ Sorted(r.batches, key) \in Seq(Batches) /\ Len(Sorted(r.batches, key)) = Size(p)
         /\ DOMAIN Sorted(r.batches, key) = 1..Size(p)
         /\ \A n \in 1..Size(p) : /\ Sorted(r.batches, key)[n] \in Batches
                                  /\ \E i \in 1..Size(p) : Sorted(r.batches, key)[n] = r.batches[i]
<1> DEFINE N == Size(p)
           q == Sorted(r.batches, key)
<1>1. N \in Nat /\ r.batches \in Seq(Batches) /\ Len(r.batches) = N /\ \A i \in 1..N : r.batches[i] \in Batches
  BY PlanParts DEF Same, Size
<1>2. PICK place : Shuffles(place, N) /\ q = [n \in 1..N |-> r.batches[place[n]]]
  <2> HIDE DEF N
  <2>1. \E place : Shuffles(place, Len(r.batches)) /\ Arranged(q, r.batches, place)
    BY <1>1, SortedShuffles DEF N, Keyed
  <2> QED
    BY <1>1, <2>1 DEF Arranged
<1>3. \A n \in 1..N : place[n] \in 1..N
  BY <1>2 DEF Shuffles
<1> HIDE DEF q, N
<1>4. q \in [1..N -> Batches]
  BY <1>1, <1>2, <1>3
<1>5. q \in Seq(Batches) /\ Len(q) = N /\ DOMAIN q = 1..N
  BY <1>1, <1>4
<1>6. \A n \in 1..N : q[n] \in Batches /\ \E i \in 1..N : q[n] = r.batches[i]
  BY <1>1, <1>2, <1>3
<1> QED
  BY <1>5, <1>6 DEF q, N

(* A plan as a run keeps it: in small mode nothing is deferred, in large   *)
(* mode the batches up to the budget are open until an admission is kept.  *)
Kept(r, p) ==
  /\ Same(r, p)
  /\ r.covered \in Seq(1..Size(p)) /\ IsInjective(r.covered)
  /\ ~p.large => r.admission = None /\ \A i \in 1..Size(p) : ~r.batches[i].deferred
  /\ p.large => /\ p.budget \in Nat
                /\ r.admission # None => Fits(r, p)
                /\ r.admission = None =>
                     /\ \A i \in 1..Size(p) : r.batches[i].deferred = (r.batches[i].id > p.budget)
                     /\ ToSet(r.covered) \subseteq 1..p.budget

(* What a context may ask for.                                             *)
Bounded(c) == c \in Contexts /\ c.maxBatches <= MaxPromotionBatches /\ c.maxFiles <= MaxPromotionFiles

(* What an admission took from a context.                                  *)
TakenFrom(a, p, c) ==
  /\ \A id \in ToSet(a.admission.promoted) : \E f \in ToSet(c.promotions) : f \in ToSet(p.batches[id].files)
  /\ Cardinality(FilesIn(p, ToSet(a.admission.promoted))) <= c.maxFiles

LEMMA IntervalSize == \A n \in Nat : IsFiniteSet(1..n) /\ Cardinality(1..n) = n
<1> TAKE n \in Nat
<1>1. 1 \in Int /\ n \in Int
  OBVIOUS
<1>2. IsFiniteSet(1..n) /\ Cardinality(1..n) = IF 1 > n THEN 0 ELSE n - 1 + 1
  BY <1>1, FS_Interval
<1> QED
  BY <1>2

LEMMA CoveredFits ==
  ASSUME NEW q, NEW N \in Nat, q \in Seq(1..N), IsInjective(q), NEW b \in Nat, ToSet(q) \subseteq 1..b
  PROVE  Len(q) <= b
<1>1. Cardinality(ToSet(q)) = Len(q)
  BY ToSetSize
<1>2. ToSet(q) \in SUBSET (1..b) /\ IsFiniteSet(1..b) /\ Cardinality(1..b) = b
  BY IntervalSize
<1>3. Cardinality(ToSet(q)) <= Cardinality(1..b)
  BY <1>2, FS_Subset
<1> QED
  BY <1>1, <1>2, <1>3

(* Tuples of numbers.                                                      *)
LEMMA Tuples ==
  /\ \A a \in Int : <<a>> \in [1..1 -> Int]
  /\ \A a, b, c, d \in Int : <<a, b, c, d>> \in [1..4 -> Int]
  /\ \A a, b, c, d, e \in Int : <<a, b, c, d, e>> \in [1..5 -> Int]
<1>1. \A q \in Seq(Int) : \A n \in Nat : Len(q) = n => q \in [1..n -> Int]
  OBVIOUS
<1>2. \A a \in Int : <<a>> \in Seq(Int) /\ Len(<<a>>) = 1
  OBVIOUS
<1>3. \A a, b, c, d \in Int : <<a, b, c, d>> \in Seq(Int) /\ Len(<<a, b, c, d>>) = 4
  OBVIOUS
<1>4. \A a, b, c, d, e \in Int : <<a, b, c, d, e>> \in Seq(Int) /\ Len(<<a, b, c, d, e>>) = 5
  OBVIOUS
<1>5. 1 \in Nat /\ 4 \in Nat /\ 5 \in Nat
  OBVIOUS
<1>6. \A a \in Int : <<a>> \in [1..1 -> Int]
  BY <1>1, <1>2, <1>5
<1>7. \A a, b, c, d \in Int : <<a, b, c, d>> \in [1..4 -> Int]
  BY <1>1, <1>3, <1>5
<1>8. \A a, b, c, d, e \in Int : <<a, b, c, d, e>> \in [1..5 -> Int]
  BY <1>1, <1>4, <1>5
<1> QED
  BY <1>6, <1>7, <1>8

(* An admission once kept fits whatever the plan looks like.               *)
LEMMA FrozenIs ==
  ASSUME NEW r, NEW p, Kept(r, p), r.admission # None
  PROVE  /\ p.large /\ Fits(r, p) /\ FrozenFits(r)
         /\ LET a == Deferring(r, ToSet(r.admission.base \o r.admission.promoted)) IN
            Kept(a, p) /\ a.covered = r.covered /\ a.admission = r.admission
<1> DEFINE base == r.admission.base
           extra == r.admission.promoted
           a == Deferring(r, ToSet(base \o extra))
           N == Size(p)
<1>1. p.large /\ Fits(r, p) /\ Same(r, p) /\ p.budget \in Nat
  <2>1. p.large \in BOOLEAN
    BY PlanParts DEF Kept, Same
  <2> QED
    BY <2>1 DEF Kept
<1>2. ToSet(base \o extra) \subseteq Ids(r) /\ ToSet(extra) \in SUBSET (1..N)
  <2>1. base \in Seq(1..N) /\ extra \in Seq(1..N)
    BY <1>1 DEF Fits
  <2>2. base \o extra \in Seq(1..N)
    BY <2>1, JoinIs
  <2> HIDE DEF base, extra, N
  <2>3. ToSet(base \o extra) \subseteq 1..N /\ ToSet(extra) \subseteq 1..N
    BY <2>1, <2>2, ToSetSize
  <2>4. Ids(r) = 1..N
    BY <1>1, SameBatches DEF N
  <2> QED
    BY <2>3, <2>4
<1>3. FilesOf(r, ToSet(extra)) = FilesIn(p, ToSet(extra))
  BY <1>1, <1>2, SameBatches
<1>4. FrozenFits(r)
  BY <1>1, <1>2, <1>3 DEF FrozenFits, Fits, Same
<1>5. /\ Same(a, p) /\ a.covered = r.covered /\ a.admission = r.admission
      /\ \A i \in 1..N : a.batches[i].id = r.batches[i].id /\ a.batches[i].deferred = (r.batches[i].id \notin ToSet(base \o extra))
  BY <1>1, DeferringIs
<1> HIDE DEF a
<1>6. Fits(a, p)
  BY <1>1, <1>5 DEF Fits
<1>7. Kept(a, p)
  BY <1>1, <1>5, <1>6 DEF Kept
<1> QED
  BY <1>1, <1>4, <1>5, <1>7 DEF a

(* The admission of a plan that has none, in any order.                    *)
LEMMA AdmitKept ==
  ASSUME NEW r, NEW p, Kept(r, p), p.large, r.admission = None, NEW s, Same(s, p), s.covered = r.covered,
         NEW eligible, NEW mb \in Nat, mb <= MaxPromotionBatches, NEW mf \in Nat, mf <= MaxPromotionFiles
  PROVE  LET a == Admit(s, eligible, mb, mf) IN
         /\ Kept(a, p) /\ a.covered = r.covered /\ a.admission # None
         /\ ToSet(a.admission.promoted) \subseteq eligible
         /\ Cardinality(FilesIn(p, ToSet(a.admission.promoted))) <= mf
<1> DEFINE a == Admit(s, eligible, mb, mf)
<1>1. /\ r.covered \in Seq(1..Size(p)) /\ IsInjective(r.covered) /\ p.budget \in Nat
      /\ ToSet(r.covered) \subseteq 1..p.budget /\ Size(p) \in Nat
  BY PlanParts DEF Kept, Same
<1>2. Len(r.covered) <= p.budget
  BY <1>1, CoveredFits
<1>3. /\ Same(a, p) /\ a.covered = r.covered /\ Fits(a, p)
      /\ ToSet(a.admission.promoted) \subseteq eligible
      /\ Cardinality(FilesIn(p, ToSet(a.admission.promoted))) <= mf
  BY <1>1, <1>2, AdmitIs
<1> HIDE DEF a
<1>4. a.admission # None
  BY <1>3, AuditAssumption DEF Fits
<1>5. Kept(a, p)
  BY <1>1, <1>3, <1>4 DEF Kept
<1> QED
  BY <1>3, <1>4, <1>5 DEF a

(* Each order of apply.                                                    *)
LEMMA SettledIs ==
  ASSUME NEW r, NEW p, Same(r, p), NEW fresh
  PROVE  LET s == [r EXCEPT !.batches =
                     Sorted(@, [i \in DOMAIN @ |-> <<IF AllFresh(@[i], fresh) THEN 1 ELSE 0>>])] IN
         Same(s, p) /\ s.covered = r.covered /\ s.admission = r.admission
<1> DEFINE key == [i \in DOMAIN r.batches |-> <<IF AllFresh(r.batches[i], fresh) THEN 1 ELSE 0>>]
           bs == Sorted(r.batches, key)
           s == [r EXCEPT !.batches = bs]
<1>1. \A i \in 1..Size(p) : key[i] \in [1..1 -> Int]
  <2>1. DOMAIN r.batches = 1..Size(p)
    BY PlanParts DEF Same
  <2> TAKE i \in 1..Size(p)
  <2>2. (IF AllFresh(r.batches[i], fresh) THEN 1 ELSE 0) \in Int
    OBVIOUS
  <2>3. key[i] = <<IF AllFresh(r.batches[i], fresh) THEN 1 ELSE 0>>
    BY <2>1
  <2> HIDE DEF key
  <2> QED
    BY <2>2, <2>3, Tuples
<1> HIDE DEF key
<1>5. 1 \in Nat /\ Keyed(key, Size(p), 1)
  BY <1>1 DEF Keyed
<1> HIDE <1>1
<1>2. bs \in Seq(Batches) /\ Len(bs) = Size(p)
  BY <1>5, SortedBatches
<1>3. Matched(bs, bs, Size(p))
  BY DEF Alike, Matched
<1>6. s = With(r, bs)
  BY DEF With
<1> HIDE DEF s
<1>4. Same(s, p) /\ s.covered = r.covered /\ s.admission = r.admission
  <2>1. bs = Sorted(r.batches, key)
    OBVIOUS
  <2> HIDE DEF bs
  <2> QED
    BY <1>2, <1>3, <1>5, <1>6, <2>1, SameReordered
<1> QED
  BY <1>4 DEF key, s

LEMMA BatchWithIs ==
  ASSUME NEW r, NEW p, Same(r, p), NEW f
  PROVE  BatchWith(r, f) = {id \in 1..Size(p) : f \in ToSet(p.batches[id].files)}
<1>1. Ids(r) = 1..Size(p) /\ \A id \in 1..Size(p) : BatchOf(r, id).files = p.batches[id].files
  BY SameBatches
<1> QED
  BY <1>1 DEF BatchWith

LEMMA OrderLargeIs ==
  ASSUME NEW r, NEW p, Kept(r, p), p.large, r.admission = None, NEW c, Bounded(c), NEW fresh
  PROVE  LET a == OrderLarge(r, c, fresh) IN
         Kept(a, p) /\ a.covered = r.covered /\ a.admission # None /\ TakenFrom(a, p, c)
<1> DEFINE eligible == UNION {BatchWith(r, f) : f \in ToSet(c.promotions)}
           hard(batch) == batch.id \in eligible
           one(batch) == IF AllFresh(batch, fresh) /\ ~ hard(batch) THEN 1 ELSE 0
           two(batch) == IF hard(batch) \/ batch.tier = 0 THEN 0 ELSE 1
           key(batch) == <<one(batch), two(batch), Ranks(c, batch).lane, - Ranks(c, batch).score, batch.tier>>
           keys == [i \in DOMAIN r.batches |-> key(r.batches[i])]
           ordered == Sorted(r.batches, keys)
           raise(batch) == [batch EXCEPT !.tier = IF hard(batch) THEN 0 ELSE @]
           raised == [i \in DOMAIN ordered |-> raise(ordered[i])]
           s == [r EXCEPT !.batches = raised]
           N == Size(p)
<1>1. OrderLarge(r, c, fresh) = Admit(s, eligible, c.maxBatches, c.maxFiles)
  BY DEF OrderLarge
<1>2. /\ Same(r, p) /\ c \in Contexts /\ c.maxBatches \in Nat /\ c.maxFiles \in Nat
      /\ c.maxBatches <= MaxPromotionBatches /\ c.maxFiles <= MaxPromotionFiles
  BY DEF Kept, Bounded, Contexts
<1>3. /\ N \in Nat /\ DOMAIN r.batches = 1..N
      /\ \A i \in 1..N : r.batches[i].tier \in Int
  BY <1>2, PlanParts DEF Same
<1>4. \A f : BatchWith(r, f) = {id \in 1..N : f \in ToSet(p.batches[id].files)}
  BY <1>2, BatchWithIs
<1>5. \A id \in eligible : \E f \in ToSet(c.promotions) : f \in ToSet(p.batches[id].files)
  BY <1>4
<1> HIDE DEF eligible
<1>6. \A i \in 1..N : keys[i] \in [1..5 -> Int]
  <2> TAKE i \in 1..N
  <2>1. keys[i] = key(r.batches[i])
    BY <1>3
  <2> DEFINE b == r.batches[i]
  <2>2. Ranks(c, b).lane \in Int /\ Ranks(c, b).score \in Int /\ b.tier \in Int
    BY <1>2, <1>3, RanksTyped
  <2>3. - Ranks(c, b).score \in Int /\ one(b) \in Int /\ two(b) \in Int
    <3> HIDE DEF b
    <3> QED
      BY <2>2
  <2> HIDE DEF b, one, two, keys
  <2>4. key(b) \in [1..5 -> Int]
    BY <2>2, <2>3, Tuples
  <2> QED
    BY <2>1, <2>4 DEF b
<1> HIDE DEF keys, hard
<1>7. /\ ordered \in Seq(Batches) /\ Len(ordered) = N /\ DOMAIN ordered = 1..N
      /\ \A n \in 1..N : ordered[n] \in Batches
  <2>1. 5 \in Nat /\ Keyed(keys, N, 5)
    BY <1>6 DEF Keyed
  <2> QED
    BY <1>2, <2>1, SortedBatches DEF N
<1>8. ordered = Sorted(r.batches, keys)
  OBVIOUS
<1> HIDE DEF ordered
<1>9. \A b \in Batches : raise(b) \in Batches /\ Alike(raise(b), b)
  <2> TAKE b \in Batches
  <2>1. (IF hard(b) THEN 0 ELSE b.tier) \in Int
    BY DEF Batches
  <2> QED
    BY <2>1 DEF Batches, Alike
<1> HIDE DEF raise
<1>10. \A i \in 1..N : raised[i] \in Batches /\ Alike(raised[i], ordered[i])
  BY <1>7, <1>9
<1>11. raised \in Seq(Batches) /\ Len(raised) = N
  <2>1. raised \in [1..N -> Batches]
    BY <1>7, <1>10
  <2> HIDE DEF raised, N
  <2> QED
    BY <1>3, <2>1
<1> HIDE DEF raised
<1>12. Same(s, p) /\ s.covered = r.covered
  <2>1. 5 \in Nat /\ Keyed(keys, N, 5)
    BY <1>6 DEF Keyed
  <2>2. Matched(raised, ordered, N)
    BY <1>10 DEF Matched
  <2>3. s = With(r, raised)
    BY DEF With
  <2> HIDE DEF s
  <2> QED
    BY <1>2, <1>8, <1>11, <2>1, <2>2, <2>3, SameReordered DEF N
<1> HIDE DEF s
<1> DEFINE a == Admit(s, eligible, c.maxBatches, c.maxFiles)
<1>13. /\ Kept(a, p) /\ a.covered = r.covered /\ a.admission # None
       /\ ToSet(a.admission.promoted) \subseteq eligible
       /\ Cardinality(FilesIn(p, ToSet(a.admission.promoted))) <= c.maxFiles
  BY <1>2, <1>12, AdmitKept
<1> HIDE DEF a
<1>14. TakenFrom(a, p, c)
  BY <1>5, <1>13 DEF TakenFrom
<1> QED
  BY <1>1, <1>13, <1>14 DEF a

LEMMA OrderSmallIs ==
  ASSUME NEW r, NEW p, Kept(r, p), ~p.large, NEW c, Bounded(c)
  PROVE  LET a == OrderSmall(r, c) IN Kept(a, p) /\ a.covered = r.covered
<1> DEFINE waiting(id) == BatchOf(r, id).deferred /\ id \notin ToSet(r.covered)
           holders == FlattenSeq([i \in DOMAIN c.promotions |->
                        SetToSeq(BatchWith(r, c.promotions[i]))])
           promoted == ToSet(Extension(r, Select(holders, waiting), c.maxBatches, c.maxFiles))
           group(batch) == IF batch.id \in promoted THEN 1 ELSE IF batch.tier = 0 THEN 0 ELSE 2
           sub(batch) == IF group(batch) = 2 THEN batch.tier ELSE 0
           key(batch) == <<group(batch), sub(batch), Ranks(c, batch).lane, - Ranks(c, batch).score>>
           keys == [i \in DOMAIN r.batches |-> key(r.batches[i])]
           ordered == Sorted(r.batches, keys)
           admit(batch) == IF batch.id \in promoted
                           THEN [batch EXCEPT !.tier = 0, !.deferred = FALSE] ELSE batch
           bs == [i \in DOMAIN ordered |-> admit(ordered[i])]
           s == [r EXCEPT !.batches = bs]
           N == Size(p)
<1>1. OrderSmall(r, c) = s
  BY DEF OrderSmall
<1> HIDE DEF promoted
<1>2. Same(r, p) /\ c \in Contexts /\ r.admission = None /\ \A i \in 1..N : ~r.batches[i].deferred
  BY DEF Kept, Bounded
<1>3. /\ N \in Nat /\ DOMAIN r.batches = 1..N
      /\ \A i \in 1..N : r.batches[i].tier \in Int
  BY <1>2, PlanParts DEF Same
<1>4. \A i \in 1..N : keys[i] \in [1..4 -> Int]
  <2> TAKE i \in 1..N
  <2>1. keys[i] = key(r.batches[i])
    BY <1>3
  <2> DEFINE b == r.batches[i]
  <2>2. Ranks(c, b).lane \in Int /\ Ranks(c, b).score \in Int /\ b.tier \in Int
    BY <1>2, <1>3, RanksTyped
  <2>3. - Ranks(c, b).score \in Int /\ group(b) \in Int /\ sub(b) \in Int
    <3> HIDE DEF b
    <3> QED
      BY <2>2
  <2> HIDE DEF b, group, sub, keys
  <2>4. key(b) \in [1..4 -> Int]
    BY <2>2, <2>3, Tuples
  <2> QED
    BY <2>1, <2>4 DEF b
<1> HIDE DEF keys
<1>5. /\ ordered \in Seq(Batches) /\ Len(ordered) = N /\ DOMAIN ordered = 1..N
      /\ \A n \in 1..N : ordered[n] \in Batches /\ \E i \in 1..N : ordered[n] = r.batches[i]
  <2>1. 4 \in Nat /\ Keyed(keys, N, 4)
    BY <1>4 DEF Keyed
  <2> QED
    BY <1>2, <2>1, SortedBatches DEF N
<1>6. ordered = Sorted(r.batches, keys)
  OBVIOUS
<1> HIDE DEF ordered
<1>7. \A b \in Batches : /\ admit(b) \in Batches /\ Alike(admit(b), b)
                         /\ ~b.deferred => ~admit(b).deferred
  <2> TAKE b \in Batches
  <2> DEFINE e == [b EXCEPT !.tier = 0]
             d == [e EXCEPT !.deferred = FALSE]
  <2>1. e \in Batches /\ e.id = b.id /\ e.files = b.files
    BY DEF Batches
  <2>2. d.id = b.id /\ d.files = b.files /\ d.deferred = FALSE /\ d \in Batches
    <3> HIDE DEF e
    <3> QED
      BY <2>1 DEF Batches
  <2>3. admit(b) = IF b.id \in promoted THEN d ELSE b
    OBVIOUS
  <2> HIDE DEF d
  <2> HIDE DEF admit
  <2> QED
    BY <2>2, <2>3 DEF Alike
<1> HIDE DEF admit
<1>8. \A i \in 1..N : bs[i] \in Batches /\ Alike(bs[i], ordered[i]) /\ ~bs[i].deferred
  <2> TAKE i \in 1..N
  <2>1. bs[i] = admit(ordered[i]) /\ ordered[i] \in Batches
    BY <1>5
  <2>2. ~ordered[i].deferred
    BY <1>2, <1>5
  <2> HIDE DEF bs
  <2> QED
    BY <1>7, <2>1, <2>2
<1>9. bs \in Seq(Batches) /\ Len(bs) = N
  <2>1. bs = [i \in 1..N |-> admit(ordered[i])] /\ \A i \in 1..N : admit(ordered[i]) \in Batches
    BY <1>5, <1>7
  <2>2. bs \in [1..N -> Batches]
    BY <2>1
  <2> HIDE DEF bs, N
  <2> HIDE <2>1
  <2> QED
    BY <1>3, <2>2
<1> HIDE DEF bs
<1>10. Same(s, p) /\ s.covered = r.covered /\ s.admission = r.admission /\ s.batches = bs
  <2>1. 4 \in Nat /\ Keyed(keys, N, 4)
    BY <1>4 DEF Keyed
  <2>2. Matched(bs, ordered, N)
    BY <1>8 DEF Matched
  <2>3. s = With(r, bs)
    BY DEF With
  <2> HIDE DEF s
  <2> QED
    BY <1>2, <1>6, <1>9, <2>1, <2>2, <2>3, SameReordered DEF N
<1> HIDE DEF s
<1>11. r.covered \in Seq(1..N) /\ IsInjective(r.covered)
  BY DEF Kept
<1>12. Kept(s, p)
  BY <1>2, <1>8, <1>10, <1>11 DEF Kept
<1> QED
  BY <1>1, <1>10, <1>12

(* apply never refuses a kept plan, keeps it, and never admits twice.      *)
LEMMA ReprioritizeIs ==
  ASSUME NEW r, NEW p, Kept(r, p), NEW c, Bounded(c), NEW fresh
  PROVE  LET a == Reprioritize(r, c, fresh) IN
         /\ a # None /\ Kept(a, p) /\ a.covered = r.covered
         /\ p.large => a.admission # None
         /\ r.admission # None => a.admission = r.admission
         /\ p.large /\ r.admission = None => TakenFrom(a, p, c)
<1> DEFINE a == Reprioritize(r, c, fresh)
           settled == [r EXCEPT !.batches =
                         Sorted(@, [i \in DOMAIN @ |-> <<IF AllFresh(@[i], fresh) THEN 1 ELSE 0>>])]
           frozen == Deferring(r, ToSet(r.admission.base \o r.admission.promoted))
<1>1. a = IF r.large /\ r.admission # None
          THEN IF FrozenFits(r) THEN frozen ELSE None
          ELSE IF c.degraded \/ c.targets = <<>>
          THEN IF r.large THEN Admit(settled, {}, 0, 0) ELSE r
          ELSE IF r.large THEN OrderLarge(r, c, fresh) ELSE OrderSmall(r, c)
  BY DEF Reprioritize
<1>2. Same(r, p) /\ r.large = p.large /\ p.large \in BOOLEAN /\ (~p.large => r.admission = None)
  BY PlanParts DEF Kept, Same
<1>3. Same(settled, p) /\ settled.covered = r.covered
  BY <1>2, SettledIs
<1> HIDE DEF settled
<1>4. CASE r.admission # None
  <2>1. p.large /\ FrozenFits(r) /\ Kept(frozen, p) /\ frozen.covered = r.covered /\ frozen.admission = r.admission
    BY <1>4, FrozenIs
  <2> HIDE DEF frozen
  <2>2. a = frozen
    BY <1>1, <1>2, <1>4, <2>1
  <2> HIDE DEF a
  <2>3. /\ Kept(a, p) /\ a.covered = r.covered
        /\ p.large => a.admission # None
        /\ r.admission # None => a.admission = r.admission
        /\ p.large /\ r.admission = None => TakenFrom(a, p, c)
    BY <1>4, <2>1, <2>2
  <2>4. a # None
    BY <2>3, AuditAssumption DEF Kept, Same
  <2> QED
    BY <2>3, <2>4 DEF a
<1>5. CASE r.admission = None /\ p.large /\ (c.degraded \/ c.targets = <<>>)
  <2> DEFINE s == Admit(settled, {}, 0, 0)
  <2>1. 0 \in Nat /\ 0 <= MaxPromotionBatches /\ 0 <= MaxPromotionFiles
    BY AuditAssumption
  <2>2. /\ Kept(s, p) /\ s.covered = r.covered /\ s.admission # None
        /\ ToSet(s.admission.promoted) \subseteq {}
        /\ Cardinality(FilesIn(p, ToSet(s.admission.promoted))) <= 0
    BY <1>3, <1>5, <2>1, AdmitKept
  <2> HIDE DEF s
  <2>3. a = s
    BY <1>1, <1>2, <1>5 DEF s
  <2>4. FilesIn(p, ToSet(s.admission.promoted)) = {}
    BY <2>2 DEF FilesIn
  <2>5. Cardinality(FilesIn(p, ToSet(s.admission.promoted))) <= c.maxFiles
    <3>1. c.maxFiles \in Nat
      BY DEF Bounded, Contexts
    <3> QED
      BY <2>4, <3>1, FS_EmptySet
  <2>6. TakenFrom(s, p, c)
    BY <2>2, <2>5 DEF TakenFrom
  <2>7. s # None
    BY <2>2, AuditAssumption DEF Kept, Same
  <2> QED
    BY <1>5, <2>2, <2>3, <2>6, <2>7
<1>6. CASE r.admission = None /\ p.large /\ ~(c.degraded \/ c.targets = <<>>)
  <2> DEFINE s == OrderLarge(r, c, fresh)
  <2>1. Kept(s, p) /\ s.covered = r.covered /\ s.admission # None /\ TakenFrom(s, p, c)
    BY <1>6, OrderLargeIs
  <2> HIDE DEF s
  <2>2. a = s
    BY <1>1, <1>2, <1>6 DEF s
  <2>3. s # None
    BY <2>1, AuditAssumption DEF Kept, Same
  <2> QED
    BY <1>6, <2>1, <2>2, <2>3
<1>7. CASE ~p.large
  <2> DEFINE s == OrderSmall(r, c)
  <2>1. Kept(s, p) /\ s.covered = r.covered
    BY <1>7, OrderSmallIs
  <2> HIDE DEF s
  <2>2. a = s \/ a = r
    BY <1>1, <1>2, <1>7 DEF s
  <2> HIDE DEF a
  <2>3. Kept(a, p) /\ a.covered = r.covered
    BY <2>1, <2>2
  <2>4. a # None
    BY <2>3, AuditAssumption DEF Kept, Same
  <2> QED
    BY <1>2, <1>7, <2>3, <2>4 DEF a
<1> QED
  BY <1>2, <1>4, <1>5, <1>6, <1>7

-----------------------------------------------------------------------------
(* The cut of a tree.  bs is a partition of X into sequences.              *)
Cut(bs, X) ==
  /\ bs \in Seq(Seq(Int))
  /\ \A k \in 1..Len(bs) : bs[k] # <<>> /\ IsInjective(bs[k])
  /\ \A j, k \in 1..Len(bs) : j # k => ToSet(bs[j]) \cap ToSet(bs[k]) = {}
  /\ UNION {ToSet(bs[k]) : k \in 1..Len(bs)} = X

Accs == [done : Seq(Seq(Int)), current : Seq(Int), bytes : Int]
Start == [done |-> <<>>, current |-> <<>>, bytes |-> 0]
Acc(done, current, bytes) == [done |-> done, current |-> current, bytes |-> bytes]

LEMMA AppendIs ==
  ASSUME NEW X, NEW q \in Seq(X), NEW x \in X
  PROVE  /\ Append(q, x) \in Seq(X) /\ Append(q, x) # <<>> /\ Len(q) \in Nat /\ Len(Append(q, x)) = Len(q) + 1
         /\ Append(q, x)[Len(q) + 1] = x /\ \A i \in 1..Len(q) : Append(q, x)[i] = q[i]
         /\ \A i \in 1..Len(Append(q, x)) : i \in 1..Len(q) \/ i = Len(q) + 1
<1>1. /\ Append(q, x) \in Seq(X) /\ Len(q) \in Nat /\ Len(Append(q, x)) = Len(q) + 1
      /\ Append(q, x)[Len(q) + 1] = x /\ \A i \in 1..Len(q) : Append(q, x)[i] = q[i]
  OBVIOUS
<1>2. Len(<<>>) = 0 /\ Len(q) + 1 # 0
  BY <1>1
<1>3. Append(q, x) # <<>>
  BY <1>1, <1>2
<1>4. \A i \in 1..(Len(q) + 1) : i \in 1..Len(q) \/ i = Len(q) + 1
  BY <1>1
<1> QED
  BY <1>1, <1>3, <1>4

LEMMA Single == \A x \in Int : /\ <<x>> \in Seq(Int) /\ <<x>> # <<>> /\ IsInjective(<<x>>) /\ ToSet(<<x>>) = {x}
                              /\ Append(<<>>, x) = <<x>> /\ Last(<<x>>) = x
BY DEF IsInjective, ToSet, Last

LEMMA Extended == \A q \in Seq(Int) : \A x \in Int : Append(q, x) \in Seq(Int) /\ Append(q, x) # <<>>
BY AppendIs

LEMMA AccWith ==
  /\ \A a \in Accs : \A x \in Seq(Int) : [a EXCEPT !.current = x] = Acc(a.done, x, a.bytes)
  /\ \A d, c, b, y : [Acc(d, c, b) EXCEPT !.bytes = y] = Acc(d, c, y)
<1>1. ASSUME NEW a \in Accs, NEW x \in Seq(Int) PROVE [a EXCEPT !.current = x] = Acc(a.done, x, a.bytes)
  <2> DEFINE e == [a EXCEPT !.current = x]
  <2>1. e \in Accs /\ e.done = a.done /\ e.current = x /\ e.bytes = a.bytes
    BY DEF Accs
  <2> HIDE DEF e
  <2>2. e = Acc(e.done, e.current, e.bytes)
    BY <2>1 DEF Acc, Accs
  <2>3. e = Acc(a.done, x, a.bytes)
    BY <2>1, <2>2
  <2> QED
    BY <2>3 DEF e
<1>2. \A d, c, b, y : [Acc(d, c, b) EXCEPT !.bytes = y] = Acc(d, c, y)
  BY DEF Acc
<1> QED
  BY <1>1, <1>2

LEMMA CutNew ==
  ASSUME NEW bs, NEW X, Cut(bs, X), NEW f \in Int, f \notin X
  PROVE  Cut(Append(bs, <<f>>), X \cup {f})
<1> DEFINE cs == Append(bs, <<f>>)
           N == Len(bs)
<1>1. <<f>> \in Seq(Int) /\ <<f>> # <<>> /\ IsInjective(<<f>>) /\ ToSet(<<f>>) = {f}
  BY Single
<1>2. /\ cs \in Seq(Seq(Int)) /\ N \in Nat /\ Len(cs) = N + 1 /\ cs[N + 1] = <<f>> /\ \A i \in 1..N : cs[i] = bs[i]
      /\ \A i \in 1..Len(cs) : i \in 1..N \/ i = N + 1
  BY <1>1, AppendIs DEF Cut
<1> HIDE DEF cs, N
<1>3. \A k \in 1..N : /\ bs[k] # <<>> /\ IsInjective(bs[k]) /\ ToSet(bs[k]) \subseteq X /\ f \notin ToSet(bs[k])
  BY DEF Cut, N
<1>4. \A k \in 1..Len(cs) : cs[k] # <<>> /\ IsInjective(cs[k])
  BY <1>1, <1>2, <1>3
<1>5. \A j, k \in 1..Len(cs) : j # k => ToSet(cs[j]) \cap ToSet(cs[k]) = {}
  <2> TAKE j, k \in 1..Len(cs)
  <2>1. CASE j \in 1..N /\ k \in 1..N
    BY <1>2, <2>1 DEF Cut, N
  <2>2. CASE j \in 1..N /\ k = N + 1
    BY <1>1, <1>2, <1>3, <2>2
  <2>3. CASE j = N + 1 /\ k \in 1..N
    BY <1>1, <1>2, <1>3, <2>3
  <2> QED
    BY <1>2, <2>1, <2>2, <2>3
<1>6. UNION {ToSet(cs[k]) : k \in 1..Len(cs)} = X \cup {f}
  <2>1. 1..Len(cs) = 1..N \cup {N + 1}
    BY <1>2
  <2>2. X = UNION {ToSet(bs[k]) : k \in 1..N}
    BY DEF Cut, N
  <2> QED
    BY <1>1, <1>2, <2>1, <2>2
<1> QED
  BY <1>2, <1>4, <1>5, <1>6 DEF Cut, cs

LEMMA CutMore ==
  ASSUME NEW ds \in Seq(Seq(Int)), NEW b \in Seq(Int), NEW X, Cut(Append(ds, b), X), NEW f \in Int, f \notin X
  PROVE  Cut(Append(ds, Append(b, f)), X \cup {f})
<1> DEFINE c == Append(b, f)
           bs == Append(ds, b)
           cs == Append(ds, c)
           N == Len(ds)
<1>1. /\ c \in Seq(Int) /\ c # <<>> /\ ToSet(c) = ToSet(b) \cup {f}
      /\ IsInjective(b) /\ f \notin ToSet(b) => IsInjective(c)
  <2>1. c \in Seq(Int) /\ c # <<>>
    BY AppendIs
  <2>2. ToSet(c) = ToSet(b) \cup {f} /\ (IsInjective(b) /\ f \notin ToSet(b) => IsInjective(c))
    BY ToSetAppend
  <2> QED
    BY <2>1, <2>2
<1>2. /\ bs \in Seq(Seq(Int)) /\ N \in Nat /\ Len(bs) = N + 1 /\ bs[N + 1] = b /\ \A i \in 1..N : bs[i] = ds[i]
  BY AppendIs
<1> HIDE DEF c
<1>3. /\ cs \in Seq(Seq(Int)) /\ Len(cs) = N + 1 /\ cs[N + 1] = c /\ \A i \in 1..N : cs[i] = ds[i]
  BY <1>1, AppendIs
<1>4. /\ \A i \in 1..(N + 1) : i \in 1..N \/ i = N + 1
      /\ \A i \in 1..N : i \in 1..(N + 1) /\ i # N + 1
      /\ N + 1 \in 1..(N + 1) /\ 1..(N + 1) = 1..N \cup {N + 1}
  BY <1>2
<1>5. Cut(bs, X)
  OBVIOUS
<1> HIDE DEF bs, cs, N
<1>6. IsInjective(c)
  <2>1. IsInjective(b) /\ ToSet(b) \subseteq X
    BY <1>2, <1>4, <1>5 DEF Cut
  <2> QED
    BY <1>1, <2>1
<1>7. \A k \in 1..N : /\ ds[k] # <<>> /\ IsInjective(ds[k]) /\ f \notin ToSet(ds[k]) /\ ToSet(ds[k]) \cap ToSet(c) = {}
  <2> TAKE k \in 1..N
  <2>1. k \in 1..(N + 1) /\ N + 1 \in 1..(N + 1) /\ k # N + 1 /\ bs[k] = ds[k] /\ bs[N + 1] = b /\ Len(bs) = N + 1
    BY <1>2, <1>4
  <2>2. ds[k] # <<>> /\ IsInjective(ds[k]) /\ ToSet(ds[k]) \subseteq X /\ ToSet(ds[k]) \cap ToSet(b) = {}
    BY <1>5, <2>1 DEF Cut
  <2> QED
    BY <1>1, <2>2
<1>8. \A k \in 1..Len(cs) : cs[k] # <<>> /\ IsInjective(cs[k])
  BY <1>1, <1>3, <1>4, <1>6, <1>7
<1>9. \A j, k \in 1..Len(cs) : j # k => ToSet(cs[j]) \cap ToSet(cs[k]) = {}
  <2> TAKE j, k \in 1..Len(cs)
  <2>1. CASE j \in 1..N /\ k \in 1..N
    <3>1. j \in 1..Len(bs) /\ k \in 1..Len(bs) /\ cs[j] = bs[j] /\ cs[k] = bs[k]
      BY <1>2, <1>3, <1>4, <2>1
    <3> QED
      BY <1>5, <3>1 DEF Cut
  <2>2. CASE j \in 1..N /\ k = N + 1
    BY <1>3, <1>7, <2>2
  <2>3. CASE j = N + 1 /\ k \in 1..N
    BY <1>3, <1>7, <2>3
  <2> QED
    BY <1>3, <1>4, <2>1, <2>2, <2>3
<1>10. UNION {ToSet(cs[k]) : k \in 1..Len(cs)} = X \cup {f}
  <2>1. X = UNION {ToSet(bs[k]) : k \in 1..(N + 1)}
    BY <1>2, <1>5 DEF Cut
  <2>2. X = (UNION {ToSet(ds[k]) : k \in 1..N}) \cup ToSet(b)
    BY <1>2, <1>4, <2>1
  <2>3. UNION {ToSet(cs[k]) : k \in 1..Len(cs)} = (UNION {ToSet(ds[k]) : k \in 1..N}) \cup ToSet(c)
    BY <1>3, <1>4
  <2> QED
    BY <1>1, <2>2, <2>3
<1> QED
  BY <1>3, <1>8, <1>9, <1>10 DEF Cut, cs, c

(* What a flush does, and the three ways to place a file.                  *)
LEMMA FlushIs ==
  ASSUME NEW acc \in Accs
  PROVE  /\ Flush(acc) \in Accs
         /\ Flush(acc).done = IF acc.current = <<>> THEN acc.done ELSE Append(acc.done, acc.current)
         /\ Flush(acc).current = <<>>
         /\ Flush(Flush(acc)).done = Flush(acc).done
<1>1. acc.done \in Seq(Seq(Int)) /\ acc.current \in Seq(Int) /\ acc.bytes \in Int
  BY DEF Accs
<1>2. CASE acc.current = <<>>
  BY <1>2 DEF Flush
<1>3. CASE acc.current # <<>>
  <2> DEFINE a == [done |-> Append(acc.done, acc.current), current |-> <<>>, bytes |-> 0]
  <2>1. Append(acc.done, acc.current) \in Seq(Seq(Int))
    BY <1>1, AppendIs
  <2>2. <<>> \in Seq(Int)
    OBVIOUS
  <2>3. a \in Accs /\ a.done = Append(acc.done, acc.current) /\ a.current = <<>>
    BY <2>1, <2>2 DEF Accs
  <2>4. Flush(acc) = a
    BY <1>3 DEF Flush
  <2>5. Flush(a) = a
    BY DEF Flush
  <2> HIDE DEF a
  <2> QED
    BY <1>3, <2>3, <2>4, <2>5
<1> QED
  BY <1>2, <1>3

Isolated(t, mb, f) == t.size[f] = None \/ t.size[f] > mb
Crowded(t, mf, mb, acc, f) ==
  acc.current # <<>> /\ (Len(acc.current) >= mf \/ acc.bytes + t.size[f] > mb)
Elsewhere(t, acc, f) == acc.current # <<>> /\ t.dir[Last(acc.current)] # t.dir[f]

Alone(acc, f) == Flush(Acc(Flush(acc).done, <<f>>, Flush(acc).bytes))
Opened(t, acc, f) == Acc(Flush(acc).done, <<f>>, Flush(acc).bytes + t.size[f])
Joined(t, acc, f) == Acc(acc.done, Append(acc.current, f), acc.bytes + t.size[f])

LEMMA PlacedIs ==
  ASSUME NEW t, NEW mf, NEW mb, NEW acc \in Accs, NEW f \in Int
  PROVE  /\ Place(t, mf, mb, acc, f) = IF Isolated(t, mb, f) THEN Alone(acc, f)
                                       ELSE IF Crowded(t, mf, mb, acc, f) THEN Opened(t, acc, f)
                                       ELSE Joined(t, acc, f)
         /\ ShellPlace(t, mf, mb, acc, f) =
              IF Isolated(t, mb, f) THEN Alone(acc, f)
              ELSE IF Elsewhere(t, acc, f) \/ Crowded(t, mf, mb, acc, f) THEN Opened(t, acc, f)
              ELSE Joined(t, acc, f)
<1> DEFINE fl == Flush(acc)
           size == t.size[f]
<1>1. fl \in Accs /\ fl.current = <<>>
  BY FlushIs
<1>2. \A a \in Accs : [a EXCEPT !.current = <<f>>] = Acc(a.done, <<f>>, a.bytes)
  BY DEF Accs, Acc
<1>3. \A a \in Accs : \A s : [a EXCEPT !.current = Append(@, f), !.bytes = @ + s] = Acc(a.done, Append(a.current, f), a.bytes + s)
  <2> TAKE a \in Accs
  <2> TAKE s
  <2> DEFINE current == Append(a.current, f)
             bytes == a.bytes + s
             e == [a EXCEPT !.current = current]
  <2>3. current \in Seq(Int)
    <3>1. a.current \in Seq(Int)
      BY DEF Accs
    <3> QED
      BY <3>1, Extended, Zenon
  <2> HIDE DEF current, bytes
  <2>1. e = Acc(a.done, current, a.bytes)
    BY <2>3, AccWith, Zenon
  <2> HIDE DEF e
  <2>2. [e EXCEPT !.bytes = bytes] = Acc(a.done, current, bytes)
    BY <2>1 DEF Acc
  <2> QED
    BY <2>2 DEF e, current, bytes
<1>4. Append(fl.current, f) = <<f>>
  BY <1>1, Single
<1>5. Flush([fl EXCEPT !.current = <<f>>]) = Alone(acc, f)
  BY <1>1, <1>2 DEF Alone
<1>6. [fl EXCEPT !.current = Append(@, f), !.bytes = @ + size] = Opened(t, acc, f)
  BY <1>1, <1>3, <1>4 DEF Opened
<1>7. [acc EXCEPT !.current = Append(@, f), !.bytes = @ + size] = Joined(t, acc, f)
  BY <1>3 DEF Joined
<1> HIDE DEF fl
<1>8. /\ Place(t, mf, mb, acc, f) = IF Isolated(t, mb, f) THEN Flush([fl EXCEPT !.current = <<f>>])
                                    ELSE IF Crowded(t, mf, mb, acc, f)
                                    THEN [fl EXCEPT !.current = Append(@, f), !.bytes = @ + size]
                                    ELSE [acc EXCEPT !.current = Append(@, f), !.bytes = @ + size]
  BY DEF Place, Isolated, Crowded, fl
<1>9. ShellPlace(t, mf, mb, acc, f) = IF Isolated(t, mb, f) THEN Flush([fl EXCEPT !.current = <<f>>])
                                    ELSE IF Elsewhere(t, acc, f) \/ Crowded(t, mf, mb, acc, f)
                                    THEN [fl EXCEPT !.current = Append(@, f), !.bytes = @ + size]
                                    ELSE [acc EXCEPT !.current = Append(@, f), !.bytes = @ + size]
  BY DEF ShellPlace, Isolated, Crowded, Elsewhere, fl
<1> QED
  BY <1>5, <1>6, <1>7, <1>8, <1>9

IsAlone(a, acc, f) ==
  /\ a \in Accs /\ a.current = <<>> /\ a.done = Append(Flush(acc).done, <<f>>)
  /\ Flush(a).done = Append(Flush(acc).done, <<f>>)
IsOpened(a, acc, f) ==
  /\ a \in Accs /\ a.current = <<f>> /\ a.done = Flush(acc).done
  /\ Flush(a).done = Append(Flush(acc).done, <<f>>)
IsJoined(a, acc, f) ==
  /\ a \in Accs /\ a.current = Append(acc.current, f) /\ a.done = acc.done
  /\ Flush(a).done = Append(acc.done, Append(acc.current, f))
Sized(t, f) == t.size[f] \in Int

LEMMA PlacesTyped ==
  ASSUME NEW acc \in Accs, NEW f \in Int
  PROVE  /\ IsAlone(Alone(acc, f), acc, f)
         /\ \A t : Sized(t, f) => IsOpened(Opened(t, acc, f), acc, f) /\ IsJoined(Joined(t, acc, f), acc, f)
<1>1. /\ acc.done \in Seq(Seq(Int)) /\ acc.current \in Seq(Int) /\ acc.bytes \in Int
      /\ Flush(acc).done \in Seq(Seq(Int)) /\ Flush(acc).bytes \in Int
  BY FlushIs DEF Accs
<1>3. <<f>> \in Seq(Int) /\ <<f>> # <<>> /\ Append(acc.current, f) \in Seq(Int) /\ Append(acc.current, f) # <<>>
  <2>1. <<f>> \in Seq(Int) /\ <<f>> # <<>>
    BY Single
  <2>2. Append(acc.current, f) \in Seq(Int) /\ Append(acc.current, f) # <<>>
    BY <1>1, Extended, Zenon
  <2> QED
    BY <2>1, <2>2
<1> DEFINE one == Acc(Flush(acc).done, <<f>>, Flush(acc).bytes)
<1>4. one \in Accs /\ one.done = Flush(acc).done /\ one.current = <<f>>
  <2> DEFINE d == Flush(acc).done   c == <<f>>   b == Flush(acc).bytes
  <2>1. d \in Seq(Seq(Int)) /\ c \in Seq(Int) /\ b \in Int
    BY <1>1, <1>3
  <2>2. one = Acc(d, c, b)
    OBVIOUS
  <2> HIDE DEF d, c, b, one
  <2>3. one \in Accs /\ one.done = d /\ one.current = c
    BY <2>1, <2>2 DEF Acc, Accs
  <2> QED
    BY <2>3 DEF d, c
<1> HIDE DEF one
<1>5. /\ Flush(one) \in Accs /\ Flush(one).done = Append(Flush(acc).done, <<f>>) /\ Flush(one).current = <<>>
      /\ Flush(Flush(one)).done = Append(Flush(acc).done, <<f>>)
  BY <1>3, <1>4, FlushIs
<1>6. Alone(acc, f) = Flush(one)
  BY DEF Alone, one
<1>7. ASSUME NEW t, Sized(t, f)
      PROVE  IsOpened(Opened(t, acc, f), acc, f) /\ IsJoined(Joined(t, acc, f), acc, f)
  <2>1. Flush(acc).bytes + t.size[f] \in Int /\ acc.bytes + t.size[f] \in Int
    BY <1>1, <1>7 DEF Sized
  <2>2. /\ Opened(t, acc, f) \in Accs /\ Opened(t, acc, f).current = <<f>> /\ Opened(t, acc, f).done = Flush(acc).done
        /\ Joined(t, acc, f) \in Accs /\ Joined(t, acc, f).current = Append(acc.current, f)
        /\ Joined(t, acc, f).done = acc.done
    <3> DEFINE o == Opened(t, acc, f)
               j == Joined(t, acc, f)
               d == Flush(acc).done   c == <<f>>   big == Flush(acc).bytes + t.size[f]
               e == acc.done   k == Append(acc.current, f)   more == acc.bytes + t.size[f]
    <3>1. o = Acc(d, c, big) /\ j = Acc(e, k, more)
      BY DEF Opened, Joined
    <3>2. /\ d \in Seq(Seq(Int)) /\ c \in Seq(Int) /\ big \in Int
          /\ e \in Seq(Seq(Int)) /\ k \in Seq(Int) /\ more \in Int
      BY <1>1, <1>3, <2>1
    <3> HIDE DEF o, j, d, c, big, e, k, more
    <3>3. o \in Accs /\ o.current = c /\ o.done = d
      BY <3>1, <3>2 DEF Acc, Accs
    <3>4. j \in Accs /\ j.current = k /\ j.done = e
      BY <3>1, <3>2 DEF Acc, Accs
    <3> QED
      BY <3>3, <3>4 DEF o, j, d, c, e, k
  <2> QED
    BY <1>3, <2>2, FlushIs DEF IsOpened, IsJoined
<1>9. IsAlone(Alone(acc, f), acc, f)
  BY <1>5, <1>6 DEF IsAlone
<1> QED
  BY <1>7, <1>9

LEMMA CutPlaced ==
  ASSUME NEW t, NEW acc \in Accs, NEW f \in Int, t.size[f] \in Int \cup {None}, NEW a,
         \/ a = Alone(acc, f)
         \/ t.size[f] # None /\ a = Opened(t, acc, f)
         \/ t.size[f] # None /\ a = Joined(t, acc, f)
  PROVE  /\ a \in Accs
         /\ \A X : Cut(Flush(acc).done, X) /\ f \notin X => Cut(Flush(a).done, X \cup {f})
<1>1. /\ a \in Accs
      /\ \/ Flush(a).done = Append(Flush(acc).done, <<f>>)
         \/ Flush(a).done = Append(acc.done, Append(acc.current, f))
  <2>1. CASE a = Alone(acc, f)
    <3>1. IsAlone(Alone(acc, f), acc, f)
      BY PlacesTyped, Zenon
    <3> QED
      BY <2>1, <3>1 DEF IsAlone
  <2>2. CASE t.size[f] # None /\ (a = Opened(t, acc, f) \/ a = Joined(t, acc, f))
    <3>1. Sized(t, f)
      BY <2>2 DEF Sized
    <3>2. IsOpened(Opened(t, acc, f), acc, f) /\ IsJoined(Joined(t, acc, f), acc, f)
      BY <3>1, PlacesTyped, Zenon
    <3> QED
      BY <2>2, <3>2 DEF IsOpened, IsJoined
  <2> QED
    BY <2>1, <2>2
<1>2. ASSUME NEW X, Cut(Flush(acc).done, X), f \notin X PROVE Cut(Flush(a).done, X \cup {f})
  <2>1. CASE Flush(a).done = Append(Flush(acc).done, <<f>>)
    BY <1>2, <2>1, CutNew
  <2>2. CASE Flush(a).done = Append(acc.done, Append(acc.current, f)) /\ acc.current = <<>>
    <3>1. Flush(acc).done = acc.done /\ Append(acc.current, f) = <<f>>
      BY <2>2, FlushIs, Single
    <3> QED
      BY <1>2, <2>2, <3>1, CutNew
  <2>3. CASE Flush(a).done = Append(acc.done, Append(acc.current, f)) /\ acc.current # <<>>
    <3>1. Flush(acc).done = Append(acc.done, acc.current) /\ acc.done \in Seq(Seq(Int)) /\ acc.current \in Seq(Int)
      BY <2>3, FlushIs DEF Accs
    <3> QED
      BY <1>2, <2>3, <3>1, CutMore
  <2> QED
    BY <1>1, <2>1, <2>2, <2>3
<1> QED
  BY <1>1, <1>2

LEMMA PlaceStep ==
  ASSUME NEW t, NEW mf, NEW mb, NEW acc \in Accs, NEW f \in Int, t.size[f] \in Int \cup {None}
  PROVE  /\ LET a == Place(t, mf, mb, acc, f) IN
            /\ a \in Accs
            /\ \A X : Cut(Flush(acc).done, X) /\ f \notin X => Cut(Flush(a).done, X \cup {f})
         /\ LET a == ShellPlace(t, mf, mb, acc, f) IN
            /\ a \in Accs
            /\ \A X : Cut(Flush(acc).done, X) /\ f \notin X => Cut(Flush(a).done, X \cup {f})
<1> DEFINE a == Place(t, mf, mb, acc, f)
           b == ShellPlace(t, mf, mb, acc, f)
<1>1. /\ \/ a = Alone(acc, f)
         \/ t.size[f] # None /\ a = Opened(t, acc, f)
         \/ t.size[f] # None /\ a = Joined(t, acc, f)
      /\ \/ b = Alone(acc, f)
         \/ t.size[f] # None /\ b = Opened(t, acc, f)
         \/ t.size[f] # None /\ b = Joined(t, acc, f)
  BY PlacedIs DEF Isolated
<1> HIDE DEF a, b
<1>2. a \in Accs /\ \A X : Cut(Flush(acc).done, X) /\ f \notin X => Cut(Flush(a).done, X \cup {f})
  BY <1>1, CutPlaced
<1>3. b \in Accs /\ \A X : Cut(Flush(acc).done, X) /\ f \notin X => Cut(Flush(b).done, X \cup {f})
  BY <1>1, CutPlaced
<1> QED
  BY <1>2, <1>3 DEF a, b

(* The planner over a sequence of files, step by step.                     *)
ShellSteps(h, t, mf, mb, q) ==
  /\ h \in [0..Len(q) -> Accs] /\ h[0] = Start
  /\ \A n \in 1..Len(q) : h[n] = ShellPlace(t, mf, mb, h[n - 1], q[n])

ShellFolded(t, mf, mb, q) ==
  Folded(LAMBDA acc, f : ShellPlace(t, mf, mb, acc, f), Start, q)

LEMMA ShellFold ==
  ASSUME NEW t, NEW mf, NEW mb, NEW q \in Seq(Int), \A n \in 1..Len(q) : t.size[q[n]] \in Int \cup {None}
  PROVE  \E h : ShellSteps(h, t, mf, mb, q) /\ ShellFolded(t, mf, mb, q) = h[Len(q)]
<1> DEFINE L == Len(q)
           take(acc, f) == ShellPlace(t, mf, mb, acc, f)
           fold == CHOOSE f : f = [n \in 0..L |-> IF n = 0 THEN Start ELSE take(f[n - 1], q[n])]
           g == [x \in Nat \X Accs |-> IF x[1] \in 1..L THEN take(x[2], q[x[1]]) ELSE x[2]]
<1>1. L \in Nat /\ \A n \in 1..L : q[n] \in Int
  BY SeqParts
<1>2. \A n \in 1..L : \A acc \in Accs : take(acc, q[n]) \in Accs
  BY <1>1, PlaceStep
<1>3. Start \in Accs
  BY DEF Start, Accs
<1>4. ShellFolded(t, mf, mb, q) = fold[L]
  BY DEF ShellFolded, Folded
<1> HIDE DEF take
<1>5. \A n \in Nat : \A a \in Accs : g[<<n, a>>] \in Accs
  BY <1>2
<1>6. PICK f \in [0..L -> Accs] : f[0] = Start /\ \A n \in 1..L : f[n] = g[<<n, f[n - 1]>>]
  <2> HIDE DEF g, L
  <2>1. \E f \in [0..L -> Accs] : Steps(f, L, Start, g)
    BY <1>1, <1>3, <1>5, Recursion
  <2> QED
    BY <2>1 DEF Steps
<1>7. ASSUME NEW n \in 1..L PROVE f[n] = take(f[n - 1], q[n])
  <2>1. n - 1 \in 0..L
    OBVIOUS
  <2>2. f[n - 1] \in Accs /\ n \in Nat
    BY <2>1
  <2>3. g[<<n, f[n - 1]>>] = take(f[n - 1], q[n])
    BY <2>2
  <2> HIDE DEF g, L
  <2> QED
    BY <1>6, <2>3
<1> HIDE DEF g
<1>8. f = [n \in 0..L |-> IF n = 0 THEN Start ELSE take(f[n - 1], q[n])]
  <2>1. \A n \in 0..L : f[n] = IF n = 0 THEN Start ELSE take(f[n - 1], q[n])
    BY <1>6, <1>7
  <2> HIDE DEF L
  <2> QED
    BY <1>6, <2>1
<1>9. fold = [n \in 0..L |-> IF n = 0 THEN Start ELSE take(fold[n - 1], q[n])]
  BY <1>8
<1> HIDE DEF fold
<1>10. fold[0] = Start /\ \A n \in 1..L : fold[n] = take(fold[n - 1], q[n])
  BY <1>1, <1>9
<1> DEFINE T == {n \in Nat : fold[n] \in Accs}
<1>11. 0 \in T
  BY <1>3, <1>10
<1>12. ASSUME NEW n \in Nat, n < L, n \in T PROVE n + 1 \in T
  <2>1. n + 1 \in 1..L /\ (n + 1) - 1 = n /\ fold[n] \in Accs
    BY <1>1, <1>12
  <2>2. fold[n + 1] = take(fold[n], q[n + 1])
    <3> HIDE DEF L
    <3> QED
      BY <1>10, <2>1
  <2> QED
    BY <1>2, <2>1, <2>2
<1>13. \A n \in 0..L : fold[n] \in Accs
  <2> HIDE DEF T, L
  <2>1. 0..L \subseteq T
    BY <1>1, <1>11, <1>12, BoundedSuccession
  <2> QED
    BY <2>1 DEF T
<1>14. DOMAIN fold = 0..L
  BY <1>9
<1>15. fold \in [0..L -> Accs]
  <2>1. fold = [n \in 0..L |-> fold[n]]
    BY <1>9
  <2> HIDE DEF L
  <2> QED
    BY <1>13, <2>1
<1>16. ShellSteps(fold, t, mf, mb, q)
  <2> HIDE <1>9, <1>8
  <2> QED
    BY <1>10, <1>15 DEF ShellSteps, take
<1> QED
  BY <1>4, <1>16

PlaceSteps(h, t, mf, mb, q) ==
  /\ h \in [0..Len(q) -> Accs] /\ h[0] = Start
  /\ \A n \in 1..Len(q) : h[n] = Place(t, mf, mb, h[n - 1], q[n])

PlaceFolded(t, mf, mb, q) ==
  Folded(LAMBDA acc, f : Place(t, mf, mb, acc, f), Start, q)

LEMMA PlaceFold ==
  ASSUME NEW t, NEW mf, NEW mb, NEW q \in Seq(Int), \A n \in 1..Len(q) : t.size[q[n]] \in Int \cup {None}
  PROVE  \E h : PlaceSteps(h, t, mf, mb, q) /\ PlaceFolded(t, mf, mb, q) = h[Len(q)]
<1> DEFINE L == Len(q)
           take(acc, f) == Place(t, mf, mb, acc, f)
           fold == CHOOSE f : f = [n \in 0..L |-> IF n = 0 THEN Start ELSE take(f[n - 1], q[n])]
           g == [x \in Nat \X Accs |-> IF x[1] \in 1..L THEN take(x[2], q[x[1]]) ELSE x[2]]
<1>1. L \in Nat /\ \A n \in 1..L : q[n] \in Int
  BY SeqParts
<1>2. \A n \in 1..L : \A acc \in Accs : take(acc, q[n]) \in Accs
  BY <1>1, PlaceStep
<1>3. Start \in Accs
  BY DEF Start, Accs
<1>4. PlaceFolded(t, mf, mb, q) = fold[L]
  BY DEF PlaceFolded, Folded
<1> HIDE DEF take
<1>5. \A n \in Nat : \A a \in Accs : g[<<n, a>>] \in Accs
  BY <1>2
<1>6. PICK f \in [0..L -> Accs] : f[0] = Start /\ \A n \in 1..L : f[n] = g[<<n, f[n - 1]>>]
  <2> HIDE DEF g, L
  <2>1. \E f \in [0..L -> Accs] : Steps(f, L, Start, g)
    BY <1>1, <1>3, <1>5, Recursion
  <2> QED
    BY <2>1 DEF Steps
<1>7. ASSUME NEW n \in 1..L PROVE f[n] = take(f[n - 1], q[n])
  <2>1. n - 1 \in 0..L
    OBVIOUS
  <2>2. f[n - 1] \in Accs /\ n \in Nat
    BY <2>1
  <2>3. g[<<n, f[n - 1]>>] = take(f[n - 1], q[n])
    BY <2>2
  <2> HIDE DEF g, L
  <2> QED
    BY <1>6, <2>3
<1> HIDE DEF g
<1>8. f = [n \in 0..L |-> IF n = 0 THEN Start ELSE take(f[n - 1], q[n])]
  <2>1. \A n \in 0..L : f[n] = IF n = 0 THEN Start ELSE take(f[n - 1], q[n])
    BY <1>6, <1>7
  <2> HIDE DEF L
  <2> QED
    BY <1>6, <2>1
<1>9. fold = [n \in 0..L |-> IF n = 0 THEN Start ELSE take(fold[n - 1], q[n])]
  BY <1>8
<1> HIDE DEF fold
<1>10. fold[0] = Start /\ \A n \in 1..L : fold[n] = take(fold[n - 1], q[n])
  BY <1>1, <1>9
<1> DEFINE T == {n \in Nat : fold[n] \in Accs}
<1>11. 0 \in T
  BY <1>3, <1>10
<1>12. ASSUME NEW n \in Nat, n < L, n \in T PROVE n + 1 \in T
  <2>1. n + 1 \in 1..L /\ (n + 1) - 1 = n /\ fold[n] \in Accs
    BY <1>1, <1>12
  <2>2. fold[n + 1] = take(fold[n], q[n + 1])
    <3> HIDE DEF L
    <3> QED
      BY <1>10, <2>1
  <2> QED
    BY <1>2, <2>1, <2>2
<1>13. \A n \in 0..L : fold[n] \in Accs
  <2> HIDE DEF T, L
  <2>1. 0..L \subseteq T
    BY <1>1, <1>11, <1>12, BoundedSuccession
  <2> QED
    BY <2>1 DEF T
<1>14. DOMAIN fold = 0..L
  BY <1>9
<1>15. fold \in [0..L -> Accs]
  <2>1. fold = [n \in 0..L |-> fold[n]]
    BY <1>9
  <2> HIDE DEF L
  <2> QED
    BY <1>13, <2>1
<1>16. PlaceSteps(fold, t, mf, mb, q)
  <2> HIDE <1>9, <1>8
  <2> QED
    BY <1>10, <1>15 DEF PlaceSteps, take
<1> QED
  BY <1>4, <1>16

(* Whoever places the files of q one by one partitions them.               *)
LEMMA CutFold ==
  ASSUME NEW q \in Seq(Int), \A m, n \in 1..Len(q) : q[m] = q[n] => m = n, NEW h, h[0] = Start,
         \A n \in 1..Len(q) : \A X : Cut(Flush(h[n - 1]).done, X) /\ q[n] \notin X => Cut(Flush(h[n]).done, X \cup {q[n]})
  PROVE  Cut(Flush(h[Len(q)]).done, {q[k] : k \in 1..Len(q)})
<1> DEFINE L == Len(q)
           Done(n) == Cut(Flush(h[n]).done, {q[k] : k \in 1..n})
           T == {n \in Nat : n <= L /\ Done(n)}
<1>1. L \in Nat
  OBVIOUS
<1>2. 0 \in T
  <2>1. Flush(h[0]).done = <<>>
    BY DEF Start, Flush
  <2>2. Cut(<<>>, {})
    BY DEF Cut
  <2>3. {q[k] : k \in 1..0} = {}
    OBVIOUS
  <2>4. Done(0)
    BY <2>1, <2>2, <2>3
  <2> HIDE DEF Done
  <2> QED
    BY <1>1, <2>4
<1>3. ASSUME NEW n \in Nat, n < L, n \in T PROVE n + 1 \in T
  <2> DEFINE f == q[n + 1]
             X == {q[k] : k \in 1..n}
  <2>1. n + 1 \in 1..L /\ (n + 1) - 1 = n /\ n + 1 <= L
    BY <1>1, <1>3
  <2>2. f \notin X
    <3>1. \A k \in 1..n : k \in 1..L /\ k # n + 1
      BY <1>1, <2>1
    <3> QED
      BY <2>1, <3>1
  <2>3. Cut(Flush(h[n]).done, X)
    BY <1>3
  <2>4. \A Y : Cut(Flush(h[n]).done, Y) /\ f \notin Y => Cut(Flush(h[n + 1]).done, Y \cup {f})
    <3> HIDE DEF T
    <3>1. n + 1 \in 1..Len(q)
      BY <2>1
    <3> QED
      BY <2>1, <3>1
  <2>5. Cut(Flush(h[n + 1]).done, X \cup {f})
    <3> HIDE DEF f, X, T
    <3> QED
      BY <2>2, <2>3, <2>4
  <2>6. X \cup {f} = {q[k] : k \in 1..(n + 1)}
    <3>1. 1..(n + 1) = 1..n \cup {n + 1}
      OBVIOUS
    <3> QED
      BY <3>1
  <2>7. Done(n + 1)
    <3> HIDE DEF X, f
    <3> QED
      BY <2>5, <2>6
  <2> HIDE DEF X, f, Done
  <2> QED
    BY <2>1, <2>7
<1>4. L \in T
  <2> HIDE DEF T, L
  <2>1. 0..L \subseteq T
    BY <1>1, <1>2, <1>3, BoundedSuccession
  <2> QED
    BY <1>1, <2>1
<1> QED
  BY <1>4

(* The files of a tree in the order of their directories, and the          *)
(* directories.                                                            *)
TierOf(t, f) == Tier[t.dir[f]]
PairOrder(t) ==
  {p \in InScope(t) \X InScope(t) :
     \/ TierOf(t, p[1]) < TierOf(t, p[2])
     \/ TierOf(t, p[1]) = TierOf(t, p[2]) /\ \/ t.dir[p[1]] < t.dir[p[2]]
                                             \/ t.dir[p[1]] = t.dir[p[2]] /\ p[1] < p[2]}

LEMMA TreeParts ==
  ASSUME NEW t \in Trees
  PROVE  /\ IsFiniteSet(InScope(t)) /\ InScope(t) \subseteq Int /\ InScope(t) # {}
         /\ \A f \in InScope(t) : /\ f \in Int /\ t.dir[f] \in Int /\ TierOf(t, f) \in Int
                                  /\ t.size[f] \in Int \cup {None}
<1>1. /\ IsFiniteSet(t.files) /\ t.files \subseteq Int /\ InScope(t) # {}
      /\ \A f \in InScope(t) : t.dir[f] \in Int /\ Tier[t.dir[f]] \in Int /\ t.size[f] \in Int \cup {None}
  BY AuditAssumption
<1>2. InScope(t) \in SUBSET t.files
  BY DEF InScope
<1> QED
  BY <1>1, <1>2, FS_Subset DEF TierOf

LEMMA PairStrict == ASSUME NEW t \in Trees PROVE StrictOrder(InScope(t), PairOrder(t))
<1> DEFINE S == InScope(t)
           less(x, y) == \/ TierOf(t, x) < TierOf(t, y)
                         \/ TierOf(t, x) = TierOf(t, y) /\ \/ t.dir[x] < t.dir[y]
                                                           \/ t.dir[x] = t.dir[y] /\ x < y
<1>1. \A x, y \in S : <<x, y>> \in PairOrder(t) <=> less(x, y)
  BY DEF PairOrder
<1>2. \A x \in S : x \in Int /\ t.dir[x] \in Int /\ TierOf(t, x) \in Int
  BY TreeParts
<1> HIDE DEF S
<1>3. \A x \in S : ~less(x, x)
  BY <1>2
<1>4. \A x, y \in S : x # y => less(x, y) \/ less(y, x)
  BY <1>2
<1>5. \A x, y, z \in S : less(x, y) /\ less(y, z) => less(x, z)
  <2> TAKE x \in S
  <2> TAKE y \in S
  <2> TAKE z \in S
  <2>1. /\ x \in Int /\ t.dir[x] \in Int /\ TierOf(t, x) \in Int
        /\ y \in Int /\ t.dir[y] \in Int /\ TierOf(t, y) \in Int
        /\ z \in Int /\ t.dir[z] \in Int /\ TierOf(t, z) \in Int
    BY <1>2
  <2> QED
    BY <2>1
<1> HIDE DEF less
<1> QED
  BY <1>1, <1>3, <1>4, <1>5 DEF StrictOrder, S

LEMMA PairsListed ==
  ASSUME NEW t \in Trees
  PROVE  Lists(OrderedPairs(t), InScope(t), PairOrder(t))
<1> DEFINE S == InScope(t)
           N == Cardinality(S)
           less(a, b) == LET d == t.dir[a]  e == t.dir[b]
                         IN \/ Tier[d] < Tier[e]
                            \/ Tier[d] = Tier[e] /\ (d < e \/ (d = e /\ a < b))
<1>1. \A x \in S : {y \in S : less(y, x)} = Below(S, PairOrder(t), x)
  BY DEF Below, PairOrder, TierOf
<1>2. OrderedPairs(t) = [n \in 1..N |-> CHOOSE x \in S : Cardinality({y \in S : less(y, x)}) = n - 1]
  BY DEF OrderedPairs, Ranked
<1> HIDE DEF less, S
<1>3. ASSUME NEW n \in 1..N PROVE \E x \in S : Cardinality({y \in S : less(y, x)}) = n - 1
  <2>1. StrictOrder(S, PairOrder(t)) /\ IsFiniteSet(S)
    BY PairStrict, TreeParts DEF S
  <2>2. PICK x \in S : Cardinality(Below(S, PairOrder(t), x)) = n - 1
    BY <2>1, Positions
  <2> QED
    BY <1>1, <2>2
<1>4. ASSUME NEW n \in 1..N
      PROVE  OrderedPairs(t)[n] \in S /\ Cardinality({y \in S : less(y, OrderedPairs(t)[n])}) = n - 1
  BY <1>2, <1>3
<1>5. OrderedPairs(t) \in [1..N -> S]
  BY <1>2, <1>4
<1> QED
  BY <1>1, <1>4, <1>5 DEF Lists, S

LEMMA PairsIs ==
  ASSUME NEW t \in Trees
  PROVE  /\ OrderedPairs(t) \in Seq(InScope(t)) /\ OrderedPairs(t) \in Seq(Int)
         /\ Len(OrderedPairs(t)) = Cardinality(InScope(t)) /\ Cardinality(InScope(t)) \in Nat
         /\ \A n \in 1..Len(OrderedPairs(t)) : t.size[OrderedPairs(t)[n]] \in Int \cup {None}
         /\ \A m, n \in 1..Len(OrderedPairs(t)) : OrderedPairs(t)[m] = OrderedPairs(t)[n] => m = n
         /\ \A f \in InScope(t) : \E n \in 1..Len(OrderedPairs(t)) : OrderedPairs(t)[n] = f
<1> DEFINE S == InScope(t)
           q == OrderedPairs(t)
<1>1. /\ IsFiniteSet(S) /\ S \subseteq Int /\ \A f \in S : t.size[f] \in Int \cup {None}
      /\ StrictOrder(S, PairOrder(t)) /\ Lists(q, S, PairOrder(t))
  BY TreeParts, PairStrict, PairsListed
<1> HIDE DEF S, q
<1>2. /\ Cardinality(S) \in Nat /\ q \in Seq(S) /\ Len(q) = Cardinality(S)
      /\ \A m, n \in 1..Cardinality(S) : q[m] = q[n] => m = n
      /\ \A x \in S : \E n \in 1..Cardinality(S) : q[n] = x
  BY <1>1, Listed
<1>3. q \in Seq(Int) /\ \A n \in 1..Len(q) : q[n] \in S
  BY <1>1, <1>2, SeqWider, SeqParts
<1> QED
  BY <1>1, <1>2, <1>3 DEF S, q

(* The batches of the shell's planner.                                     *)
Meta(t, c) ==
  Flush(ShellFolded(t, PositiveInt(c.maxFiles, c.defaultFiles), PositiveInt(c.maxBytes, c.defaultBytes),
                    OrderedPairs(t))).done

LEMMA MetaCut == ASSUME NEW t \in Trees, NEW c PROVE Cut(Meta(t, c), InScope(t))
<1> DEFINE mf == PositiveInt(c.maxFiles, c.defaultFiles)
           mb == PositiveInt(c.maxBytes, c.defaultBytes)
           q == OrderedPairs(t)
           L == Len(q)
<1>1. /\ q \in Seq(Int) /\ L \in Nat /\ q \in Seq(InScope(t))
      /\ \A n \in 1..L : q[n] \in Int /\ t.size[q[n]] \in Int \cup {None}
      /\ \A m, n \in 1..L : q[m] = q[n] => m = n
      /\ \A f \in InScope(t) : \E n \in 1..L : q[n] = f
      /\ \A n \in 1..L : q[n] \in InScope(t)
  BY PairsIs, SeqParts
<1> HIDE DEF q
<1>2. PICK h : ShellSteps(h, t, mf, mb, q) /\ ShellFolded(t, mf, mb, q) = h[L]
  BY <1>1, ShellFold
<1> HIDE DEF mf, mb
<1>3. h[0] = Start /\ \A n \in 0..L : h[n] \in Accs
  BY <1>2 DEF ShellSteps
<1>4. ASSUME NEW n \in 1..L, NEW X, Cut(Flush(h[n - 1]).done, X), q[n] \notin X
      PROVE  Cut(Flush(h[n]).done, X \cup {q[n]})
  <2>3. n - 1 \in 0..L
    <3>1. L \in Nat
      BY <1>1
    <3> HIDE DEF L
    <3> QED
      BY <3>1
  <2>4. h[n] = ShellPlace(t, mf, mb, h[n - 1], q[n])
    BY <1>2 DEF ShellSteps
  <2>1. n - 1 \in 0..L /\ h[n] = ShellPlace(t, mf, mb, h[n - 1], q[n])
    BY <2>3, <2>4
  <2>2. h[n - 1] \in Accs /\ q[n] \in Int /\ t.size[q[n]] \in Int \cup {None}
    BY <1>1, <1>3, <2>1
  <2> QED
    BY <1>4, <2>1, <2>2, PlaceStep
<1>5. Cut(Flush(h[L]).done, {q[k] : k \in 1..L})
  BY <1>1, <1>3, <1>4, CutFold
<1>6. {q[k] : k \in 1..L} = InScope(t)
  <2>1. \A f \in InScope(t) : f \in {q[k] : k \in 1..L}
    BY <1>1
  <2>2. \A k \in 1..L : q[k] \in InScope(t)
    BY <1>1
  <2> QED
    BY <2>1, <2>2
<1>7. Meta(t, c) = Flush(h[L]).done
  BY <1>2 DEF Meta, mf, mb, q
<1> QED
  BY <1>5, <1>6, <1>7

(* A plan whose batches partition the files S.                             *)
Parted(p, S) ==
  /\ p \in Plans /\ Size(p) # 0 /\ \A i \in 1..Size(p) : p.batches[i].id = i
  /\ \A i \in 1..Size(p) : p.batches[i].files # <<>> /\ IsInjective(p.batches[i].files)
  /\ \A i, k \in 1..Size(p) : i # k => ToSet(p.batches[i].files) \cap ToSet(p.batches[k].files) = {}
  /\ FilesIn(p, 1..Size(p)) = S
  /\ p.batchCount = Size(p) /\ p.filesInScope = Cardinality(S)

LEMMA ShellPlanIs ==
  ASSUME NEW t \in Trees, NEW c \in CapChoices
  PROVE  Kept(ShellPlan(t, c), ShellPlan(t, c)) /\ Parted(ShellPlan(t, c), InScope(t))
<1> DEFINE p == ShellPlan(t, c)
           S == InScope(t)
           meta == Meta(t, c)
           L == Len(meta)
           large == Cardinality(S) > c.threshold
           budget == IF large THEN c.firstPass ELSE None
           batch(i) == Batch(i, t.dir[meta[i][1]], meta[i], large /\ i > c.firstPass)
           bs == [i \in DOMAIN meta |-> batch(i)]
<1>1. p = [batches |-> bs, filesInScope |-> Cardinality(S), batchCount |-> Len(meta), large |-> large,
           budget |-> budget, covered |-> <<>>, admission |-> None]
  BY DEF ShellPlan, Meta, ShellFolded, Start
<1>2. Cut(meta, S)
  BY MetaCut
<1>3. c.firstPass \in Nat
  BY AuditAssumption
<1>4. /\ IsFiniteSet(S) /\ Cardinality(S) \in Nat /\ S # {}
      /\ \A f \in S : t.dir[f] \in Int /\ Tier[t.dir[f]] \in Int
  BY TreeParts, FS_CardinalityType DEF TierOf
<1> HIDE DEF p, meta, S
<1>5. L \in Nat /\ DOMAIN meta = 1..L /\ \A i \in 1..L : meta[i] \in Seq(Int) /\ meta[i] # <<>>
  BY <1>2 DEF Cut
<1>6. \A i \in 1..L : ToSet(meta[i]) \subseteq S /\ meta[i][1] \in S
  <2> TAKE i \in 1..L
  <2>1. ToSet(meta[i]) \subseteq S
    BY <1>2 DEF Cut
  <2>2. Len(meta[i]) \in Nat /\ Len(meta[i]) # 0
    BY <1>5
  <2>3. 1 \in DOMAIN meta[i]
    BY <1>5, <2>2
  <2> QED
    BY <2>1, <2>3 DEF ToSet
<1>7. large \in BOOLEAN
  OBVIOUS
<1> HIDE DEF large
<1>8. \A i \in 1..L : /\ batch(i) \in Batches /\ batch(i).id = i /\ batch(i).files = meta[i]
                      /\ batch(i).deferred = (large /\ i > c.firstPass)
  <2> TAKE i \in 1..L
  <2> DEFINE d == t.dir[meta[i][1]]
             deferred == large /\ i > c.firstPass
  <2>1. Tier[d] \in Int /\ i \in Nat /\ meta[i] \in Seq(Int) /\ deferred \in BOOLEAN
    BY <1>4, <1>5, <1>6, <1>7
  <2> HIDE DEF d, deferred
  <2>2. /\ Batch(i, d, meta[i], deferred) \in Batches /\ Batch(i, d, meta[i], deferred).id = i
        /\ Batch(i, d, meta[i], deferred).files = meta[i]
        /\ Batch(i, d, meta[i], deferred).deferred = deferred
    BY <2>1 DEF Batch, Batches
  <2> QED
    BY <2>2 DEF d, deferred
<1> HIDE DEF batch
<1>9. bs \in Seq(Batches) /\ Len(bs) = L /\ \A i \in 1..L : bs[i] = batch(i)
  <2>1. bs \in [1..L -> Batches]
    BY <1>5, <1>8
  <2>2. \A i \in 1..L : bs[i] = batch(i)
    BY <1>5
  <2> HIDE DEF bs, L
  <2> QED
    BY <1>5, <2>1, <2>2
<1> HIDE DEF bs
<1>10. budget \in Nat \cup {None}
  BY <1>3
<1> HIDE DEF budget
<1>11. p \in Plans
  <2>1. <<>> \in Seq(Nat)
    OBVIOUS
  <2> QED
    BY <1>1, <1>4, <1>5, <1>7, <1>9, <1>10, <2>1 DEF Plans
<1>12. /\ p.batches = bs /\ p.filesInScope = Cardinality(S) /\ p.batchCount = L /\ p.large = large
       /\ p.budget = budget /\ p.covered = <<>> /\ p.admission = None
  BY <1>1
<1>13. Size(p) = L
  BY <1>9, <1>12 DEF Size
<1>14. \A i \in 1..L : p.batches[i].id = i /\ p.batches[i].files = meta[i] /\ p.batches[i].deferred = (large /\ i > c.firstPass)
  BY <1>8, <1>9, <1>12
<1> HIDE <1>1, <1>9
<1>15. Same(p, p)
  BY <1>11, <1>13, <1>14 DEF Same
<1>16. Kept(p, p)
  <2>1. <<>> \in Seq(1..L) /\ IsInjective(<<>>) /\ ToSet(<<>>) = {}
    BY DEF IsInjective, ToSet
  <2>2. large => budget = c.firstPass
    BY DEF budget
  <2>3. ~large => \A i \in 1..L : ~p.batches[i].deferred
    BY <1>14
  <2>4. large => \A i \in 1..L : p.batches[i].deferred = (p.batches[i].id > p.budget)
    BY <1>12, <1>14, <2>2
  <2> QED
    BY <1>3, <1>12, <1>13, <1>15, <2>1, <2>2, <2>3, <2>4 DEF Kept
<1>17. FilesIn(p, 1..L) = S
  <2>1. \A i \in 1..L : ToSet(p.batches[i].files) = ToSet(meta[i])
    BY <1>14
  <2>2. S = UNION {ToSet(meta[i]) : i \in 1..L}
    BY <1>2 DEF Cut
  <2> QED
    BY <2>1, <2>2 DEF FilesIn
<1>18. L # 0
  <2>1. CASE L = 0
    <3>1. 1..L = {}
      BY <2>1
    <3> QED
      BY <1>4, <1>17, <3>1 DEF FilesIn
  <2> QED
    BY <2>1
<1>19. Parted(p, S)
  <2>1. \A i \in 1..L : meta[i] # <<>> /\ IsInjective(meta[i])
    BY <1>2 DEF Cut
  <2>2. \A i, k \in 1..L : i # k => ToSet(meta[i]) \cap ToSet(meta[k]) = {}
    BY <1>2 DEF Cut
  <2>3. \A i \in 1..L : p.batches[i].files # <<>> /\ IsInjective(p.batches[i].files)
    BY <1>14, <2>1
  <2>4. \A i, k \in 1..L : i # k => ToSet(p.batches[i].files) \cap ToSet(p.batches[k].files) = {}
    BY <1>14, <2>2
  <2> QED
    BY <1>11, <1>12, <1>13, <1>14, <1>17, <1>18, <2>3, <2>4 DEF Parted
<1> QED
  BY <1>16, <1>19 DEF p, S

(* A flattened sequence is joined from the left.                           *)
Joins(h, s, X) ==
  /\ h \in [0..Len(s) -> Seq(X)]
  /\ h[0] = <<>> /\ (\A n \in 1..Len(s) : h[n] = h[n - 1] \o s[n]) /\ FlattenSeq(s) = h[Len(s)]

LEMMA FlattenIs ==
  ASSUME NEW X, NEW s \in Seq(Seq(X)), Len(s) # 0
  PROVE  \E h : Joins(h, s, X)
<1> DEFINE L == Len(s)
           A == Seq(X)
           g == [x \in Nat \X A |-> IF x[1] \in 1..L THEN x[2] \o s[x[1]] ELSE x[2]]
           fold == CHOOSE f : f = [n \in 1..L |-> IF n = 1 THEN s[n] ELSE f[n - 1] \o s[n]]
<1>1. L \in Nat /\ L # 0 /\ \A n \in 1..L : s[n] \in A
  OBVIOUS
<1>2. \A a, b \in A : a \o b \in A
  OBVIOUS
<1>3. \A a \in A : <<>> \o a = a
  OBVIOUS
<1>4. <<>> \in A
  OBVIOUS
<1>5. FlattenSeq(s) = fold[L]
  BY <1>1 DEF FlattenSeq
<1> HIDE DEF A
<1>6. \A n \in Nat : \A a \in A : g[<<n, a>>] \in A
  BY <1>1, <1>2
<1>7. PICK f \in [0..L -> A] : f[0] = <<>> /\ \A n \in 1..L : f[n] = g[<<n, f[n - 1]>>]
  <2> HIDE DEF g, L, fold
  <2>1. \E f \in [0..L -> A] : Steps(f, L, <<>>, g)
    BY <1>1, <1>4, <1>6, Recursion
  <2> QED
    BY <2>1 DEF Steps
<1>8. ASSUME NEW n \in 1..L PROVE f[n] = f[n - 1] \o s[n]
  <2>1. n - 1 \in 0..L
    OBVIOUS
  <2>2. f[n - 1] \in A /\ n \in Nat
    <3>1. n \in Nat
      BY <1>1
    <3> HIDE DEF L
    <3> QED
      BY <2>1, <3>1
  <2>3. g[<<n, f[n - 1]>>] = f[n - 1] \o s[n]
    BY <2>2
  <2> HIDE DEF g, L, fold
  <2> QED
    BY <1>7, <2>3
<1> HIDE DEF g
<1> DEFINE e == [n \in 1..L |-> f[n]]
<1>9. e = [n \in 1..L |-> IF n = 1 THEN s[n] ELSE e[n - 1] \o s[n]]
  <2>1. ASSUME NEW n \in 1..L PROVE f[n] = IF n = 1 THEN s[n] ELSE e[n - 1] \o s[n]
    <3>1. CASE n = 1
      <4>1. f[n] = f[n - 1] \o s[n] /\ s[n] \in A
        BY <1>1, <1>8
      <4>2. f[n - 1] = <<>>
        BY <1>7, <3>1
      <4>3. f[n] = s[n]
        BY <1>3, <4>1, <4>2
      <4> QED
        BY <3>1, <4>3
    <3>2. CASE n # 1
      <4>1. n - 1 \in 1..L
        BY <1>1, <3>2
      <4>2. e[n - 1] = f[n - 1]
        BY <4>1
      <4> HIDE DEF e
      <4> QED
        BY <1>8, <3>2, <4>2
    <3> QED
      BY <3>1, <3>2
  <2> HIDE DEF L, fold
  <2> QED
    BY <2>1
<1>10. fold = [n \in 1..L |-> IF n = 1 THEN s[n] ELSE fold[n - 1] \o s[n]]
  <2> HIDE DEF e
  <2> QED
    BY <1>9
<1> HIDE DEF fold
<1> DEFINE T == {n \in Nat : n + 1 <= L => fold[n + 1] = f[n + 1]}
<1>11. 0 \in T
  <2>1. 1 \in 1..L /\ 0 + 1 = 1
    BY <1>1
  <2>2. fold[1] = s[1]
    BY <1>10, <2>1
  <2>3. f[1] = s[1]
    <3>1. f[1] = f[1 - 1] \o s[1] /\ s[1] \in A
      BY <1>1, <1>8, <2>1
    <3>2. f[1 - 1] = <<>>
      BY <1>7
    <3> QED
      BY <1>3, <3>1, <3>2
  <2> QED
    BY <2>1, <2>2, <2>3
<1>12. ASSUME NEW n \in Nat, n \in T PROVE n + 1 \in T
  <2> SUFFICES ASSUME (n + 1) + 1 <= L PROVE fold[(n + 1) + 1] = f[(n + 1) + 1]
    OBVIOUS
  <2>1. n + 1 <= L /\ (n + 1) + 1 \in 1..L /\ (n + 1) + 1 # 1 /\ ((n + 1) + 1) - 1 = n + 1
    BY <1>1
  <2>2. fold[n + 1] = f[n + 1]
    BY <1>12, <2>1
  <2> DEFINE m == (n + 1) + 1
  <2> HIDE DEF T
  <2>3. fold[m] = fold[m - 1] \o s[m]
    BY <1>10, <2>1
  <2>4. f[m] = f[m - 1] \o s[m]
    BY <1>8, <2>1
  <2> QED
    BY <2>1, <2>2, <2>3, <2>4
<1>13. fold[L] = f[L]
  <2> HIDE DEF T, L
  <2>1. Nat \subseteq T
    BY <1>11, <1>12, Succession
  <2>2. L - 1 \in T /\ (L - 1) + 1 = L
    BY <1>1, <2>1
  <2> QED
    BY <1>1, <2>2 DEF T
<1> QED
  BY <1>5, <1>7, <1>8, <1>13 DEF A, Joins

(* Directories.                                                            *)
Dirs(t) == {t.dir[f] : f \in InScope(t)}
InDir(t, d) == {f \in InScope(t) : t.dir[f] = d}
DirOrder(t) == {p \in Dirs(t) \X Dirs(t) : Tier[p[1]] < Tier[p[2]] \/ (Tier[p[1]] = Tier[p[2]] /\ p[1] < p[2])}

LEMMA DirsIs ==
  ASSUME NEW t \in Trees
  PROVE  /\ IsFiniteSet(Dirs(t)) /\ Dirs(t) # {} /\ \A d \in Dirs(t) : d \in Int /\ Tier[d] \in Int
         /\ StrictOrder(Dirs(t), DirOrder(t)) /\ Lists(OrderedDirs(t), Dirs(t), DirOrder(t))
<1> DEFINE S == InScope(t)
           D == Dirs(t)
           N == Cardinality(D)
           R == DirOrder(t)
           less(a, b) == Tier[a] < Tier[b] \/ (Tier[a] = Tier[b] /\ a < b)
           at == [f \in S |-> t.dir[f]]
<1>1. IsFiniteSet(S) /\ S # {} /\ \A f \in S : t.dir[f] \in Int /\ Tier[t.dir[f]] \in Int
  BY TreeParts DEF TierOf
<1>2. IsFiniteSet(D) /\ D # {}
  <2>1. D = {at[f] : f \in S}
    BY DEF Dirs
  <2> HIDE DEF at, S, D
  <2> QED
    BY <1>1, <2>1, ImageFinite
<1>3. \A d \in D : d \in Int /\ Tier[d] \in Int
  BY <1>1 DEF Dirs
<1>4. \A x, y \in D : <<x, y>> \in R <=> less(x, y)
  BY DEF DirOrder
<1> HIDE DEF D, R
<1>5. StrictOrder(D, R)
  <2>1. \A x \in D : ~less(x, x)
    BY <1>3
  <2>2. \A x, y \in D : x # y => less(x, y) \/ less(y, x)
    BY <1>3
  <2>3. \A x, y, z \in D : less(x, y) /\ less(y, z) => less(x, z)
    <3> TAKE x \in D
    <3> TAKE y \in D
    <3> TAKE z \in D
    <3>1. x \in Int /\ Tier[x] \in Int /\ y \in Int /\ Tier[y] \in Int /\ z \in Int /\ Tier[z] \in Int
      BY <1>3
    <3> QED
      BY <3>1
  <2> HIDE DEF less
  <2> QED
    BY <1>4, <2>1, <2>2, <2>3 DEF StrictOrder
<1>6. \A x \in D : {y \in D : less(y, x)} = Below(D, R, x)
  BY <1>4 DEF Below
<1>7. OrderedDirs(t) = [n \in 1..N |-> CHOOSE x \in D : Cardinality({y \in D : less(y, x)}) = n - 1]
  BY DEF OrderedDirs, Ranked, D, Dirs
<1> HIDE DEF less
<1>8. ASSUME NEW n \in 1..N PROVE \E x \in D : Cardinality({y \in D : less(y, x)}) = n - 1
  <2>1. PICK x \in D : Cardinality(Below(D, R, x)) = n - 1
    BY <1>2, <1>5, Positions
  <2> QED
    BY <1>6, <2>1
<1>9. ASSUME NEW n \in 1..N
      PROVE  OrderedDirs(t)[n] \in D /\ Cardinality({y \in D : less(y, OrderedDirs(t)[n])}) = n - 1
  BY <1>7, <1>8
<1>10. OrderedDirs(t) \in [1..N -> D]
  BY <1>7, <1>9
<1>11. Lists(OrderedDirs(t), D, R)
  BY <1>6, <1>9, <1>10 DEF Lists
<1> QED
  BY <1>2, <1>3, <1>5, <1>11 DEF D, R

LEMMA InDirIs ==
  ASSUME NEW t \in Trees, NEW d
  PROVE  LET q == InOrder(InDir(t, d)) IN
         /\ Lists(q, InDir(t, d), Ascending) /\ StrictOrder(InDir(t, d), Ascending)
         /\ q \in Seq(Int) /\ Len(q) = Cardinality(InDir(t, d)) /\ Len(q) \in Nat /\ IsFiniteSet(InDir(t, d))
         /\ \A k \in 1..Len(q) : /\ q[k] \in InDir(t, d) /\ q[k] \in Int
                                 /\ t.size[q[k]] \in Int \cup {None} /\ t.dir[q[k]] = d
         /\ \A j, k \in 1..Len(q) : q[j] = q[k] => j = k
         /\ {q[k] : k \in 1..Len(q)} = InDir(t, d)
<1> DEFINE F == InDir(t, d)
           q == InOrder(F)
<1>1. F \in SUBSET InScope(t) /\ \A f \in F : t.dir[f] = d
  BY DEF InDir
<1> HIDE DEF F
<1>2. IsFiniteSet(F) /\ F \subseteq Int /\ \A f \in F : t.size[f] \in Int \cup {None}
  BY <1>1, TreeParts, FS_Subset
<1>3. Lists(q, F, Ascending) /\ StrictOrder(F, Ascending)
  BY <1>2, InOrderLists, AscendingStrict
<1> HIDE DEF q
<1>4. /\ Cardinality(F) \in Nat /\ q \in Seq(F) /\ Len(q) = Cardinality(F)
      /\ \A m, n \in 1..Cardinality(F) : q[m] = q[n] => m = n
      /\ \A x \in F : \E n \in 1..Cardinality(F) : q[n] = x
  BY <1>2, <1>3, Listed
<1>5. q \in Seq(Int) /\ \A k \in 1..Len(q) : q[k] \in F
  BY <1>2, <1>4, SeqWider, SeqParts
<1>6. {q[k] : k \in 1..Len(q)} = F
  BY <1>4, <1>5
<1> QED
  BY <1>1, <1>2, <1>3, <1>4, <1>5, <1>6 DEF F, q

(* The files of the first n directories, and the place of the next ones.   *)
Earlier(t, n) == {f \in InScope(t) : \E j \in 1..n : t.dir[f] = OrderedDirs(t)[j]}
Offset(t, n) == Cardinality(Earlier(t, n))

LEMMA DirsParts ==
  ASSUME NEW t \in Trees
  PROVE  LET dirs == OrderedDirs(t) IN
         /\ dirs \in Seq(Int) /\ Len(dirs) = Cardinality(Dirs(t)) /\ Len(dirs) \in Nat /\ Len(dirs) # 0
         /\ \A i \in 1..Len(dirs) : dirs[i] \in Dirs(t)
         /\ \A i, j \in 1..Len(dirs) : dirs[i] = dirs[j] => i = j
         /\ \A i, j \in 1..Len(dirs) : <<dirs[i], dirs[j]>> \in DirOrder(t) <=> i < j
         /\ \A f \in InScope(t) : \E i \in 1..Len(dirs) : dirs[i] = t.dir[f]
<1> DEFINE dirs == OrderedDirs(t)
           D == Dirs(t)
           N == Cardinality(D)
           R == DirOrder(t)
<1>1. /\ IsFiniteSet(D) /\ D # {} /\ D \subseteq Int /\ StrictOrder(D, R) /\ Lists(dirs, D, R)
  BY DirsIs
<1>2. \A f \in InScope(t) : t.dir[f] \in D
  BY DEF Dirs
<1> HIDE DEF dirs, D, R
<1>3. /\ N \in Nat /\ dirs \in Seq(D) /\ Len(dirs) = N
      /\ \A m, n \in 1..N : m < n => <<dirs[m], dirs[n]>> \in R
      /\ \A m, n \in 1..N : dirs[m] = dirs[n] => m = n
      /\ \A x \in D : \E n \in 1..N : dirs[n] = x
  BY <1>1, Listed
<1>4. dirs \in Seq(Int) /\ \A i \in 1..N : dirs[i] \in D
  BY <1>1, <1>3, SeqWider, SeqParts
<1>5. N # 0
  <2>1. PICK x \in D : TRUE
    BY <1>1
  <2>2. PICK n \in 1..N : dirs[n] = x
    BY <1>3
  <2> QED
    BY <1>3, <2>2
<1>6. ASSUME NEW i \in 1..N, NEW j \in 1..N PROVE <<dirs[i], dirs[j]>> \in R <=> i < j
  <2>1. CASE i < j
    BY <1>3, <2>1
  <2>2. CASE i = j
    <3>1. ~(i < j)
      BY <1>3, <2>2
    <3>2. <<dirs[i], dirs[j]>> \notin R
      BY <1>1, <1>4, <2>2 DEF StrictOrder
    <3> QED
      BY <3>1, <3>2
  <2>3. CASE j < i
    <3>1. <<dirs[j], dirs[i]>> \in R /\ dirs[i] \in D /\ dirs[j] \in D
      BY <1>3, <1>4, <2>3
    <3>2. <<dirs[i], dirs[j]>> \notin R
      BY <1>1, <3>1 DEF StrictOrder
    <3> QED
      BY <1>3, <2>3, <3>2
  <2> QED
    BY <1>3, <2>1, <2>2, <2>3
<1> QED
  BY <1>2, <1>3, <1>4, <1>5, <1>6 DEF dirs, D, R

LEMMA OffsetIs ==
  ASSUME NEW t \in Trees
  PROVE  LET dirs == OrderedDirs(t) IN
         /\ Offset(t, 0) = 0 /\ Offset(t, Len(dirs)) = Cardinality(InScope(t))
         /\ \A n \in 0..Len(dirs) : IsFiniteSet(Earlier(t, n)) /\ Offset(t, n) \in Nat
         /\ \A n \in 1..Len(dirs) : /\ Offset(t, n) = Offset(t, n - 1) + Cardinality(InDir(t, dirs[n]))
                                    /\ Earlier(t, n - 1) \cap InDir(t, dirs[n]) = {}
<1> DEFINE dirs == OrderedDirs(t)
           K == Len(dirs)
           S == InScope(t)
<1>1. /\ K \in Nat /\ (\A i, j \in 1..K : dirs[i] = dirs[j] => i = j)
      /\ \A f \in S : \E i \in 1..K : dirs[i] = t.dir[f]
  BY DirsParts
<1>2. IsFiniteSet(S)
  BY TreeParts
<1>3. \A n : Earlier(t, n) = {f \in S : \E j \in 1..n : t.dir[f] = dirs[j]}
  BY DEF Earlier
<1>4. \A d : InDir(t, d) = {f \in S : t.dir[f] = d}
  BY DEF InDir
<1> HIDE DEF dirs, S
<1>5. \A n \in 0..K : Earlier(t, n) \in SUBSET S
  BY <1>3
<1>6. \A n \in 0..K : IsFiniteSet(Earlier(t, n)) /\ Offset(t, n) \in Nat
  BY <1>2, <1>5, FS_Subset, FS_CardinalityType DEF Offset
<1>7. Earlier(t, 0) = {}
  BY <1>3
<1>8. Earlier(t, K) = S
  <2>1. \A f \in S : \E j \in 1..K : t.dir[f] = dirs[j]
    <3> TAKE f \in S
    <3>1. PICK i \in 1..K : dirs[i] = t.dir[f]
      BY <1>1
    <3> QED
      BY <3>1
  <2>2. \A f : f \in Earlier(t, K) <=> f \in S
    BY <1>3, <2>1
  <2> HIDE DEF S
  <2> QED
    BY <2>2
<1>9. ASSUME NEW n \in 1..K
      PROVE  /\ Offset(t, n) = Offset(t, n - 1) + Cardinality(InDir(t, dirs[n]))
             /\ Earlier(t, n - 1) \cap InDir(t, dirs[n]) = {}
  <2> DEFINE E == Earlier(t, n - 1)
             F == InDir(t, dirs[n])
  <2>1. n - 1 \in 0..K /\ 1..n = 1..(n - 1) \cup {n}
    BY <1>1
  <2>2. IsFiniteSet(E)
    BY <1>6, <2>1
  <2>3. IsFiniteSet(F)
    <3>1. F \in SUBSET S
      BY <1>4
    <3> QED
      BY <1>2, <3>1, FS_Subset
  <2>4. E \cap F = {}
    <3> SUFFICES ASSUME NEW f \in E, f \in F PROVE FALSE
      OBVIOUS
    <3>1. PICK j \in 1..(n - 1) : t.dir[f] = dirs[j]
      BY <1>3
    <3>2. dirs[j] = dirs[n]
      BY <1>4, <3>1
    <3>3. j \in 1..K /\ j # n
      BY <1>1
    <3> QED
      BY <1>1, <3>2, <3>3
  <2>5. Earlier(t, n) = E \cup F
    BY <1>3, <1>4, <2>1
  <2> HIDE DEF E, F
  <2>6. Cardinality(E \cup F) = Cardinality(E) + Cardinality(F) - Cardinality(E \cap F)
    BY <2>2, <2>3, FS_Union
  <2>7. Cardinality(E) \in Nat /\ Cardinality(F) \in Nat /\ Cardinality(E \cap F) = 0
    BY <2>2, <2>3, <2>4, FS_CardinalityType, FS_EmptySet
  <2>8. Cardinality(E \cup F) = Cardinality(E) + Cardinality(F)
    BY <2>6, <2>7
  <2> QED
    BY <2>4, <2>5, <2>8 DEF Offset, E, F
<1> QED
  BY <1>6, <1>7, <1>8, <1>9, FS_EmptySet DEF Offset, dirs, S

LEMMA PairsByDir ==
  ASSUME NEW t \in Trees, NEW n \in 1..Len(OrderedDirs(t))
  PROVE  LET q == InOrder(InDir(t, OrderedDirs(t)[n])) IN
         \A k \in 1..Len(q) : /\ Offset(t, n - 1) + k \in 1..Len(OrderedPairs(t))
                              /\ OrderedPairs(t)[Offset(t, n - 1) + k] = q[k]
<1> DEFINE dirs == OrderedDirs(t)
           K == Len(dirs)
           S == InScope(t)
           d == dirs[n]
           F == InDir(t, d)
           E == Earlier(t, n - 1)
           q == InOrder(F)
           P == OrderedPairs(t)
           R == PairOrder(t)
<1> SUFFICES ASSUME NEW k \in 1..Len(q) PROVE Offset(t, n - 1) + k \in 1..Len(P) /\ P[Offset(t, n - 1) + k] = q[k]
  OBVIOUS
<1> DEFINE f == q[k]
<1>1. /\ K \in Nat /\ \A i \in 1..K : dirs[i] \in Dirs(t)
      /\ \A i, j \in 1..K : <<dirs[i], dirs[j]>> \in DirOrder(t) <=> i < j
      /\ \A g \in S : \E i \in 1..K : dirs[i] = t.dir[g]
      /\ \A i, j \in 1..K : dirs[i] = dirs[j] => i = j
  BY DirsParts
<1>2. /\ Lists(q, F, Ascending) /\ Len(q) = Cardinality(F) /\ Len(q) \in Nat
      /\ f \in F /\ f \in Int /\ t.dir[f] = d /\ IsFiniteSet(F) /\ StrictOrder(F, Ascending)
  BY InDirIs
<1>3. n - 1 \in 0..K /\ n \in 1..K
  BY <1>1
<1>4. IsFiniteSet(E) /\ Offset(t, n - 1) \in Nat /\ E \cap F = {}
  BY <1>3, OffsetIs
<1>5. f \in S /\ F \subseteq S /\ \A g \in F : t.dir[g] = d
  BY <1>2 DEF InDir
<1>6. Below(S, R, f) = E \cup Below(F, Ascending, f)
  <2>1. ASSUME NEW g \in S
        PROVE  <<g, f>> \in R <=> \/ <<t.dir[g], d>> \in DirOrder(t)
                                  \/ t.dir[g] = d /\ <<g, f>> \in Ascending
    <3>1. t.dir[g] \in Dirs(t) /\ d \in Dirs(t) /\ g \in Int /\ t.dir[g] \in Int /\ d \in Int
      BY <1>2, <1>5, <2>1, TreeParts DEF Dirs
    <3>2. <<t.dir[g], d>> \in DirOrder(t) <=> Tier[t.dir[g]] < Tier[d] \/ (Tier[t.dir[g]] = Tier[d] /\ t.dir[g] < d)
      BY <3>1 DEF DirOrder
    <3>3. <<g, f>> \in Ascending <=> g < f
      BY <1>2, <3>1 DEF Ascending
    <3>4. <<g, f>> \in R <=> \/ Tier[t.dir[g]] < Tier[d]
                             \/ Tier[t.dir[g]] = Tier[d] /\ (t.dir[g] < d \/ (t.dir[g] = d /\ g < f))
      <4> HIDE DEF d
      <4> QED
        BY <1>2, <1>5, <2>1 DEF PairOrder, TierOf
    <3>5. Tier[t.dir[g]] \in Int /\ Tier[d] \in Int
      BY <3>1, DirsIs
    <3> HIDE DEF d, f, R
    <3> QED
      BY <3>1, <3>2, <3>3, <3>4, <3>5
  <2>2. ASSUME NEW g \in S PROVE <<t.dir[g], d>> \in DirOrder(t) <=> g \in E
    <3>1. PICK i \in 1..K : dirs[i] = t.dir[g]
      BY <1>1
    <3>2. <<t.dir[g], d>> \in DirOrder(t) <=> i < n
      BY <1>1, <1>3, <3>1
    <3>3. g \in E <=> \E j \in 1..(n - 1) : t.dir[g] = dirs[j]
      BY <2>2 DEF Earlier
    <3>4. (\E j \in 1..(n - 1) : t.dir[g] = dirs[j]) <=> i \in 1..(n - 1)
      <4>1. \A j \in 1..(n - 1) : j \in 1..K
        BY <1>1
      <4> QED
        BY <1>1, <3>1, <4>1
    <3>5. i \in 1..(n - 1) <=> i < n
      BY <1>1
    <3> QED
      BY <3>2, <3>3, <3>4, <3>5
  <2>3. \A g \in S : t.dir[g] = d <=> g \in F
    BY DEF InDir
  <2>4. E \subseteq S
    BY DEF Earlier
  <2> HIDE DEF S, R, d, E, F, f
  <2> QED
    BY <1>5, <2>1, <2>2, <2>3, <2>4 DEF Below
<1>7. Cardinality(Below(F, Ascending, f)) = k - 1 /\ IsFiniteSet(Below(F, Ascending, f))
  <2>1. k \in 1..Cardinality(F)
    BY <1>2
  <2> QED
    BY <1>2, <2>1, BelowGrows DEF Lists
<1>8. Cardinality(Below(S, R, f)) = Offset(t, n - 1) + (k - 1)
  <2> DEFINE B == Below(F, Ascending, f)
  <2>1. E \cap B = {}
    BY <1>4 DEF Below
  <2> HIDE DEF B, E
  <2>2. Cardinality(E \cup B) = Cardinality(E) + Cardinality(B) - Cardinality(E \cap B)
    BY <1>4, <1>7, FS_Union DEF B
  <2>3. Cardinality(E \cap B) = 0 /\ Cardinality(E) = Offset(t, n - 1) /\ Cardinality(B) = k - 1
    BY <1>7, <2>1, FS_EmptySet DEF Offset, B, E
  <2>4. k - 1 \in Int
    OBVIOUS
  <2> HIDE DEF S, R, f
  <2> QED
    BY <1>4, <1>6, <2>2, <2>3, <2>4 DEF B
<1>9. PICK m \in 1..Len(P) : P[m] = f
  BY <1>5, PairsIs
<1>10. Len(P) = Cardinality(S) /\ Len(P) \in Nat /\ Cardinality(Below(S, R, P[m])) = m - 1
  BY PairsIs, PairsListed DEF Lists
<1>11. m = Offset(t, n - 1) + k
  <2>1. m - 1 = Offset(t, n - 1) + (k - 1)
    BY <1>8, <1>9, <1>10
  <2>2. m \in Int /\ k \in Int
    BY <1>2, <1>10
  <2> QED
    BY <1>4, <2>1, <2>2
<1> QED
  BY <1>9, <1>11

(* The shell's planner, in the midst of its files, has closed the batches  *)
(* pre of the directories before E's last and is at acc in the directory   *)
(* d where the planner by directories is at w.                             *)
Follows(t, a, w, pre, E, d) ==
  /\ a \in Accs /\ w \in Accs
  /\ Flush(a).done = pre \o Flush(w).done
  /\ \/ /\ w.current # <<>> /\ a.current = w.current /\ a.bytes = w.bytes /\ a.done = pre \o w.done
        /\ t.dir[Last(a.current)] = d
     \/ w.current = <<>> /\ w.bytes = 0 /\ a.current = <<>> /\ a.bytes = 0
     \/ w.current = <<>> /\ w.bytes = 0 /\ a.current # <<>> /\ t.dir[Last(a.current)] \in E

LEMMA AppendJoin ==
  ASSUME NEW p \in Seq(Seq(Int)), NEW s \in Seq(Seq(Int)), NEW x \in Seq(Int)
  PROVE  Append(p \o s, x) = p \o Append(s, x)
<1> DEFINE X == Seq(Int)
<1>7. p \in Seq(X) /\ s \in Seq(X) /\ x \in X
  OBVIOUS
<1> HIDE DEF X
<1> DEFINE l == Append(p \o s, x)
           r == p \o Append(s, x)
           N == Len(p) + Len(s) + 1
<1>1. Len(p) \in Nat /\ Len(s) \in Nat /\ DOMAIN s = 1..Len(s)
  BY <1>7
<1>2. l \in Seq(X) /\ r \in Seq(X) /\ Len(l) = N /\ Len(r) = N
  BY <1>7
<1>3. \A i \in 1..N : l[i] = r[i]
  BY <1>7
<1>4. l = [i \in 1..N |-> l[i]] /\ r = [i \in 1..N |-> r[i]]
  <2> HIDE DEF l, r, N
  <2>1. \A u \in Seq(X) : u = [i \in 1..Len(u) |-> u[i]]
    OBVIOUS
  <2> QED
    BY <1>2, <2>1
<1> HIDE DEF l, r, N
<1>5. [i \in 1..N |-> l[i]] = [i \in 1..N |-> r[i]]
  BY <1>3
<1>6. l = r
  BY <1>4, <1>5
<1> QED
  BY <1>6 DEF l, r

LEMMA LastIs == \A X : \A q \in Seq(X) : \A x \in X : Last(Append(q, x)) = x
BY DEF Last

LEMMA BytesAre ==
  ASSUME NEW t, NEW acc \in Accs, NEW f \in Int, t.size[f] \in Int \cup {None}
  PROVE  /\ Alone(acc, f).bytes = 0
         /\ acc.current # <<>> \/ acc.bytes = 0 => Flush(acc).bytes = 0
         /\ acc.current # <<>> \/ acc.bytes = 0 => Opened(t, acc, f).bytes = 0 + t.size[f]
         /\ Joined(t, acc, f).bytes = acc.bytes + t.size[f]
<1>1. acc.current # <<>> \/ acc.bytes = 0 => Flush(acc).bytes = 0
  BY DEF Flush
<1>2. Alone(acc, f).bytes = 0
  <2>1. <<f>> # <<>>
    BY Single
  <2> QED
    BY <2>1 DEF Alone, Acc, Flush
<1> QED
  BY <1>1, <1>2 DEF Opened, Joined, Acc

LEMMA FollowsOn ==
  ASSUME NEW t, NEW mf, NEW mb, NEW pre \in Seq(Seq(Int)), NEW E, NEW d, d \notin E,
         NEW f \in Int, t.size[f] \in Int \cup {None}, t.dir[f] = d, NEW a, NEW w, Follows(t, a, w, pre, E, d)
  PROVE  Follows(t, ShellPlace(t, mf, mb, a, f), Place(t, mf, mb, w, f), pre, E, d)
<1> DEFINE b == ShellPlace(t, mf, mb, a, f)
           v == Place(t, mf, mb, w, f)
<1>1. a \in Accs /\ w \in Accs /\ Flush(a).done = pre \o Flush(w).done
  BY DEF Follows
<1>2. /\ b = IF Isolated(t, mb, f) THEN Alone(a, f)
             ELSE IF Elsewhere(t, a, f) \/ Crowded(t, mf, mb, a, f) THEN Opened(t, a, f)
             ELSE Joined(t, a, f)
      /\ v = IF Isolated(t, mb, f) THEN Alone(w, f)
             ELSE IF Crowded(t, mf, mb, w, f) THEN Opened(t, w, f)
             ELSE Joined(t, w, f)
  BY <1>1, PlacedIs
<1> HIDE DEF b, v
<1>3. /\ Flush(w).done \in Seq(Seq(Int)) /\ w.done \in Seq(Seq(Int)) /\ a.done \in Seq(Seq(Int))
      /\ a.current \in Seq(Int) /\ w.current \in Seq(Int) /\ a.bytes \in Int /\ w.bytes \in Int
      /\ <<f>> \in Seq(Int) /\ <<f>> # <<>> /\ Last(<<f>>) = f /\ Append(<<>>, f) = <<f>>
  BY <1>1, FlushIs, Single DEF Accs
<1>4. \A ds \in Seq(Seq(Int)) : \A c \in Seq(Int) : Append(pre \o ds, c) = pre \o Append(ds, c)
  <2> TAKE ds \in Seq(Seq(Int))
  <2> TAKE c \in Seq(Int)
  <2> QED
    BY AppendJoin
<1>5. Append(Flush(a).done, <<f>>) = pre \o Append(Flush(w).done, <<f>>)
  BY <1>1, <1>3, <1>4
<1>6. CASE Isolated(t, mb, f)
  <2>1. b = Alone(a, f) /\ v = Alone(w, f)
    BY <1>2, <1>6
  <2>2. /\ b \in Accs /\ b.current = <<>> /\ b.bytes = 0 /\ Flush(b).done = Append(Flush(a).done, <<f>>)
        /\ v \in Accs /\ v.current = <<>> /\ v.bytes = 0 /\ Flush(v).done = Append(Flush(w).done, <<f>>)
    <3>1. IsAlone(b, a, f) /\ IsAlone(v, w, f)
      BY <1>1, <2>1, PlacesTyped, Zenon
    <3> QED
      BY <1>1, <2>1, <3>1, BytesAre DEF IsAlone
  <2> QED
    BY <1>5, <2>2 DEF Follows, b, v
<1>7. CASE ~Isolated(t, mb, f)
  <2>1. Sized(t, f)
    BY <1>7 DEF Isolated, Sized
  <2>2. \A acc \in Accs :
          /\ Opened(t, acc, f) \in Accs /\ Opened(t, acc, f).current = <<f>>
          /\ Opened(t, acc, f).done = Flush(acc).done
          /\ Flush(Opened(t, acc, f)).done = Append(Flush(acc).done, <<f>>)
          /\ Joined(t, acc, f) \in Accs /\ Joined(t, acc, f).current = Append(acc.current, f)
          /\ Joined(t, acc, f).done = acc.done
          /\ Flush(Joined(t, acc, f)).done = Append(acc.done, Append(acc.current, f))
    <3> TAKE acc \in Accs
    <3>1. IsOpened(Opened(t, acc, f), acc, f) /\ IsJoined(Joined(t, acc, f), acc, f)
      BY <2>1, PlacesTyped, Zenon
    <3> QED
      BY <3>1 DEF IsOpened, IsJoined
  <2>3. \A acc \in Accs :
          /\ acc.current # <<>> \/ acc.bytes = 0 => Opened(t, acc, f).bytes = 0 + t.size[f]
          /\ Joined(t, acc, f).bytes = acc.bytes + t.size[f]
    BY BytesAre
  <2>4. CASE /\ w.current # <<>> /\ a.current = w.current /\ a.bytes = w.bytes /\ a.done = pre \o w.done
             /\ t.dir[Last(a.current)] = d
    <3>1. ~Elsewhere(t, a, f) /\ (Crowded(t, mf, mb, a, f) <=> Crowded(t, mf, mb, w, f))
      BY <2>4 DEF Elsewhere, Crowded
    <3>2. CASE Crowded(t, mf, mb, w, f)
      <4>1. b = Opened(t, a, f) /\ v = Opened(t, w, f)
        BY <1>2, <1>7, <3>1, <3>2
      <4>2. /\ b \in Accs /\ b.current = <<f>> /\ b.bytes = 0 + t.size[f] /\ b.done = Flush(a).done
            /\ v \in Accs /\ v.current = <<f>> /\ v.bytes = 0 + t.size[f] /\ v.done = Flush(w).done
            /\ Flush(b).done = Append(Flush(a).done, <<f>>) /\ Flush(v).done = Append(Flush(w).done, <<f>>)
        BY <1>1, <2>2, <2>3, <2>4, <4>1
      <4> QED
        BY <1>1, <1>3, <1>5, <4>2 DEF Follows, b, v
    <3>3. CASE ~Crowded(t, mf, mb, w, f)
      <4>1. b = Joined(t, a, f) /\ v = Joined(t, w, f)
        BY <1>2, <1>7, <3>1, <3>3
      <4>2. /\ b \in Accs /\ b.current = Append(a.current, f) /\ b.bytes = a.bytes + t.size[f] /\ b.done = a.done
            /\ v \in Accs /\ v.current = Append(w.current, f) /\ v.bytes = w.bytes + t.size[f] /\ v.done = w.done
            /\ Flush(b).done = Append(a.done, Append(a.current, f))
            /\ Flush(v).done = Append(w.done, Append(w.current, f))
        BY <1>1, <2>2, <2>3, <4>1
      <4>3. Append(w.current, f) \in Seq(Int) /\ Append(w.current, f) # <<>> /\ Last(Append(w.current, f)) = f
        <5>1. Append(w.current, f) \in Seq(Int) /\ Append(w.current, f) # <<>>
          BY <1>3, Extended, Zenon
        <5>2. Last(Append(w.current, f)) = f
          BY <1>3, LastIs, Zenon
        <5> QED
          BY <5>1, <5>2
      <4>4. Flush(b).done = pre \o Flush(v).done
        BY <1>3, <1>4, <2>4, <4>2, <4>3
      <4> QED
        BY <2>4, <4>2, <4>3, <4>4 DEF Follows, b, v
    <3> QED
      BY <3>2, <3>3
  <2>5. CASE w.current = <<>> /\ w.bytes = 0 /\ a.current = <<>> /\ a.bytes = 0
    <3>1. ~Elsewhere(t, a, f) /\ ~Crowded(t, mf, mb, a, f) /\ ~Crowded(t, mf, mb, w, f)
      BY <2>5 DEF Elsewhere, Crowded
    <3>2. b = Joined(t, a, f) /\ v = Joined(t, w, f)
      BY <1>2, <1>7, <3>1
    <3>3. /\ b \in Accs /\ b.current = <<f>> /\ b.bytes = 0 + t.size[f] /\ b.done = a.done
          /\ v \in Accs /\ v.current = <<f>> /\ v.bytes = 0 + t.size[f] /\ v.done = w.done
          /\ Flush(b).done = Append(a.done, <<f>>) /\ Flush(v).done = Append(w.done, <<f>>)
      <4>1. /\ b \in Accs /\ b.current = Append(a.current, f) /\ b.done = a.done /\ b.bytes = a.bytes + t.size[f]
            /\ Flush(b).done = Append(a.done, Append(a.current, f))
        BY <1>1, <2>2, <2>3, <3>2
      <4>2. /\ v \in Accs /\ v.current = Append(w.current, f) /\ v.done = w.done /\ v.bytes = w.bytes + t.size[f]
            /\ Flush(v).done = Append(w.done, Append(w.current, f))
        BY <1>1, <2>2, <2>3, <3>2
      <4>3. Append(a.current, f) = <<f>> /\ Append(w.current, f) = <<f>>
        BY <1>3, <2>5
      <4> QED
        BY <2>5, <4>1, <4>2, <4>3
    <3>4. a.done = pre \o w.done
      BY <1>1, <2>5, FlushIs
    <3>5. Flush(b).done = pre \o Flush(v).done
      BY <1>3, <1>4, <3>3, <3>4
    <3> QED
      BY <1>3, <3>3, <3>4, <3>5 DEF Follows, b, v
  <2>6. CASE w.current = <<>> /\ w.bytes = 0 /\ a.current # <<>> /\ t.dir[Last(a.current)] \in E
    <3>1. Elsewhere(t, a, f) /\ ~Crowded(t, mf, mb, w, f)
      BY <2>6 DEF Elsewhere, Crowded
    <3>2. b = Opened(t, a, f) /\ v = Joined(t, w, f)
      BY <1>2, <1>7, <3>1
    <3>3. /\ b \in Accs /\ b.current = <<f>> /\ b.bytes = 0 + t.size[f] /\ b.done = Flush(a).done
          /\ v \in Accs /\ v.current = <<f>> /\ v.bytes = 0 + t.size[f] /\ v.done = w.done
          /\ Flush(b).done = Append(Flush(a).done, <<f>>) /\ Flush(v).done = Append(w.done, <<f>>)
      <4>1. /\ b \in Accs /\ b.current = <<f>> /\ b.done = Flush(a).done /\ b.bytes = 0 + t.size[f]
            /\ Flush(b).done = Append(Flush(a).done, <<f>>)
        BY <1>1, <2>2, <2>3, <2>6, <3>2
      <4>2. /\ v \in Accs /\ v.current = Append(w.current, f) /\ v.done = w.done /\ v.bytes = w.bytes + t.size[f]
            /\ Flush(v).done = Append(w.done, Append(w.current, f))
        BY <1>1, <2>2, <2>3, <3>2
      <4>3. Append(w.current, f) = <<f>>
        BY <1>3, <2>6
      <4> QED
        BY <2>6, <4>1, <4>2, <4>3
    <3>4. Flush(w).done = w.done
      BY <1>1, <2>6, FlushIs
    <3>5. Flush(b).done = pre \o Flush(v).done
      BY <1>5, <3>3, <3>4
    <3> QED
      BY <1>1, <1>3, <3>3, <3>4, <3>5 DEF Follows, b, v
  <2> QED
    BY <2>4, <2>5, <2>6 DEF Follows
<1> QED
  BY <1>6, <1>7 DEF b, v

(* The shell's planner between two directories.                            *)
Ready(t, a, pre, E) ==
  /\ a \in Accs /\ Flush(a).done = pre
  /\ (a.current = <<>> /\ a.bytes = 0) \/ (a.current # <<>> /\ t.dir[Last(a.current)] \in E)

Cuts(t, d, mf, mb) == Flush(PlaceFolded(t, mf, mb, InOrder(InDir(t, d)))).done
FirstDirs(t, n) == {OrderedDirs(t)[j] : j \in 1..n}

LEMMA CutsAre ==
  ASSUME NEW t \in Trees, NEW d, NEW mf, NEW mb
  PROVE  Cuts(t, d, mf, mb) \in Seq(Seq(Int)) /\ Cut(Cuts(t, d, mf, mb), InDir(t, d))
<1> DEFINE q == InOrder(InDir(t, d))
           L == Len(q)
           cuts == Cuts(t, d, mf, mb)
<1>1. /\ q \in Seq(Int) /\ L \in Nat
      /\ \A k \in 1..L : q[k] \in Int /\ t.size[q[k]] \in Int \cup {None}
      /\ \A j, k \in 1..L : q[j] = q[k] => j = k
      /\ {q[k] : k \in 1..L} = InDir(t, d)
  BY InDirIs
<1> HIDE DEF q
<1>2. PICK w : PlaceSteps(w, t, mf, mb, q) /\ PlaceFolded(t, mf, mb, q) = w[L]
  BY <1>1, PlaceFold
<1>3. cuts = Flush(w[L]).done
  BY <1>2 DEF Cuts, q
<1>4. w[0] = Start /\ \A k \in 0..L : w[k] \in Accs
  BY <1>2 DEF PlaceSteps
<1>5. ASSUME NEW k \in 1..L, NEW X, Cut(Flush(w[k - 1]).done, X), q[k] \notin X
      PROVE  Cut(Flush(w[k]).done, X \cup {q[k]})
  <2>1. k - 1 \in 0..L /\ w[k] = Place(t, mf, mb, w[k - 1], q[k])
    BY <1>1, <1>2 DEF PlaceSteps
  <2>2. w[k - 1] \in Accs /\ q[k] \in Int /\ t.size[q[k]] \in Int \cup {None}
    BY <1>1, <1>4, <2>1
  <2> QED
    BY <1>5, <2>1, <2>2, PlaceStep
<1>6. Cut(Flush(w[L]).done, {q[k] : k \in 1..L})
  BY <1>1, <1>4, <1>5, CutFold
<1>7. Cut(cuts, InDir(t, d))
  BY <1>1, <1>3, <1>6
<1> QED
  BY <1>7 DEF Cut

LEMMA DirStep ==
  ASSUME NEW t \in Trees, NEW mf, NEW mb, NEW n \in 1..Len(OrderedDirs(t)),
         NEW h, ShellSteps(h, t, mf, mb, OrderedPairs(t)), NEW pre \in Seq(Seq(Int)),
         Ready(t, h[Offset(t, n - 1)], pre, FirstDirs(t, n - 1))
  PROVE  LET cuts == Cuts(t, OrderedDirs(t)[n], mf, mb) IN
         Ready(t, h[Offset(t, n)], pre \o cuts, FirstDirs(t, n))
<1> DEFINE P == OrderedPairs(t)
           d == OrderedDirs(t)[n]
           q == InOrder(InDir(t, d))
           L == Len(q)
           o == Offset(t, n - 1)
           E == FirstDirs(t, n - 1)
           cuts == Cuts(t, d, mf, mb)
<1>1. Len(OrderedDirs(t)) \in Nat /\ n - 1 \in 0..Len(OrderedDirs(t)) /\ n \in Nat
  BY DirsParts
<1>2. o \in Nat /\ Offset(t, n) = o + Cardinality(InDir(t, d))
  BY <1>1, OffsetIs
<1>3. /\ q \in Seq(Int) /\ L = Cardinality(InDir(t, d)) /\ L \in Nat
      /\ \A k \in 1..L : q[k] \in Int /\ t.size[q[k]] \in Int \cup {None} /\ t.dir[q[k]] = d
      /\ \A j, k \in 1..L : q[j] = q[k] => j = k
      /\ {q[k] : k \in 1..L} = InDir(t, d)
  BY InDirIs
<1>4. \A k \in 1..L : o + k \in 1..Len(P) /\ P[o + k] = q[k]
  BY PairsByDir
<1>5. d \notin E
  <2>1. \A j \in 1..(n - 1) : j \in 1..Len(OrderedDirs(t)) /\ j # n
    BY <1>1
  <2>2. \A j \in 1..(n - 1) : OrderedDirs(t)[j] # d
    BY <2>1, DirsParts
  <2> QED
    BY <2>2 DEF FirstDirs
<1>6. FirstDirs(t, n) = E \cup {d}
  <2>1. 1..n = 1..(n - 1) \cup {n}
    BY <1>1
  <2> QED
    BY <2>1 DEF FirstDirs
<1>7. Len(P) \in Nat
  BY PairsIs, SeqParts
<1> HIDE DEF P, d, o, E
<1> HIDE DEF q
<1>16. q \in Seq(Int) /\ \A k \in 1..Len(q) : t.size[q[k]] \in Int \cup {None}
  BY <1>3
<1>8. PICK w : PlaceSteps(w, t, mf, mb, q) /\ PlaceFolded(t, mf, mb, q) = w[L]
  BY <1>16, PlaceFold
<1>9. cuts = Flush(w[L]).done
  BY <1>8 DEF Cuts, q
<1>10. w[0] = Start /\ \A k \in 0..L : w[k] \in Accs
  BY <1>8 DEF PlaceSteps
<1> DEFINE T == {k \in Nat : k <= L /\ Follows(t, h[o + k], w[k], pre, E, d)}
<1>11. 0 \in T
  <2>1. o + 0 = o /\ Ready(t, h[o], pre, E)
    BY <1>2 DEF o, E
  <2>2. Start.current = <<>> /\ Start.bytes = 0 /\ Flush(Start).done = <<>>
    BY DEF Start, Flush
  <2>3. pre \o <<>> = pre
    OBVIOUS
  <2>4. w[0] = Start /\ w[0] \in Accs
    BY <1>3, <1>10
  <2>5. Follows(t, h[o], w[0], pre, E, d)
    BY <2>1, <2>2, <2>3, <2>4 DEF Ready, Follows
  <2> QED
    BY <1>3, <2>1, <2>5
<1>12. ASSUME NEW k \in Nat, k < L, k \in T PROVE k + 1 \in T
  <2>1. k + 1 \in 1..L /\ (k + 1) - 1 = k /\ k + 1 <= L
    BY <1>3, <1>12
  <2>2. w[k + 1] = Place(t, mf, mb, w[k], q[k + 1])
    BY <1>8, <2>1 DEF PlaceSteps
  <2>3. o + (k + 1) \in 1..Len(P) /\ P[o + (k + 1)] = q[k + 1] /\ (o + (k + 1)) - 1 = o + k
    BY <1>2, <1>4, <2>1
  <2>4. h[o + (k + 1)] = ShellPlace(t, mf, mb, h[o + k], q[k + 1])
    BY <2>3 DEF ShellSteps, P
  <2>5. q[k + 1] \in Int /\ t.size[q[k + 1]] \in Int \cup {None} /\ t.dir[q[k + 1]] = d
    BY <1>3, <2>1
  <2>6. Follows(t, h[o + k], w[k], pre, E, d)
    BY <1>12
  <2> HIDE DEF T
  <2>7. Follows(t, h[o + (k + 1)], w[k + 1], pre, E, d)
    BY <1>5, <2>2, <2>4, <2>5, <2>6, FollowsOn
  <2> QED
    BY <2>1, <2>7 DEF T
<1>13. Follows(t, h[o + L], w[L], pre, E, d)
  <2> HIDE DEF T, L
  <2>1. 0..L \subseteq T
    BY <1>3, <1>11, <1>12, BoundedSuccession
  <2>2. L \in T
    BY <1>3, <2>1
  <2> QED
    BY <2>2 DEF T
<1>14. o + L = Offset(t, n)
  BY <1>2, <1>3
<1>15. Ready(t, h[Offset(t, n)], pre \o cuts, FirstDirs(t, n))
  BY <1>6, <1>9, <1>13, <1>14 DEF Ready, Follows
<1> QED
  BY <1>15 DEF d

(* The groups of the planner by directories, and their files.              *)
Grouped(d, cuts) == [k \in DOMAIN cuts |-> [dir |-> d, files |-> cuts[k]]]
Groups == [dir : Int, files : Seq(Int)]
Contents(gs) == [k \in DOMAIN gs |-> gs[k].files]
Headed(t, gs) == \A k \in 1..Len(gs) : gs[k].dir = t.dir[gs[k].files[1]]

LEMMA GroupsIs ==
  ASSUME NEW t, NEW d \in Int, NEW cuts, Cut(cuts, InDir(t, d))
  PROVE  /\ Grouped(d, cuts) \in Seq(Groups) /\ Contents(Grouped(d, cuts)) = cuts /\ Headed(t, Grouped(d, cuts))
<1> DEFINE gs == Grouped(d, cuts)
           N == Len(cuts)
<1>1. cuts \in Seq(Seq(Int)) /\ N \in Nat /\ DOMAIN cuts = 1..N /\ \A k \in 1..N : cuts[k] \in Seq(Int) /\ cuts[k] # <<>>
  BY DEF Cut
<1>2. \A k \in 1..N : [dir |-> d, files |-> cuts[k]] \in Groups
  BY <1>1 DEF Groups
<1>3. gs \in [1..N -> Groups] /\ \A k \in 1..N : gs[k].dir = d /\ gs[k].files = cuts[k]
  BY <1>1, <1>2 DEF Grouped
<1>4. \A k \in 1..N : t.dir[cuts[k][1]] = d
  <2> TAKE k \in 1..N
  <2>1. Len(cuts[k]) \in Nat /\ Len(cuts[k]) # 0
    BY <1>1
  <2>2. 1 \in DOMAIN cuts[k]
    BY <1>1, <2>1
  <2>3. cuts[k][1] \in InDir(t, d)
    BY <2>2 DEF Cut, ToSet
  <2> QED
    BY <2>3 DEF InDir
<1> HIDE DEF gs
<1>5. gs \in Seq(Groups) /\ Len(gs) = N /\ DOMAIN gs = 1..N
  <2> HIDE DEF N
  <2> QED
    BY <1>1, <1>3
<1>6. Contents(gs) = cuts
  <2>1. cuts = [k \in 1..N |-> cuts[k]]
    BY <1>1
  <2> QED
    BY <1>3, <1>5, <2>1 DEF Contents
<1>7. Headed(t, gs)
  BY <1>3, <1>4, <1>5 DEF Headed
<1> QED
  BY <1>5, <1>6, <1>7 DEF gs

LEMMA JoinParts ==
  ASSUME NEW u \in Seq(Seq(Int)), NEW v \in Seq(Seq(Int))
  PROVE  /\ Len(u) \in Nat /\ Len(v) \in Nat
         /\ u \o v = [i \in 1..(Len(u) + Len(v)) |-> IF i \in 1..Len(u) THEN u[i] ELSE v[i - Len(u)]]
<1> DEFINE X == Seq(Int)
           j == u \o v
           M == Len(u)
           N == Len(v)
<1>1. u \in Seq(X) /\ v \in Seq(X)
  OBVIOUS
<1> HIDE DEF X
<1>2. j \in Seq(X) /\ Len(j) = M + N /\ M \in Nat /\ N \in Nat
  BY <1>1
<1>3. \A i \in 1..(M + N) : j[i] = IF i \in 1..M THEN u[i] ELSE v[i - M]
  BY <1>1
<1>4. \A s \in Seq(X) : s = [i \in 1..Len(s) |-> s[i]]
  OBVIOUS
<1> HIDE DEF j, M, N
<1>5. j = [i \in 1..(M + N) |-> j[i]]
  BY <1>2, <1>4
<1>6. [i \in 1..(M + N) |-> j[i]] = [i \in 1..(M + N) |-> IF i \in 1..M THEN u[i] ELSE v[i - M]]
  BY <1>3
<1> QED
  BY <1>2, <1>5, <1>6 DEF j, M, N

LEMMA ContentsJoin ==
  ASSUME NEW t, NEW x \in Seq(Groups), NEW y \in Seq(Groups), Headed(t, x), Headed(t, y)
  PROVE  /\ x \o y \in Seq(Groups) /\ Headed(t, x \o y)
         /\ Contents(x) \in Seq(Seq(Int)) /\ Contents(x \o y) = Contents(x) \o Contents(y)
<1> DEFINE M == Len(x)
           N == Len(y)
           z == x \o y
           u == Contents(x)
           v == Contents(y)
<1>1. /\ M \in Nat /\ N \in Nat /\ z \in Seq(Groups) /\ Len(z) = M + N /\ DOMAIN z = 1..(M + N)
      /\ DOMAIN x = 1..M /\ DOMAIN y = 1..N
      /\ \A i \in 1..M : z[i] = x[i] /\ x[i] \in Groups
      /\ \A i \in 1..(M + N) : i \notin 1..M => z[i] = y[i - M]
      /\ \A i \in 1..N : y[i] \in Groups
  OBVIOUS
<1>2. \A i \in 1..(M + N) : i \notin 1..M => i - M \in 1..N
  BY <1>1
<1>3. \A g \in Groups : g.files \in Seq(Int)
  BY DEF Groups
<1> HIDE DEF z
<1>4. u = [i \in 1..M |-> x[i].files] /\ v = [i \in 1..N |-> y[i].files]
  BY <1>1 DEF Contents
<1> HIDE DEF M, N
<1>5. u \in [1..M -> Seq(Int)] /\ v \in [1..N -> Seq(Int)]
  BY <1>1, <1>3, <1>4
<1> HIDE DEF u, v
<1>6. u \in Seq(Seq(Int)) /\ Len(u) = M /\ v \in Seq(Seq(Int)) /\ Len(v) = N
  <2>1. M \in Nat /\ N \in Nat
    BY <1>1
  <2> QED
    BY <1>5, <2>1
<1>7. u \o v = [i \in 1..(M + N) |-> IF i \in 1..M THEN u[i] ELSE v[i - M]]
  <2>1. u \o v = [i \in 1..(Len(u) + Len(v)) |-> IF i \in 1..Len(u) THEN u[i] ELSE v[i - Len(u)]]
    BY <1>6, JoinParts
  <2> QED
    BY <1>6, <2>1
<1>8. Contents(z) = u \o v
  <2>1. \A i \in 1..(M + N) : z[i].files = IF i \in 1..M THEN u[i] ELSE v[i - M]
    BY <1>1, <1>2, <1>4
  <2> QED
    BY <1>1, <1>7, <2>1 DEF Contents
<1>9. Headed(t, z)
  <2>1. \A i \in 1..M : z[i] = x[i] /\ x[i].dir = t.dir[x[i].files[1]]
    BY <1>1 DEF Headed, M
  <2>2. \A i \in 1..N : y[i].dir = t.dir[y[i].files[1]]
    BY DEF Headed, N
  <2>3. ASSUME NEW k \in 1..(M + N) PROVE z[k].dir = t.dir[z[k].files[1]]
    <3>1. CASE k \in 1..M
      BY <2>1, <3>1
    <3>2. CASE k \notin 1..M
      <4>1. z[k] = y[k - M] /\ k - M \in 1..N
        BY <1>1, <1>2, <3>2
      <4> QED
        BY <2>2, <4>1
    <3> QED
      BY <3>1, <3>2
  <2>4. Len(z) = M + N
    BY <1>1
  <2> QED
    BY <2>3, <2>4 DEF Headed
<1> QED
  BY <1>1, <1>6, <1>8, <1>9 DEF z, u, v

(* The planner of build_plan and that of recon-plan.sh without Python,     *)
(* which has no arrays and walks the paths once, cut every tree into the   *)
(* same batches in the same order, with the same flags.                    *)
THEOREM PlannersAgree ==
  ASSUME NEW t \in Trees, NEW c PROVE BuildPlan(t, c) = ShellPlan(t, c)
<1> DEFINE mf == PositiveInt(c.maxFiles, c.defaultFiles)
           mb == PositiveInt(c.maxBytes, c.defaultBytes)
           dirs == OrderedDirs(t)
           K == Len(dirs)
           P == OrderedPairs(t)
           S == InScope(t)
           large == IsLargeRepoMode(Cardinality(S), c.threshold)
           part(i) == Grouped(dirs[i], Cuts(t, dirs[i], mf, mb))
           parts == [i \in DOMAIN dirs |-> part(i)]
           groups == FlattenSeq(parts)
           meta == Meta(t, c)
<1>1. BuildPlan(t, c) =
        [batches |-> [i \in DOMAIN groups |-> Batch(i, groups[i].dir, groups[i].files, large /\ i > c.firstPass)],
         filesInScope |-> Cardinality(S), batchCount |-> Len(groups), large |-> large,
         budget |-> IF large THEN c.firstPass ELSE None, covered |-> <<>>, admission |-> None]
  BY DEF BuildPlan, Chunks, Cuts, InDir, PlaceFolded, Start, Grouped
<1>2. ShellPlan(t, c) =
        [batches |-> [i \in DOMAIN meta |-> Batch(i, t.dir[meta[i][1]], meta[i], large /\ i > c.firstPass)],
         filesInScope |-> Cardinality(S), batchCount |-> Len(meta), large |-> large,
         budget |-> IF large THEN c.firstPass ELSE None, covered |-> <<>>, admission |-> None]
  BY DEF ShellPlan, Meta, ShellFolded, Start, IsLargeRepoMode
<1>3. /\ K \in Nat /\ K # 0 /\ DOMAIN dirs = 1..K /\ \A i \in 1..K : dirs[i] \in Int
      /\ P \in Seq(Int) /\ Len(P) = Cardinality(S) /\ \A n \in 1..Len(P) : t.size[P[n]] \in Int \cup {None}
  BY DirsParts, PairsIs
<1>4. Offset(t, 0) = 0 /\ Offset(t, K) = Len(P)
  BY <1>3, OffsetIs
<1>5. PICK h : ShellSteps(h, t, mf, mb, P) /\ ShellFolded(t, mf, mb, P) = h[Len(P)]
  BY <1>3, ShellFold
<1>6. meta = Flush(h[Len(P)]).done
  BY <1>5 DEF Meta
<1> HIDE DEF mf, mb, large, meta
<1>7. ASSUME NEW n \in 1..K
      PROVE  /\ part(n) \in Seq(Groups) /\ Headed(t, part(n))
             /\ Contents(part(n)) = Cuts(t, dirs[n], mf, mb)
  <2> DEFINE cuts == Cuts(t, dirs[n], mf, mb)
  <2>1. Cut(cuts, InDir(t, dirs[n])) /\ dirs[n] \in Int
    BY <1>3, CutsAre
  <2> HIDE DEF cuts, dirs
  <2>2. Grouped(dirs[n], cuts) \in Seq(Groups) /\ Contents(Grouped(dirs[n], cuts)) = cuts /\ Headed(t, Grouped(dirs[n], cuts))
    BY <2>1, GroupsIs
  <2> QED
    BY <2>2 DEF cuts
<1>8. ASSUME NEW n \in 1..K, NEW b \in Seq(Seq(Int)), Ready(t, h[Offset(t, n - 1)], b, FirstDirs(t, n - 1))
      PROVE  Ready(t, h[Offset(t, n)], b \o Contents(part(n)), FirstDirs(t, n))
  <2>1. Ready(t, h[Offset(t, n)], b \o Cuts(t, dirs[n], mf, mb), FirstDirs(t, n))
    BY <1>5, <1>8, DirStep
  <2> QED
    BY <1>7, <2>1
<1> HIDE DEF part
<1>9. parts \in Seq(Seq(Groups)) /\ Len(parts) = K /\ \A n \in 1..K : parts[n] = part(n)
  <2>1. \A n \in 1..K : parts[n] = part(n)
    BY <1>3
  <2>2. parts \in [1..K -> Seq(Groups)]
    BY <1>3, <1>7
  <2> HIDE DEF parts, K
  <2> QED
    BY <1>3, <2>1, <2>2
<1> HIDE DEF parts
<1>10. PICK g \in [0..K -> Seq(Groups)] :
          g[0] = <<>> /\ (\A n \in 1..K : g[n] = g[n - 1] \o parts[n]) /\ groups = g[K]
  <2>1. Len(parts) # 0 /\ Len(parts) = K /\ parts \in Seq(Seq(Groups))
    BY <1>3, <1>9
  <2>2. PICK g : Joins(g, parts, Groups)
    BY <2>1, FlattenIs
  <2> HIDE DEF K
  <2> QED
    BY <2>1, <2>2 DEF Joins
<1> HIDE DEF groups
<1> DEFINE Good(n) == g[n] \in Seq(Groups) /\ Headed(t, g[n]) /\ Ready(t, h[Offset(t, n)], Contents(g[n]), FirstDirs(t, n))
           T == {n \in Nat : n <= K /\ Good(n)}
<1>11. 0 \in T
  <2>1. h[Offset(t, 0)] = Start
    BY <1>4, <1>5 DEF ShellSteps
  <2>2. Start \in Accs /\ Start.current = <<>> /\ Start.bytes = 0 /\ Flush(Start).done = <<>>
    BY DEF Start, Flush, Accs
  <2>3. <<>> \in Seq(Groups) /\ Contents(<<>>) = <<>> /\ Headed(t, <<>>)
    BY DEF Contents, Headed
  <2>4. Good(0)
    BY <1>10, <2>1, <2>2, <2>3 DEF Ready
  <2> HIDE DEF Good
  <2> QED
    BY <1>3, <2>4
<1>12. ASSUME NEW n \in Nat, n < K, n \in T PROVE n + 1 \in T
  <2>1. n + 1 \in 1..K /\ (n + 1) - 1 = n /\ n + 1 <= K
    BY <1>3, <1>12
  <2>2. Good(n) /\ g[n + 1] = g[n] \o part(n + 1)
    BY <1>9, <1>10, <1>12, <2>1
  <2> HIDE DEF T
  <2>3. part(n + 1) \in Seq(Groups) /\ Headed(t, part(n + 1))
    BY <1>7, <2>1
  <2>4. /\ g[n + 1] \in Seq(Groups) /\ Headed(t, g[n + 1])
        /\ Contents(g[n]) \in Seq(Seq(Int)) /\ Contents(g[n + 1]) = Contents(g[n]) \o Contents(part(n + 1))
    BY <2>2, <2>3, ContentsJoin
  <2>5. Ready(t, h[Offset(t, n + 1)], Contents(g[n + 1]), FirstDirs(t, n + 1))
    <3>1. Ready(t, h[Offset(t, (n + 1) - 1)], Contents(g[n]), FirstDirs(t, (n + 1) - 1))
      BY <2>1, <2>2
    <3> QED
      BY <1>8, <2>1, <2>4, <3>1
  <2>6. Good(n + 1)
    BY <2>4, <2>5
  <2> HIDE DEF Good
  <2> QED
    BY <2>1, <2>6 DEF T
<1>13. Good(K)
  <2> HIDE DEF T, K, Good
  <2>1. 0..K \subseteq T
    BY <1>3, <1>11, <1>12, BoundedSuccession
  <2>2. K \in T
    BY <1>3, <2>1
  <2> QED
    BY <2>2 DEF T
<1>14. groups \in Seq(Groups) /\ Headed(t, groups) /\ meta = Contents(groups)
  BY <1>4, <1>6, <1>10, <1>13 DEF Ready
<1> HIDE DEF Good, dirs, P, S, T
<1>15. /\ DOMAIN groups = 1..Len(groups) /\ DOMAIN meta = DOMAIN groups /\ Len(groups) \in Nat
       /\ \A i \in 1..Len(groups) : meta[i] = groups[i].files /\ groups[i].dir = t.dir[meta[i][1]]
  BY <1>14 DEF Contents, Headed
<1>16. Len(meta) = Len(groups)
  BY <1>15
<1>17. [i \in DOMAIN groups |-> Batch(i, groups[i].dir, groups[i].files, large /\ i > c.firstPass)]
     = [i \in DOMAIN meta |-> Batch(i, t.dir[meta[i][1]], meta[i], large /\ i > c.firstPass)]
  BY <1>15
<1> QED
  BY <1>1, <1>2, <1>16, <1>17

-----------------------------------------------------------------------------
(* The evidence of a file is a finite set of numbers in one of four lanes. *)
Shaped(e) ==
  /\ e.historyScore \in Int /\ e.fixes \in Int /\ e.recentFixes \in Int /\ e.reverts \in Int
  /\ e.risk \in Int \cup {None} /\ e.issue \in 0..4 \cup {None}
  /\ e.project # None => e.project.confidence \in Int
Weighed(R) == IsFiniteSet(R) /\ \A r \in R : r.points \in Int /\ r.lane \in 0..3

LEMMA WeighedParts ==
  /\ Weighed({})
  /\ \A code, category : \A points \in Int : \A lane \in 0..3 : Weighed({Evidence(code, category, points, lane)})
  /\ \A A, B : Weighed(A) /\ Weighed(B) => Weighed(A \cup B)
<1>1. Weighed({})
  BY FS_EmptySet DEF Weighed
<1>2. ASSUME NEW code, NEW category, NEW points \in Int, NEW lane \in 0..3
      PROVE  Weighed({Evidence(code, category, points, lane)})
  <2>1. IsFiniteSet({Evidence(code, category, points, lane)})
    BY FS_Singleton
  <2>2. Evidence(code, category, points, lane).points = points /\ Evidence(code, category, points, lane).lane = lane
    BY DEF Evidence
  <2> QED
    BY <2>1, <2>2 DEF Weighed
<1>3. ASSUME NEW A, NEW B, Weighed(A), Weighed(B) PROVE Weighed(A \cup B)
  <2>1. IsFiniteSet(A \cup B)
    BY <1>3, FS_Union DEF Weighed
  <2> QED
    BY <1>3, <2>1 DEF Weighed
<1> QED
  BY <1>1, <1>2, <1>3

LEMMA BoundsTyped ==
  /\ \A c \in Int : \A n \in Int : AtMost(c, n) \in Int /\ AtLeast(c, n) \in Int
                                   /\ AtMost(c, n) <= c /\ AtMost(c, n) <= n
                                   /\ (c >= 0 /\ n >= 0 => AtMost(c, n) >= 0)
  /\ \A n \in Int : Round(n, 100) \in Int
<1>1. \A c \in Int : \A n \in Int : AtMost(c, n) \in Int /\ AtLeast(c, n) \in Int
                                    /\ AtMost(c, n) <= c /\ AtMost(c, n) <= n
                                    /\ (c >= 0 /\ n >= 0 => AtMost(c, n) >= 0)
  BY DEF AtMost, AtLeast
<1>2. ASSUME NEW n \in Int PROVE Round(n, 100) \in Int
  BY DEF Round
<1> QED
  BY <1>1, <1>2

LEMMA SignalsWeighed ==
  ASSUME NEW s, Shaped(s)
  PROVE  /\ Weighed(Changes(s)) /\ Weighed(History(s)) /\ Weighed(Repairs(s)) /\ Weighed(Exposure(s))
         /\ Weighed(PriorRuns(s)) /\ Weighed(Baseline(s)) /\ Weighed(Issues(s))
<1>1. High \in 0..3 /\ Elevated \in 0..3 /\ Normal \in 0..3 /\ MustFocus \in 0..3
  BY DEF High, Elevated, Normal, MustFocus
<1>9. 2 \in Int /\ 5 \in Int /\ 8 \in Int /\ 10 \in Int /\ 15 \in Int /\ 25 \in Int
  OBVIOUS
<1>2. Weighed(Changes(s))
  <2>1. /\ Weighed({Evidence("changed_since_last_run", "change", 10, Elevated)})
        /\ Weighed({Evidence("content_changed_since_audit", "change", 15, High)})
    BY <1>1, <1>9, WeighedParts, Zenon
  <2>2. /\ Weighed(When(s.changed, {Evidence("changed_since_last_run", "change", 10, Elevated)}))
        /\ Weighed(When(s.contentChanged, {Evidence("content_changed_since_audit", "change", 15, High)}))
    BY <2>1, WeighedParts DEF When
  <2> QED
    BY <2>2, WeighedParts DEF Changes
<1>3. Weighed(History(s))
  <2> DEFINE a == AtLeast(1, AtMost(4, s.historyScore))
             b == AtMost(10, 2 + 2 * s.fixes)
             l == IF s.fixes >= 2 THEN High ELSE Elevated
  <2>1. a \in Int
    <3>1. AtMost(4, s.historyScore) \in Int
      BY DEF AtMost, Shaped
    <3> QED
      BY <3>1 DEF AtLeast
  <2>2. b \in Int
    <3>1. 2 + 2 * s.fixes \in Int
      BY DEF Shaped
    <3> QED
      BY <3>1 DEF AtMost
  <2>3. l \in 0..3
    BY <1>1
  <2> HIDE DEF a, b, l
  <2>4. /\ Weighed({Evidence("git_history", "change", a, Elevated)})
        /\ Weighed({Evidence("fix_history", "recurrence", b, l)})
    BY <1>1, <2>1, <2>2, <2>3, WeighedParts
  <2>5. /\ Weighed(When(s.commits > 0, {Evidence("git_history", "change", a, Elevated)}))
        /\ Weighed(When(s.fixes > 0, {Evidence("fix_history", "recurrence", b, l)}))
    BY <2>4, WeighedParts DEF When
  <2> QED
    BY <2>5, WeighedParts DEF History, a, b, l
<1>4. Weighed(Repairs(s))
  <2> DEFINE a == AtMost(10, 2 + 2 * AtMost(10, s.recentFixes))
             b == AtMost(10, 5 + 2 * AtMost(5, s.reverts))
  <2>1. a \in Int
    <3>1. AtMost(10, s.recentFixes) \in Int
      BY DEF AtMost, Shaped
    <3>2. 2 + 2 * AtMost(10, s.recentFixes) \in Int
      BY <3>1
    <3> QED
      BY <3>2 DEF AtMost
  <2>2. b \in Int
    <3>1. AtMost(5, s.reverts) \in Int
      BY DEF AtMost, Shaped
    <3>2. 5 + 2 * AtMost(5, s.reverts) \in Int
      BY <3>1
    <3> QED
      BY <3>2 DEF AtMost
  <2> HIDE DEF a, b
  <2>3. /\ Weighed({Evidence("fix_history", "recurrence", a, Normal)})
        /\ Weighed({Evidence("revert_history", "change", b, High)})
    BY <1>1, <2>1, <2>2, WeighedParts
  <2>4. /\ Weighed(When(s.recentFixes > 0, {Evidence("fix_history", "recurrence", a, Normal)}))
        /\ Weighed(When(s.reverts > 0, {Evidence("revert_history", "change", b, High)}))
    BY <2>3, WeighedParts DEF When
  <2> QED
    BY <2>4, WeighedParts DEF Repairs, a, b
<1>5. Weighed(Exposure(s))
  <2>1. /\ Weighed({Evidence("live_sink", "reach", 15, High)})
        /\ Weighed({Evidence("maybe_sink", "reach", 8, Elevated)})
        /\ Weighed({Evidence("cold_sink", "reach", 2, Elevated)})
    BY <1>1, <1>9, WeighedParts, Zenon
  <2> QED
    BY <2>1, WeighedParts DEF Exposure
<1>6. Weighed(PriorRuns(s))
  <2> DEFINE a == AtMost(10, AtLeast(1, s.risk))
             l == IF s.outcome THEN High ELSE Elevated
             prior == When(s.risk # None, {Evidence("prior_bug_history", "recurrence", a, l)})
  <2>1. s.risk # None => a \in Int
    <3>1. s.risk # None => AtLeast(1, s.risk) \in Int
      BY DEF AtLeast, Shaped
    <3> QED
      BY <3>1 DEF AtMost
  <2>2. l \in 0..3
    BY <1>1
  <2> HIDE DEF a, l
  <2>3. Weighed(prior)
    BY <2>1, <2>2, WeighedParts DEF When
  <2>4. /\ Weighed({Evidence("stale_audit", "stale", 5, Elevated)})
        /\ Weighed({Evidence("reopened_conclusion", "active", 25, MustFocus)})
        /\ Weighed({Evidence("variant_match", "recurrence", 10, MustFocus)})
    BY <1>1, <1>9, WeighedParts, Zenon
  <2>5. /\ Weighed(When(s.stale, {Evidence("stale_audit", "stale", 5, Elevated)}))
        /\ Weighed(When(s.reopened, {Evidence("reopened_conclusion", "active", 25, MustFocus)}))
        /\ Weighed(When(s.variant, {Evidence("variant_match", "recurrence", 10, MustFocus)}))
    BY <2>4, WeighedParts DEF When
  <2> HIDE DEF prior
  <2> QED
    BY <2>3, <2>5, WeighedParts DEF PriorRuns, a, l, prior
<1>7. Weighed(Baseline(s))
  <2>1. Weighed({Evidence("baseline_failure", "active", 25, MustFocus)})
    BY <1>1, <1>9, WeighedParts, Zenon
  <2> QED
    BY <2>1, WeighedParts DEF Baseline, When
<1>8. Weighed(Issues(s))
  <2> DEFINE l == IF s.issue <= 2 THEN High ELSE Elevated
  <2>1. s.issue # None => PriorityPoints[s.issue] \in Int
    <3>1. s.issue # None => s.issue \in 0..4
      BY DEF Shaped
    <3>2. \A p \in 0..4 : PriorityPoints[p] \in Int
      <4> TAKE p \in 0..4
      <4>1. p = 0 \/ p = 1 \/ p = 2 \/ p = 3 \/ p = 4
        OBVIOUS
      <4> QED
        BY <4>1 DEF PriorityPoints
    <3> QED
      BY <3>1, <3>2
  <2>2. l \in 0..3
    BY <1>1
  <2> HIDE DEF l
  <2>3. s.issue # None => Weighed({Evidence("local_bug_issue", "active", PriorityPoints[s.issue], l)})
    BY <2>1, <2>2, WeighedParts
  <2> QED
    BY <2>3, WeighedParts DEF Issues, When, l
<1> QED
  BY <1>2, <1>3, <1>4, <1>5, <1>6, <1>7, <1>8

LEMMA ReasonsWeighed ==
  ASSUME NEW m, NEW f, Shaped(m[f]), NEW n
  PROVE  Weighed(Reasons(m, n, f))
<1> DEFINE s == m[f]
<1>1. High \in 0..3 /\ Elevated \in 0..3 /\ Normal \in 0..3 /\ MustFocus \in 0..3
  BY DEF High, Elevated, Normal, MustFocus
<1>9. 2 \in Int /\ 30 \in Int
  OBVIOUS
<1>2. Weighed(Project(s))
  <2>1. CASE s.project = None
    BY <2>1, WeighedParts DEF Project
  <2>2. CASE s.project # None
    <3> DEFINE p == s.project
               category == IF p.kind = "project_priority" THEN "impact" ELSE "active"
               worth == SeverityPoints(p.severity) * p.confidence
               points == AtLeast(1, Round(worth, 100))
    <3>1. points \in Int
      <4>1. p.confidence \in Int
        BY <2>2 DEF Shaped
      <4>2. SeverityPoints(p.severity) \in Int
        BY DEF SeverityPoints
      <4> HIDE DEF p
      <4>3. worth \in Int
        BY <4>1, <4>2
      <4> HIDE DEF worth
      <4>4. Round(worth, 100) \in Int
        BY <4>3, BoundsTyped
      <4> QED
        BY <4>4 DEF AtLeast
    <3>2. Impact(p) \in Int
      <4> DEFINE u == CASE p.users >= 1000 -> 20 [] p.users >= 100 -> 15 [] p.users > 0 -> 8 [] OTHER -> 0
                 o == CASE p.occurrences >= 1000 -> 10 [] p.occurrences >= 100 -> 6
                        [] p.occurrences > 0 -> 3 [] OTHER -> 0
      <4>1. u \in Int /\ o \in Int
        OBVIOUS
      <4>2. Impact(p) = AtMost(30, u + o)
        BY DEF Impact
      <4> HIDE DEF u, o
      <4>3. u + o \in Int
        BY <4>1
      <4> QED
        BY <4>2, <4>3 DEF AtMost
    <3>3. ProjectLane(p) \in 0..3
      BY <1>1 DEF ProjectLane
    <3>4. Project(s) = {Evidence(p.kind, category, points, ProjectLane(p))}
                         \cup When(Impact(p) > 0, {Evidence("user_impact", "impact", Impact(p), Normal)})
      BY <2>2 DEF Project
    <3> HIDE DEF p, category, points
    <3>5. /\ Weighed({Evidence(p.kind, category, points, ProjectLane(p))})
          /\ Weighed({Evidence("user_impact", "impact", Impact(p), Normal)})
      BY <1>1, <3>1, <3>2, <3>3, WeighedParts, Zenon
    <3>6. Weighed(When(Impact(p) > 0, {Evidence("user_impact", "impact", Impact(p), Normal)}))
      BY <3>5, WeighedParts DEF When
    <3> QED
      BY <3>4, <3>5, <3>6, WeighedParts
  <2> QED
    BY <2>1, <2>2
<1>3. Weighed(Configured(m, n, f))
  <2> DEFINE x == m[f].critical /\ Cardinality({g \in DOMAIN m : m[g].critical}) <= n
             y == m[f].changed /\ ~ \E g \in DOMAIN m : m[g].changed /\ m[g].test
             A == {Evidence("critical_path", "impact", 30, High)}
             B == {Evidence("runtime_without_test_change", "change", 2, Normal)}
  <2>1. Weighed(A) /\ Weighed(B)
    BY <1>1, <1>9, WeighedParts, Zenon
  <2>2. Configured(m, n, f) = (IF x THEN A ELSE {}) \cup (IF y THEN B ELSE {})
    BY DEF Configured, When
  <2> HIDE DEF x, y, A, B
  <2>3. Weighed(IF x THEN A ELSE {}) /\ Weighed(IF y THEN B ELSE {})
    BY <2>1, WeighedParts
  <2> QED
    BY <2>2, <2>3, WeighedParts
<1>4. /\ Weighed(Changes(s)) /\ Weighed(History(s)) /\ Weighed(Repairs(s)) /\ Weighed(Exposure(s))
      /\ Weighed(PriorRuns(s)) /\ Weighed(Baseline(s)) /\ Weighed(Issues(s))
  BY SignalsWeighed
<1>5. Reasons(m, n, f) = Changes(s) \cup History(s) \cup Repairs(s) \cup Exposure(s) \cup PriorRuns(s)
                           \cup Baseline(s) \cup Issues(s) \cup Project(s) \cup Configured(m, n, f)
  BY DEF Reasons
<1> HIDE DEF s
<1>6. /\ Weighed(Changes(s) \cup History(s))
      /\ Weighed(Repairs(s) \cup Exposure(s))
      /\ Weighed(PriorRuns(s) \cup Baseline(s))
      /\ Weighed(Issues(s) \cup Project(s))
  BY <1>2, <1>4, WeighedParts
<1>7. /\ Weighed((Changes(s) \cup History(s)) \cup (Repairs(s) \cup Exposure(s)))
      /\ Weighed((PriorRuns(s) \cup Baseline(s)) \cup (Issues(s) \cup Project(s)))
  BY <1>6, WeighedParts
<1>8. Weighed(((Changes(s) \cup History(s)) \cup (Repairs(s) \cup Exposure(s)))
               \cup ((PriorRuns(s) \cup Baseline(s)) \cup (Issues(s) \cup Project(s))))
  BY <1>7, WeighedParts
<1>10. Reasons(m, n, f) = (((Changes(s) \cup History(s)) \cup (Repairs(s) \cup Exposure(s)))
               \cup ((PriorRuns(s) \cup Baseline(s)) \cup (Issues(s) \cup Project(s)))) \cup Configured(m, n, f)
  BY <1>5
<1> QED
  BY <1>3, <1>8, <1>10, WeighedParts

LEMMA LaneIs ==
  ASSUME NEW m, NEW f, Shaped(m[f]), NEW n
  PROVE  Lane(m, n, f) \in 0..3
<1> DEFINE R == Reasons(m, n, f)
           g == [r \in R |-> r.lane]
           lanes == {r.lane : r \in R}
           live == When((m[f].changed \/ m[f].contentChanged) /\ m[f].sink = "LIVE", {MustFocus})
           S == {Normal} \cup lanes \cup live
<1>1. Weighed(R)
  BY ReasonsWeighed
<1> HIDE DEF R
<1>2. lanes = {g[r] : r \in R}
  OBVIOUS
<1>3. IsFiniteSet(lanes) /\ lanes \subseteq 0..3
  <2>1. IsFiniteSet({g[r] : r \in R})
    <3> HIDE DEF g
    <3> QED
      BY <1>1, ImageFinite DEF Weighed
  <2> QED
    BY <1>1, <1>2, <2>1 DEF Weighed
<1>4. IsFiniteSet(live) /\ live \subseteq 0..3
  <2>1. IsFiniteSet({MustFocus}) /\ IsFiniteSet({}) /\ MustFocus \in 0..3
    <3>1. IsFiniteSet({MustFocus}) /\ IsFiniteSet({})
      BY FS_Singleton, FS_EmptySet
    <3>2. MustFocus \in 0..3
      BY DEF MustFocus
    <3> QED
      BY <3>1, <3>2
  <2>2. live = {MustFocus} \/ live = {}
    BY DEF When
  <2> HIDE DEF live
  <2> QED
    BY <2>1, <2>2
<1> HIDE DEF lanes, live
<1>5. IsFiniteSet(S)
  <2>1. IsFiniteSet({Normal})
    BY FS_Singleton
  <2>2. IsFiniteSet({Normal} \cup lanes)
    BY <1>3, <2>1, FS_Union
  <2> QED
    BY <1>4, <2>2, FS_Union
<1>6. S \subseteq 0..3 /\ S # {}
  BY <1>3, <1>4 DEF Normal
<1> HIDE DEF S
<1>7. Min(S) \in S
  <2>1. S \subseteq Int
    BY <1>6
  <2> QED
    BY <1>5, <1>6, <2>1, ExtremesAre
<1> QED
  BY <1>6, <1>7 DEF Lane, S, lanes, live, R

(* A sum of numbers is one.                                                *)
LEMMA TotalIs ==
  ASSUME NEW S, IsFiniteSet(S), NEW f, \A x \in S : f[x] \in Int
  PROVE  Total(f, S) \in Nat
<1> DEFINE units(x) == {x} \X (1..f[x])
           h == [x \in S |-> units(x)]
           U == {h[x] : x \in S}
<1>1. \A x \in S : IsFiniteSet(h[x])
  <2> TAKE x \in S
  <2>1. IsFiniteSet({x}) /\ IsFiniteSet(1..f[x])
    <3>1. 1 \in Int /\ f[x] \in Int
      OBVIOUS
    <3> QED
      BY <3>1, FS_Singleton, FS_Interval
  <2>2. IsFiniteSet({x} \X (1..f[x]))
    BY <2>1, FS_Product
  <2> QED
    BY <2>2
<1>2. UNION {{x} \X (1..f[x]) : x \in S} = UNION U
  OBVIOUS
<1> HIDE DEF h
<1>3. IsFiniteSet(U)
  BY ImageFinite
<1>4. \A u \in U : IsFiniteSet(u)
  BY <1>1
<1> HIDE DEF U
<1>5. IsFiniteSet(UNION U)
  BY <1>3, <1>4, FS_UNION
<1>6. Cardinality(UNION U) \in Nat
  BY <1>5, FS_CardinalityType
<1> QED
  BY <1>2, <1>6 DEF Total

LEMMA ScoreIs ==
  ASSUME NEW R, Weighed(R)
  PROVE  Score(R) \in Int
<1> DEFINE best(c) == {r \in R : /\ r.category = c
                                 /\ \A o \in R : o.code = r.code => o.points <= r.points}
           codes(c) == {r.code : r \in best(c)}
           worth(c) == [k \in codes(c) |-> (CHOOSE r \in best(c) : r.code = k).points]
           points(c) == Total(worth(c), codes(c))
           capped == [c \in Categories |-> AtMost(Cap[c], points(c))]
<1>1. ASSUME NEW c PROVE points(c) \in Nat
  <2> DEFINE B == best(c)
             g == [r \in R |-> r.code]
             S == {g[r] : r \in B}
             w == [k \in S |-> (CHOOSE r \in B : r.code = k).points]
  <2>1. B \in SUBSET R /\ IsFiniteSet(R) /\ \A r \in B : r.points \in Int
    BY DEF Weighed
  <2>2. codes(c) = S
    OBVIOUS
  <2>3. worth(c) = w
    BY <2>2
  <2>4. \A r \in B : g[r] = r.code
    OBVIOUS
  <2> HIDE DEF B, g
  <2>5. IsFiniteSet(B)
    BY <2>1, FS_Subset
  <2>6. IsFiniteSet(S)
    BY <2>5, ImageFinite
  <2>7. \A k \in S : w[k] \in Int
    <3> TAKE k \in S
    <3>1. \E r \in B : r.code = k
      BY <2>4
    <3> QED
      BY <2>1, <3>1
  <2> HIDE DEF S, w
  <2>8. Total(w, S) \in Nat
    BY <2>6, <2>7, TotalIs
  <2> HIDE DEF codes, worth
  <2> QED
    BY <2>2, <2>3, <2>8
<1> HIDE DEF points
<1>2. IsFiniteSet(Categories) /\ \A c \in Categories : Cap[c] \in Int
  <2>1. Categories = {"impact", "active", "change", "reach", "recurrence", "stale"}
    BY DEF Categories, Cap
  <2>2. IsFiniteSet({"impact", "active", "change", "reach", "recurrence", "stale"})
    <3>1. IsFiniteSet({"impact"})
      BY FS_Singleton
    <3>2. IsFiniteSet({"impact"} \cup {"active"})
      BY <3>1, FS_AddElement
    <3>3. IsFiniteSet(({"impact"} \cup {"active"}) \cup {"change"})
      BY <3>2, FS_AddElement
    <3>4. IsFiniteSet((({"impact"} \cup {"active"}) \cup {"change"}) \cup {"reach"})
      BY <3>3, FS_AddElement
    <3>5. IsFiniteSet(((({"impact"} \cup {"active"}) \cup {"change"}) \cup {"reach"}) \cup {"recurrence"})
      BY <3>4, FS_AddElement
    <3>6. IsFiniteSet((((({"impact"} \cup {"active"}) \cup {"change"}) \cup {"reach"}) \cup {"recurrence"}) \cup {"stale"})
      BY <3>5, FS_AddElement
    <3> QED
      BY <3>6
  <2>3. \A c \in Categories : Cap[c] \in Int
    BY <2>1 DEF Cap
  <2> QED
    BY <2>1, <2>2, <2>3
<1>3. \A c \in Categories : capped[c] \in Int
  <2> TAKE c \in Categories
  <2>1. Cap[c] \in Int /\ points(c) \in Int
    BY <1>1, <1>2
  <2>2. AtMost(Cap[c], points(c)) \in Int
    BY <2>1 DEF AtMost
  <2> QED
    BY <2>2
<1>4. Score(R) = Total(capped, Categories)
  BY DEF Score, points
<1> HIDE DEF capped
<1>5. Total(capped, Categories) \in Nat
  BY <1>2, <1>3, TotalIs
<1> QED
  BY <1>4, <1>5

-----------------------------------------------------------------------------
(* The context of a run: the files with evidence in the order of their     *)
(* lanes and scores, cut at the target cap.                                *)
Evident(m, S) == DOMAIN m = S /\ IsFiniteSet(S) /\ S \subseteq Int /\ \A f \in S : Shaped(m[f])
Targets == [file : Int, lane : Int, score : Int]
TargetOf(m, n, f) == [file |-> f, lane |-> Lane(m, n, f), score |-> Score(Reasons(m, n, f))]
Targeted(m, n) == {TargetOf(m, n, f) : f \in {g \in DOMAIN m : Reasons(m, n, g) # {}}}
Stronger(a, b) ==
  \/ a.lane < b.lane
  \/ a.lane = b.lane /\ a.score > b.score
  \/ a.lane = b.lane /\ a.score = b.score /\ a.file < b.file
TargetOrder(m, n) == {p \in Targeted(m, n) \X Targeted(m, n) : Stronger(p[1], p[2])}

LEMMA TargetsAre ==
  ASSUME NEW m, NEW S, Evident(m, S), NEW n
  PROVE  /\ IsFiniteSet(Targeted(m, n)) /\ Targeted(m, n) \subseteq Targets
         /\ \A x \in Targeted(m, n) : x.file \in S /\ x.lane = Lane(m, n, x.file)
         /\ \A x, y \in Targeted(m, n) : x.file = y.file => x = y
<1> DEFINE held == {g \in S : Reasons(m, n, g) # {}}
           h == [f \in held |-> TargetOf(m, n, f)]
<1>1. Targeted(m, n) = {h[f] : f \in held}
  BY DEF Targeted, Evident
<1>2. IsFiniteSet(held)
  <2>1. held \in SUBSET S /\ IsFiniteSet(S)
    BY DEF Evident
  <2> HIDE DEF held
  <2> QED
    BY <2>1, FS_Subset
<1>3. IsFiniteSet({h[f] : f \in held})
  <2> HIDE DEF h, held
  <2> QED
    BY <1>2, ImageFinite
<1>4. ASSUME NEW f \in S PROVE Lane(m, n, f) \in Int /\ Score(Reasons(m, n, f)) \in Int /\ f \in Int
  <2>1. Shaped(m[f]) /\ f \in Int
    BY DEF Evident
  <2>2. Weighed(Reasons(m, n, f))
    BY <2>1, ReasonsWeighed
  <2>3. Lane(m, n, f) \in 0..3
    BY <2>1, LaneIs
  <2>4. Score(Reasons(m, n, f)) \in Int
    BY <2>2, ScoreIs
  <2> QED
    BY <2>1, <2>3, <2>4
<1>5. ASSUME NEW f \in S
      PROVE  /\ TargetOf(m, n, f) \in Targets /\ TargetOf(m, n, f).file = f
             /\ TargetOf(m, n, f).lane = Lane(m, n, f)
  BY <1>4 DEF TargetOf, Targets
<1>6. ASSUME NEW x \in Targeted(m, n) PROVE \E f \in S : x = TargetOf(m, n, f)
  BY DEF Targeted, Evident
<1>7. IsFiniteSet(Targeted(m, n))
  <2> HIDE DEF h, held
  <2> QED
    BY <1>1, <1>3
<1> HIDE DEF h, held
<1>8. \A x \in Targeted(m, n) : x \in Targets /\ x.file \in S /\ x = TargetOf(m, n, x.file)
                                 /\ x.lane = Lane(m, n, x.file)
  <2> TAKE x \in Targeted(m, n)
  <2>1. PICK f \in S : x = TargetOf(m, n, f)
    BY <1>6
  <2> QED
    BY <1>5, <2>1
<1>9. \A x, y \in Targeted(m, n) : x.file = y.file => x = y
  BY <1>8
<1> QED
  BY <1>7, <1>8, <1>9

LEMMA TargetStrict ==
  ASSUME NEW m, NEW S, Evident(m, S), NEW n
  PROVE  StrictOrder(Targeted(m, n), TargetOrder(m, n))
<1> DEFINE T == Targeted(m, n)
<1>1. \A x, y \in T : <<x, y>> \in TargetOrder(m, n) <=> Stronger(x, y)
  BY DEF TargetOrder
<1>2. /\ \A x \in T : x.file \in Int /\ x.lane \in Int /\ x.score \in Int
      /\ \A x, y \in T : x.file = y.file => x = y
  BY TargetsAre DEF Targets
<1> HIDE DEF T
<1>3. \A x \in T : ~Stronger(x, x)
  BY <1>2 DEF Stronger
<1>4. \A x, y \in T : x # y => Stronger(x, y) \/ Stronger(y, x)
  <2> TAKE x \in T
  <2> TAKE y \in T
  <2>1. /\ x.file \in Int /\ x.lane \in Int /\ x.score \in Int
        /\ y.file \in Int /\ y.lane \in Int /\ y.score \in Int
        /\ x.file = y.file => x = y
    BY <1>2
  <2> QED
    BY <2>1 DEF Stronger
<1>5. \A x, y, z \in T : Stronger(x, y) /\ Stronger(y, z) => Stronger(x, z)
  <2> TAKE x \in T
  <2> TAKE y \in T
  <2> TAKE z \in T
  <2>1. /\ x.file \in Int /\ x.lane \in Int /\ x.score \in Int
        /\ y.file \in Int /\ y.lane \in Int /\ y.score \in Int
        /\ z.file \in Int /\ z.lane \in Int /\ z.score \in Int
    BY <1>2
  <2> QED
    BY <2>1 DEF Stronger
<1> QED
  BY <1>1, <1>3, <1>4, <1>5 DEF StrictOrder, T

RankedTargets(m, n) ==
  Ranked(Targeted(m, n),
         LAMBDA a, b : \/ a.lane < b.lane
                       \/ a.lane = b.lane /\ a.score > b.score
                       \/ a.lane = b.lane /\ a.score = b.score /\ a.file < b.file)

LEMMA TargetsRanked ==
  ASSUME NEW m, NEW S, Evident(m, S), NEW n
  PROVE  RankedTargets(m, n) \in Seq(Targeted(m, n))
<1> DEFINE T == Targeted(m, n)
           N == Cardinality(T)
           q == RankedTargets(m, n)
           R == TargetOrder(m, n)
<1>1. \A x \in T : {y \in T : Stronger(y, x)} = Below(T, R, x)
  BY DEF Below, TargetOrder
<1>2. q = [i \in 1..N |-> CHOOSE x \in T : Cardinality({y \in T : Stronger(y, x)}) = i - 1]
  BY DEF RankedTargets, Ranked, Stronger
<1>3. StrictOrder(T, R) /\ IsFiniteSet(T)
  BY TargetStrict, TargetsAre
<1> HIDE DEF T, q, R
<1>4. ASSUME NEW i \in 1..N PROVE \E x \in T : Cardinality({y \in T : Stronger(y, x)}) = i - 1
  <2>1. PICK x \in T : Cardinality(Below(T, R, x)) = i - 1
    BY <1>3, Positions
  <2> QED
    BY <1>1, <2>1
<1>5. ASSUME NEW i \in 1..N PROVE q[i] \in T /\ Cardinality({y \in T : Stronger(y, q[i])}) = i - 1
  BY <1>2, <1>4
<1>6. q \in [1..N -> T]
  BY <1>2, <1>5
<1>7. Lists(q, T, R)
  BY <1>1, <1>5, <1>6 DEF Lists
<1>8. q \in Seq(T)
  BY <1>3, <1>7, Listed
<1> QED
  BY <1>8 DEF T, q

(* What a context promises of the admissions that are taken from it.       *)
Evidenced(c, m, S, n, most) ==
  /\ Bounded(c) /\ c.maxFiles <= most
  /\ \A f \in ToSet(c.promotions) : f \in S /\ Lane(m, n, f) <= High

LEMMA ContextIs ==
  ASSUME NEW m, NEW S, Evident(m, S)
  PROVE  Evidenced(BuildContext(m, Limits), m, S, Limits.glob, Limits.files)
<1> DEFINE n == Limits.glob
           T == Targeted(m, n)
           ranked == RankedTargets(m, n)
           k == AtMost(Limits.targets, Len(ranked))
           visible == SubSeq(ranked, 1, k)
           I == {i \in DOMAIN visible : visible[i].lane <= High}
           promotable == Picked(visible, I)
           promotions == [i \in DOMAIN promotable |-> promotable[i].file]
           b == AtMost(MaxPromotionBatches, Limits.batches)
           w == AtMost(MaxPromotionFiles, Limits.files)
           c == BuildContext(m, Limits)
<1>1. c = [degraded |-> FALSE, targets |-> visible, promotions |-> promotions, maxBatches |-> b, maxFiles |-> w]
  BY DEF BuildContext, RankedTargets, Targeted, TargetOf, Select
<1>2. /\ Limits.targets \in Nat /\ Limits.batches \in Nat /\ Limits.files \in Nat
      /\ MaxPromotionBatches \in Nat /\ MaxPromotionFiles \in Nat
  BY AuditAssumption
<1>3. ranked \in Seq(T) /\ T \subseteq Targets
  BY TargetsRanked, TargetsAre
<1>4. \A x \in T : x.file \in S /\ x.file \in Int /\ x.lane = Lane(m, n, x.file)
  BY TargetsAre DEF Targets
<1> HIDE DEF T, ranked
<1>5. k \in 0..Len(ranked)
  <2>1. Len(ranked) \in Nat
    BY <1>3
  <2> QED
    BY <1>2, <2>1 DEF AtMost
<1> HIDE DEF k
<1>6. visible \in Seq(T)
  BY <1>3, <1>5, PrefixIs
<1>7. visible \in Seq(Targets)
  BY <1>3, <1>6, SeqWider
<1> HIDE DEF visible
<1>8. Len(visible) \in Nat /\ DOMAIN visible = 1..Len(visible) /\ \A i \in 1..Len(visible) : visible[i] \in T
  BY <1>6, SeqParts
<1>9. I \in SUBSET (1..Len(visible))
  BY <1>8
<1>10. /\ Len(promotable) \in Nat /\ DOMAIN promotable = 1..Len(promotable)
       /\ \A j \in 1..Len(promotable) : promotable[j] \in T /\ promotable[j].lane <= High
  <2> DEFINE P == {x \in T : x.lane <= High}
  <2>1. \A i \in I : visible[i] \in P
    BY <1>8
  <2>2. promotable \in Seq(T) /\ ToSet(promotable) = {visible[i] : i \in I}
    <3> HIDE DEF I
    <3> QED
      BY <1>6, <1>9, PickedSet
  <2> HIDE DEF promotable
  <2>3. /\ Len(promotable) \in Nat /\ DOMAIN promotable = 1..Len(promotable)
        /\ \A j \in 1..Len(promotable) : promotable[j] \in ToSet(promotable)
    BY <2>2, SeqParts DEF ToSet
  <2>4. \A j \in 1..Len(promotable) : promotable[j] \in P
    <3> HIDE DEF I, P
    <3> QED
      BY <2>1, <2>2, <2>3
  <2> QED
    BY <2>3, <2>4
<1> HIDE DEF promotable
<1>11. promotions = [j \in 1..Len(promotable) |-> promotable[j].file]
  BY <1>10
<1>12. promotions \in Seq(Int)
  <2>1. \A j \in 1..Len(promotable) : promotable[j].file \in Int
    BY <1>4, <1>10
  <2> QED
    BY <1>10, <1>11, <2>1
<1>13. \A f \in ToSet(promotions) : f \in S /\ Lane(m, n, f) <= High
  <2> TAKE f \in ToSet(promotions)
  <2>1. PICK j \in 1..Len(promotable) : f = promotable[j].file
    BY <1>11 DEF ToSet
  <2>2. promotable[j] \in T /\ promotable[j].lane <= High
    BY <1>10
  <2> QED
    BY <1>4, <2>1, <2>2
<1>14. b \in Nat /\ w \in Nat /\ b <= MaxPromotionBatches /\ w <= MaxPromotionFiles /\ w <= Limits.files
  BY <1>2 DEF AtMost
<1> HIDE DEF promotions, b, w
<1>15. visible \in Seq([file : Int, lane : Int, score : Int])
  BY <1>7 DEF Targets
<1>16. c \in Contexts
  BY <1>1, <1>12, <1>14, <1>15 DEF Contexts
<1>17. c.maxBatches = b /\ c.maxFiles = w /\ c.promotions = promotions
  BY <1>1
<1> HIDE DEF c
<1> QED
  BY <1>13, <1>14, <1>16, <1>17 DEF Evidenced, Bounded, c

LEMMA DegradedIs ==
  \A m, S, n : \A most \in Nat : Evidenced(Degraded, m, S, n, most)
<1>1. Degraded \in Contexts /\ Degraded.maxBatches = 0 /\ Degraded.maxFiles = 0 /\ Degraded.promotions = <<>>
  BY DEF Degraded, Contexts
<1>2. ToSet(<<>>) = {}
  BY DEF ToSet
<1>3. MaxPromotionBatches \in Nat /\ MaxPromotionFiles \in Nat
  BY AuditAssumption
<1> QED
  BY <1>1, <1>2, <1>3 DEF Evidenced, Bounded

-----------------------------------------------------------------------------
(* The inductive invariant.  A run keeps what it was seeded with: the plan *)
(* both planners make; a plan that is reordered, admitted, covered or put  *)
(* back is the seeded one rearranged; an admission was granted for strong  *)
(* evidence, and once a receipt is written it is the one of the receipt.   *)
(* An interrupted `apply' holds a plan with the same covered batches and   *)
(* no other admission, and a batch that is being covered is neither        *)
(* deferred nor covered yet.                                               *)
Signals == [g \in Known |-> signals[g]]

Seeded ==
  /\ tree \in Trees /\ caps \in CapChoices /\ signals \in SignalChoices /\ findings \in Ledgers
  /\ plan = ShellPlan(tree, caps)

Granted(admission, p, m, S, n, most) ==
  /\ \A id \in ToSet(admission.promoted) : \E f \in ToSet(p.batches[id].files) \cap S : Lane(m, n, f) <= High
  /\ Cardinality(FilesIn(p, ToSet(admission.promoted))) <= most

Contextual == context # None => Evidenced(context, Signals, Known, Limits.glob, Limits.files)
Planned == Kept(recon, plan)
Warranted == recon.admission # None => Granted(recon.admission, plan, Signals, Known, Limits.glob, Limits.files)
Receipted ==
  application # None /\ plan.large =>
    recon.admission # None /\ application.promoted = ToSet(recon.admission.promoted)

Applying ==
  Calling("receipt") =>
    /\ Kept(call.before, plan) /\ call.before.covered = recon.covered
    /\ context # None /\ (plan.large => recon.admission # None)
    /\ call.before.admission # None => recon.admission = call.before.admission
    /\ application # None /\ plan.large => call.before.admission # None

Unreviewed(id) ==
  /\ id \in 1..Size(plan) /\ id \notin ToSet(recon.covered)
  /\ \A i \in 1..Size(plan) : recon.batches[i].id = id => ~recon.batches[i].deferred
Covering ==
  Calling("event") \/ Calling("list") => call \in [step : {"event", "list"}, batch : Nat] /\ Unreviewed(call.batch)

Reviewed == snaps \subseteq 1..Size(plan) /\ events \subseteq 1..Size(plan)

Inv ==
  /\ Seeded /\ Contextual /\ Planned /\ Warranted /\ Receipted /\ Applying /\ Covering /\ Reviewed

LEMMA InvParts ==
  ASSUME Inv
  PROVE  /\ Seeded /\ Contextual /\ Planned /\ Warranted /\ Receipted /\ Applying /\ Covering /\ Reviewed
         /\ Kept(recon, plan) /\ Same(recon, plan) /\ recon \in Plans /\ Size(plan) \in Nat
         /\ Parted(plan, InScope(tree)) /\ Evident(Signals, Known)
<1>1. Seeded /\ Contextual /\ Planned /\ Warranted /\ Receipted /\ Applying /\ Covering /\ Reviewed
  BY DEF Inv
<1>2. Kept(recon, plan) /\ Same(recon, plan) /\ recon \in Plans /\ plan \in Plans
  BY <1>1 DEF Planned, Kept, Same
<1>3. Size(plan) \in Nat
  BY <1>2, PlanParts
<1>4. Parted(plan, InScope(tree))
  BY <1>1, ShellPlanIs DEF Seeded
<1>5. Evident(Signals, Known)
  <2>1. signals \in SignalChoices /\ tree \in Trees
    BY <1>1 DEF Seeded
  <2>2. Known \in SUBSET InScope(tree) /\ \A f \in Known : f \in DOMAIN signals
    BY DEF Known
  <2>3. IsFiniteSet(Known) /\ Known \subseteq Int
    BY <2>1, <2>2, TreeParts, FS_Subset
  <2>4. ASSUME NEW f \in Known PROVE Shaped(Signals[f])
    <3>1. f \in DOMAIN signals
      BY <2>2
    <3>2. /\ {signals[f].historyScore, signals[f].fixes, signals[f].recentFixes, signals[f].reverts} \subseteq Int
          /\ signals[f].risk \in Int \cup {None} /\ signals[f].issue \in 0..4 \cup {None}
          /\ signals[f].project # None => signals[f].project.confidence \in Int
      BY <2>1, <3>1, AuditAssumption
    <3>3. Signals[f] = signals[f]
      BY DEF Signals
    <3> QED
      BY <3>2, <3>3 DEF Shaped
  <2> QED
    BY <2>3, <2>4 DEF Evident, Signals
<1> QED
  BY <1>1, <1>2, <1>3, <1>4, <1>5

(* The seed is never written.                                              *)
LEMMA Inputs ==
  ASSUME Inv, UNCHANGED inputs
  PROVE  /\ Seeded' /\ plan' = plan /\ tree' = tree /\ Known' = Known /\ Signals' = Signals
<1>1. tree' = tree /\ caps' = caps /\ plan' = plan /\ signals' = signals /\ findings' = findings
  BY DEF inputs
<1>2. Known' = Known
  BY <1>1 DEF Known
<1>3. Signals' = Signals
  BY <1>1, <1>2 DEF Signals
<1>4. Seeded'
  BY <1>1, InvParts DEF Seeded
<1> QED
  BY <1>1, <1>2, <1>3, <1>4

LEMMA InvInit == Init => Inv
<1> SUFFICES ASSUME Init PROVE Inv
  OBVIOUS
<1>1. /\ tree \in Trees /\ caps \in CapChoices /\ signals \in SignalChoices /\ findings \in Ledgers
      /\ plan \in {BuildPlan(tree, caps), ShellPlan(tree, caps)} /\ recon = plan
      /\ context = None /\ application = None /\ snaps = {} /\ events = {} /\ call = None
  BY DEF Init
<1>2. plan = ShellPlan(tree, caps)
  BY <1>1, PlannersAgree
<1>3. Kept(recon, plan)
  BY <1>1, <1>2, ShellPlanIs
<1>4. recon.admission = None
  BY <1>1, <1>2 DEF ShellPlan
<1> QED
  BY <1>1, <1>2, <1>3, <1>4 DEF Inv, Seeded, Contextual, Planned, Warranted, Receipted, Applying, Covering,
     Reviewed, Calling

(* Steps that leave the plan and its receipt alone.                        *)
LEMMA PlanUntouched ==
  ASSUME Inv, UNCHANGED <<inputs, recon, application>>
  PROVE  Planned' /\ Warranted' /\ Receipted'
<1>1. recon' = recon /\ application' = application /\ plan' = plan /\ Known' = Known /\ Signals' = Signals
  <2>1. UNCHANGED inputs /\ recon' = recon /\ application' = application
    OBVIOUS
  <2> QED
    BY <2>1, Inputs
<1>2. Planned'
  BY <1>1, InvParts DEF Planned
<1>3. Warranted'
  BY <1>1, InvParts DEF Warranted
<1>4. Receipted'
  BY <1>1, InvParts DEF Receipted
<1> QED
  BY <1>2, <1>3, <1>4

LEMMA BuildPriorityKeeps == Inv /\ BuildPriority => Inv'
<1> SUFFICES ASSUME Inv, BuildPriority PROVE Inv'
  OBVIOUS
<1>1. /\ call = None /\ UNCHANGED <<inputs, recon, application, snaps, events, call>>
      /\ context' \in {BuildContext(Signals, Limits), Degraded}
  BY DEF BuildPriority, surfaces, Signals
<1>2. Seeded' /\ plan' = plan /\ Known' = Known /\ Signals' = Signals
  BY <1>1, Inputs
<1>3. Planned' /\ Warranted' /\ Receipted'
  BY <1>1, PlanUntouched
<1>4. Contextual'
  <2>1. Evidenced(BuildContext(Signals, Limits), Signals, Known, Limits.glob, Limits.files)
    BY InvParts, ContextIs
  <2>2. Limits.files \in Nat
    BY AuditAssumption
  <2>3. Evidenced(Degraded, Signals, Known, Limits.glob, Limits.files)
    BY <2>2, DegradedIs
  <2> QED
    BY <1>1, <1>2, <2>1, <2>3 DEF Contextual
<1>5. Applying' /\ Covering'
  BY <1>1 DEF Applying, Covering, Calling
<1>6. Reviewed'
  BY <1>1, <1>2, InvParts DEF Reviewed
<1> QED
  BY <1>2, <1>3, <1>4, <1>5, <1>6 DEF Inv

(* An admission was kept, or it was taken from the context just now.       *)
LEMMA AdmissionGranted ==
  ASSUME NEW r, NEW p, NEW c, NEW m, NEW S, NEW n, NEW most \in Int,
         TakenFrom(r, p, c), Evidenced(c, m, S, n, most), Kept(r, p), r.admission # None
  PROVE  Granted(r.admission, p, m, S, n, most)
<1>1. ASSUME NEW id \in ToSet(r.admission.promoted)
      PROVE  \E f \in ToSet(p.batches[id].files) \cap S : Lane(m, n, f) <= High
  <2>1. PICK f \in ToSet(c.promotions) : f \in ToSet(p.batches[id].files)
    BY DEF TakenFrom
  <2>2. f \in S /\ Lane(m, n, f) <= High
    BY DEF Evidenced
  <2> QED
    BY <2>1, <2>2
<1>2. Cardinality(FilesIn(p, ToSet(r.admission.promoted))) <= most
  <2>1. Cardinality(FilesIn(p, ToSet(r.admission.promoted))) <= c.maxFiles /\ c.maxFiles <= most /\ c.maxFiles \in Nat
    BY DEF TakenFrom, Evidenced, Bounded, Contexts
  <2>2. Cardinality(FilesIn(p, ToSet(r.admission.promoted))) \in Int
    <3> DEFINE promoted == r.admission.promoted
               E == ToSet(promoted)
               h == [id \in E |-> ToSet(p.batches[id].files)]
    <3>1. promoted \in Seq(1..Size(p)) /\ p \in Plans
      BY FrozenIs DEF Fits, Kept, Same
    <3> HIDE DEF promoted
    <3>2. IsFiniteSet(E) /\ E \subseteq 1..Size(p)
      BY <3>1, ToSetSize
    <3>3. \A id \in E : IsFiniteSet(h[id])
      <4> TAKE id \in E
      <4>1. p.batches[id].files \in Seq(Int)
        BY <3>1, <3>2, PlanParts
      <4> QED
        BY <4>1, ToSetSize
    <3>4. FilesIn(p, E) = UNION {h[id] : id \in E}
      BY DEF FilesIn
    <3> HIDE DEF E, h
    <3>5. IsFiniteSet({h[id] : id \in E})
      BY <3>2, ImageFinite
    <3>6. IsFiniteSet(UNION {h[id] : id \in E})
      BY <3>3, <3>5, FS_UNION
    <3>7. Cardinality(FilesIn(p, E)) \in Nat
      BY <3>4, <3>6, FS_CardinalityType
    <3> QED
      BY <3>7 DEF E, promoted
  <2> QED
    BY <2>1, <2>2
<1> QED
  BY <1>1, <1>2 DEF Granted

LEMMA ApplyReconKeeps == Inv /\ ApplyRecon => Inv'
<1> SUFFICES ASSUME Inv, ApplyRecon PROVE Inv'
  OBVIOUS
<1>1. /\ context # None /\ UNCHANGED <<inputs, context, application, snaps, events>>
      /\ recon' = Reprioritize(recon, context, Fresh(marker, shared, HeadBlob, dirty))
      /\ call' = [step |-> "receipt", before |-> recon]
  BY DEF ApplyRecon, surfaces
<1>2. Seeded' /\ plan' = plan /\ Known' = Known /\ Signals' = Signals
  BY <1>1, Inputs
<1>3. Evidenced(context, Signals, Known, Limits.glob, Limits.files) /\ Bounded(context)
  BY <1>1, InvParts DEF Contextual, Evidenced
<1>4. Kept(recon, plan)
  BY InvParts
<1>5. /\ Kept(recon', plan) /\ recon'.covered = recon.covered
      /\ plan.large => recon'.admission # None
      /\ recon.admission # None => recon'.admission = recon.admission
      /\ plan.large /\ recon.admission = None => TakenFrom(recon', plan, context)
  BY <1>1, <1>3, <1>4, ReprioritizeIs
<1>6. Warranted'
  <2>1. CASE recon.admission # None
    BY <1>2, <1>5, <2>1, InvParts DEF Warranted
  <2>2. CASE recon.admission = None /\ plan.large
    <3>1. Limits.files \in Int
      BY AuditAssumption
    <3>2. Granted(recon'.admission, plan, Signals, Known, Limits.glob, Limits.files)
      BY <1>3, <1>5, <2>2, <3>1, AdmissionGranted
    <3> QED
      BY <1>2, <3>2 DEF Warranted
  <2>3. CASE ~plan.large
    BY <1>2, <1>5, <2>3 DEF Warranted, Kept
  <2> QED
    BY <2>1, <2>2, <2>3
<1>7. Receipted'
  BY <1>1, <1>2, <1>5, InvParts DEF Receipted
<1>8. Applying'
  <2>1. call'.before = recon
    BY <1>1
  <2>2. application # None /\ plan.large => recon.admission # None
    BY InvParts DEF Receipted
  <2> QED
    BY <1>1, <1>2, <1>4, <1>5, <2>1, <2>2 DEF Applying
<1>9. Covering'
  BY <1>1 DEF Covering, Calling
<1>10. Contextual' /\ Reviewed' /\ Planned'
  BY <1>1, <1>2, <1>5, InvParts DEF Contextual, Reviewed, Planned
<1> QED
  BY <1>2, <1>6, <1>7, <1>8, <1>9, <1>10 DEF Inv

LEMMA ApplyReceiptKeeps == Inv /\ ApplyReceipt => Inv'
<1> SUFFICES ASSUME Inv, ApplyReceipt PROVE Inv'
  OBVIOUS
<1>1. /\ Calling("receipt") /\ call' = None /\ UNCHANGED <<inputs, recon, context, snaps, events>>
      /\ application' = Application(call.before, recon, context)
  BY DEF ApplyReceipt, surfaces
<1>2. Seeded' /\ plan' = plan /\ Known' = Known /\ Signals' = Signals
  BY <1>1, Inputs
<1>3. Planned' /\ Warranted' /\ Contextual' /\ Reviewed'
  BY <1>1, <1>2, InvParts DEF Planned, Warranted, Contextual, Reviewed
<1>4. Receipted'
  <2>1. plan.large => recon.admission # None
    BY <1>1, InvParts DEF Applying
  <2>2. recon.admission # None => application'.promoted = ToSet(recon.admission.promoted)
    BY <1>1 DEF Application
  <2> QED
    BY <1>1, <1>2, <2>1, <2>2 DEF Receipted
<1>5. Applying' /\ Covering'
  BY <1>1 DEF Applying, Covering, Calling
<1> QED
  BY <1>2, <1>3, <1>4, <1>5 DEF Inv

LEMMA ApplyRollbackKeeps == Inv /\ ApplyRollback => Inv'
<1> SUFFICES ASSUME Inv, ApplyRollback PROVE Inv'
  OBVIOUS
<1>1. /\ Calling("receipt") /\ call' = None /\ recon' = call.before
      /\ UNCHANGED <<inputs, context, application, snaps, events>>
  BY DEF ApplyRollback, surfaces
<1>2. Seeded' /\ plan' = plan /\ Known' = Known /\ Signals' = Signals
  BY <1>1, Inputs
<1>3. /\ Kept(recon', plan)
      /\ recon'.admission # None => recon.admission = recon'.admission
      /\ application # None /\ plan.large => recon'.admission # None
  BY <1>1, InvParts DEF Applying
<1>4. Planned' /\ Contextual' /\ Reviewed'
  BY <1>1, <1>2, <1>3, InvParts DEF Planned, Contextual, Reviewed
<1>5. Warranted'
  BY <1>2, <1>3, InvParts DEF Warranted
<1>6. Receipted'
  BY <1>1, <1>2, <1>3, InvParts DEF Receipted
<1>7. Applying' /\ Covering'
  BY <1>1 DEF Applying, Covering, Calling
<1> QED
  BY <1>2, <1>4, <1>5, <1>6, <1>7 DEF Inv

(* A batch that is being covered joins the list once.                      *)
LEMMA CoverKept ==
  ASSUME NEW r, NEW p, Kept(r, p), NEW id \in 1..Size(p), id \notin ToSet(r.covered),
         \A i \in 1..Size(p) : r.batches[i].id = id => ~r.batches[i].deferred
  PROVE  LET a == [r EXCEPT !.covered = Append(@, id)] IN
         Kept(a, p) /\ a.admission = r.admission
<1> DEFINE N == Size(p)
           q == Append(r.covered, id)
           a == [r EXCEPT !.covered = q]
<1>1. Same(r, p) /\ r \in Plans /\ p \in Plans /\ r.covered \in Seq(1..N) /\ IsInjective(r.covered)
  BY DEF Kept, Same
<1>2. /\ q \in Seq(1..N) /\ IsInjective(q) /\ ToSet(q) = ToSet(r.covered) \cup {id}
  <2> HIDE DEF N
  <2> QED
    BY <1>1, ToSetAppend DEF N
<1>3. N \in Nat
  BY <1>1, PlanParts
<1>4. q \in Seq(Nat)
  <2>1. 1..N \subseteq Nat
    OBVIOUS
  <2> HIDE DEF N
  <2> QED
    BY <1>2, <2>1, SeqWider
<1>5. PICK i \in 1..N : r.batches[i].id = id
  BY <1>1 DEF Same
<1>6. ~r.batches[i].deferred
  BY <1>5
<1> HIDE DEF q, N
<1>7. /\ a \in Plans /\ a.batches = r.batches /\ a.filesInScope = r.filesInScope /\ a.batchCount = r.batchCount
      /\ a.large = r.large /\ a.budget = r.budget /\ a.admission = r.admission /\ a.covered = q
  BY <1>1, <1>4 DEF Plans
<1> HIDE DEF a
<1>8. Same(a, p)
  BY <1>1, <1>7 DEF Same, Size
<1>9. ASSUME ~p.large PROVE Kept(a, p)
  BY <1>2, <1>7, <1>8, <1>9 DEF Kept, N
<1>10. ASSUME p.large, r.admission = None PROVE Kept(a, p)
  <2>1. /\ p.budget \in Nat /\ ToSet(r.covered) \subseteq 1..p.budget
        /\ \A k \in 1..N : r.batches[k].deferred = (r.batches[k].id > p.budget)
    BY <1>10 DEF Kept, N
  <2>2. id \in 1..p.budget
    <3>1. ~(id > p.budget)
      BY <1>5, <1>6, <2>1
    <3>2. id \in Nat /\ 1 <= id
      BY <1>3 DEF N
    <3> QED
      BY <2>1, <3>1, <3>2
  <2>3. ToSet(q) \subseteq 1..p.budget
    BY <1>2, <2>1, <2>2
  <2> QED
    BY <1>2, <1>7, <1>8, <1>10, <2>1, <2>3 DEF Kept, N
<1>11. ASSUME p.large, r.admission # None PROVE Kept(a, p)
  <2>1. p.budget \in Nat /\ Fits(r, p)
    BY <1>11 DEF Kept
  <2>2. id \in ToSet(r.admission.base \o r.admission.promoted)
    BY <1>5, <1>6, <2>1 DEF Fits, N
  <2>3. Fits(a, p)
    BY <1>2, <1>7, <2>1, <2>2 DEF Fits
  <2> QED
    BY <1>2, <1>7, <1>8, <1>11, <2>1, <2>3 DEF Kept, N
<1>12. Kept(a, p)
  BY <1>9, <1>10, <1>11
<1> QED
  BY <1>7, <1>12 DEF a, q

(* The batch that is reviewed next is neither deferred nor covered.        *)
LEMMA OpenIs ==
  ASSUME Inv, Open # <<>>
  PROVE  Unreviewed(Open[1].id)
<1> DEFINE s == recon.batches
           I == {i \in DOMAIN s : ~ s[i].deferred /\ s[i].id \notin ToSet(recon.covered)}
<1>1. Open = Picked(s, I)
  BY DEF Open, Select
<1>2. s \in Seq(Batches) /\ Len(s) = Size(plan) /\ DOMAIN s = 1..Len(s)
  <2>1. Same(recon, plan) /\ recon \in Plans
    BY InvParts
  <2>2. s \in Seq(Batches) /\ DOMAIN s = 1..Size(recon)
    BY <2>1, PlanParts
  <2> QED
    BY <2>1, <2>2 DEF Same, Size
<1>3. I \in SUBSET (1..Len(s))
  BY <1>2
<1>4. /\ Open \in Seq(Batches) /\ Len(Open) = Cardinality(I) /\ Cardinality(I) \in Nat
      /\ \A n \in 1..Cardinality(I) : \E i \in I : Open[n] = s[i]
  <2> HIDE DEF s, I
  <2> QED
    BY <1>1, <1>2, <1>3, PickedIs
<1>5. 1 \in 1..Cardinality(I)
  BY <1>4
<1>6. PICK i \in I : Open[1] = s[i]
  BY <1>4, <1>5
<1>7. i \in 1..Size(plan) /\ ~ s[i].deferred /\ s[i].id \notin ToSet(recon.covered)
  BY <1>2, <1>6
<1> HIDE DEF I
<1>8. /\ s[i].id \in 1..Size(plan)
      /\ \A k \in 1..Size(plan) : s[k].id = s[i].id => k = i
  BY <1>7, InvParts DEF Same
<1> QED
  BY <1>6, <1>7, <1>8 DEF Unreviewed

LEMMA CoverSnapshotsKeeps == Inv /\ CoverSnapshots => Inv'
<1> SUFFICES ASSUME Inv, CoverSnapshots PROVE Inv'
  OBVIOUS
<1> DEFINE id == Open[1].id
           w == IF id \in events THEN "list" ELSE "event"
<1>1. /\ Open # <<>> /\ UNCHANGED <<inputs, recon, context, application, events>>
      /\ snaps' = snaps \cup {id} \/ snaps' = snaps
      /\ call' = [step |-> w, batch |-> id]
  BY DEF CoverSnapshots
<1>2. Unreviewed(id)
  BY <1>1, OpenIs
<1>3. w \in {"event", "list"} /\ w # "receipt" /\ id \in Nat
  <2>1. id \in 1..Size(plan) /\ Size(plan) \in Nat
    BY <1>2, InvParts DEF Unreviewed
  <2>2. w = "list" \/ w = "event"
    OBVIOUS
  <2> HIDE DEF id, w
  <2> QED
    BY <2>1, <2>2
<1> HIDE DEF id, w
<1>4. Seeded' /\ plan' = plan /\ Known' = Known /\ Signals' = Signals
  BY <1>1, Inputs
<1>5. Planned' /\ Warranted' /\ Receipted'
  BY <1>1, PlanUntouched
<1>6. Contextual'
  BY <1>1, <1>4, InvParts DEF Contextual
<1>7. Reviewed'
  BY <1>1, <1>2, <1>4, InvParts DEF Reviewed, Unreviewed
<1>8. Applying'
  BY <1>1, <1>3 DEF Applying, Calling
<1>9. Covering'
  <2>1. call' \in [step : {"event", "list"}, batch : Nat] /\ call'.batch = id
    BY <1>1, <1>3
  <2>2. recon' = recon
    BY <1>1
  <2> QED
    BY <1>2, <1>4, <2>1, <2>2 DEF Covering, Unreviewed
<1> QED
  BY <1>4, <1>5, <1>6, <1>7, <1>8, <1>9 DEF Inv

LEMMA CoverEventKeeps == Inv /\ CoverEvent => Inv'
<1> SUFFICES ASSUME Inv, CoverEvent PROVE Inv'
  OBVIOUS
<1>1. /\ Calling("event") /\ UNCHANGED <<inputs, recon, context, application, snaps>>
      /\ events' = events \cup {call.batch} /\ call' = [call EXCEPT !.step = "list"]
  BY DEF CoverEvent
<1>2. call \in [step : {"event", "list"}, batch : Nat] /\ Unreviewed(call.batch)
  BY <1>1, InvParts DEF Covering
<1>3. call' \in [step : {"event", "list"}, batch : Nat] /\ call'.batch = call.batch /\ call'.step = "list"
  <2>1. \A c \in [step : {"event", "list"}, batch : Nat] :
          LET d == [c EXCEPT !.step = "list"] IN
          d \in [step : {"event", "list"}, batch : Nat] /\ d.batch = c.batch /\ d.step = "list"
    OBVIOUS
  <2> QED
    BY <1>1, <1>2, <2>1
<1>4. Seeded' /\ plan' = plan /\ Known' = Known /\ Signals' = Signals
  BY <1>1, Inputs
<1>5. Planned' /\ Warranted' /\ Receipted'
  BY <1>1, PlanUntouched
<1>6. Contextual'
  BY <1>1, <1>4, InvParts DEF Contextual
<1>7. Reviewed'
  BY <1>1, <1>2, <1>4, InvParts DEF Reviewed, Unreviewed
<1>8. Applying'
  BY <1>3 DEF Applying, Calling
<1>9. Covering'
  BY <1>1, <1>2, <1>3, <1>4 DEF Covering, Unreviewed
<1> QED
  BY <1>4, <1>5, <1>6, <1>7, <1>8, <1>9 DEF Inv

LEMMA CoverListKeeps == Inv /\ CoverList => Inv'
<1> SUFFICES ASSUME Inv, CoverList PROVE Inv'
  OBVIOUS
<1>1. /\ Calling("list") /\ call' = None /\ UNCHANGED <<inputs, context, application, snaps, events>>
      /\ recon' = [recon EXCEPT !.covered = Append(@, call.batch)]
  BY DEF CoverList, surfaces
<1>2. Unreviewed(call.batch)
  BY <1>1, InvParts DEF Covering
<1>3. Seeded' /\ plan' = plan /\ Known' = Known /\ Signals' = Signals
  BY <1>1, Inputs
<1>4. Kept(recon', plan) /\ recon'.admission = recon.admission
  <2>1. Kept(recon, plan)
    BY InvParts
  <2> QED
    BY <1>1, <1>2, <2>1, CoverKept DEF Unreviewed
<1>5. Planned' /\ Contextual' /\ Reviewed'
  BY <1>1, <1>3, <1>4, InvParts DEF Planned, Contextual, Reviewed
<1>6. Warranted'
  BY <1>3, <1>4, InvParts DEF Warranted
<1>7. Receipted'
  BY <1>1, <1>3, <1>4, InvParts DEF Receipted
<1>8. Applying' /\ Covering'
  BY <1>1 DEF Applying, Covering, Calling
<1> QED
  BY <1>3, <1>5, <1>6, <1>7, <1>8 DEF Inv

(* A killed call leaves what it wrote.                                     *)
LEMMA KillKeeps == Inv /\ Kill => Inv'
<1> SUFFICES ASSUME Inv, Kill PROVE Inv'
  OBVIOUS
<1>1. call' = None /\ UNCHANGED <<inputs, recon, context, application, snaps, events>>
  BY DEF Kill, surfaces
<1>2. Seeded' /\ plan' = plan /\ Known' = Known /\ Signals' = Signals
  BY <1>1, Inputs
<1>3. Planned' /\ Warranted' /\ Receipted'
  BY <1>1, PlanUntouched
<1>4. Contextual' /\ Reviewed'
  BY <1>1, <1>2, InvParts DEF Contextual, Reviewed
<1>5. Applying' /\ Covering'
  BY <1>1 DEF Applying, Covering, Calling
<1> QED
  BY <1>2, <1>3, <1>4, <1>5 DEF Inv

(* What others do touches nothing of the run.                              *)
LEMMA WorldKeeps ==
  ASSUME Inv, UNCHANGED <<inputs, recon, context, application, snaps, events, call>> PROVE Inv'
<1>1. Seeded' /\ plan' = plan /\ Known' = Known /\ Signals' = Signals
  <2>1. UNCHANGED inputs
    OBVIOUS
  <2> QED
    BY <2>1, Inputs
<1>2. recon' = recon /\ context' = context /\ application' = application /\ snaps' = snaps /\ events' = events
      /\ call' = call
  OBVIOUS
<1>3. Planned' /\ Warranted' /\ Receipted'
  BY PlanUntouched
<1>4. Contextual' /\ Reviewed'
  BY <1>1, <1>2, InvParts DEF Contextual, Reviewed
<1>5. Applying'
  BY <1>1, <1>2, InvParts DEF Applying, Calling
<1>6. Covering'
  BY <1>1, <1>2, InvParts DEF Covering, Calling, Unreviewed
<1> QED
  BY <1>1, <1>3, <1>4, <1>5, <1>6 DEF Inv

LEMMA InvStep == Inv /\ [Next]_vars => Inv'
<1> SUFFICES ASSUME Inv, [Next]_vars PROVE Inv'
  OBVIOUS
<1>1. CASE BuildPriority
  BY <1>1, BuildPriorityKeeps
<1>2. CASE ApplyRecon
  BY <1>2, ApplyReconKeeps
<1>3. CASE ApplyReceipt
  BY <1>3, ApplyReceiptKeeps
<1>4. CASE ApplyRollback
  BY <1>4, ApplyRollbackKeeps
<1>5. CASE CoverSnapshots
  BY <1>5, CoverSnapshotsKeeps
<1>6. CASE CoverEvent
  BY <1>6, CoverEventKeeps
<1>7. CASE CoverList
  BY <1>7, CoverListKeeps
<1>8. CASE Kill
  BY <1>8, KillKeeps
<1>9. CASE Edit \/ OtherRunPersists \/ UNCHANGED vars
  <2>1. UNCHANGED <<inputs, recon, context, application, snaps, events, call>>
    BY <1>9 DEF Edit, OtherRunPersists, vars, inputs, surfaces
  <2> QED
    BY <2>1, WorldKeeps
<1> QED
  BY <1>1, <1>2, <1>3, <1>4, <1>5, <1>6, <1>7, <1>8, <1>9 DEF Next

(* The inductive invariant of Audit, for every tree, cap, index, signal    *)
(* and ledger of the assumption.                                           *)
THEOREM Inductive == Spec => []Inv
<1> QED
  BY InvInit, InvStep, PTL DEF Spec

-----------------------------------------------------------------------------
(* A resume continues with the admission of the run: whatever a killed or  *)
(* rolled-back call left in recon.json, `apply' accepts it under any       *)
(* context and any index, and keeps an admission it finds.                 *)
THEOREM PlanIsResumable == Spec => []Resumable
<1>1. Inv => Resumable
  <2> SUFFICES ASSUME Inv, NEW c \in {Degraded} \cup ({context} \ {None}), NEW fresh \in {{}, InScope(tree)}
               PROVE  /\ Reprioritize(recon, c, fresh) # None
                      /\ recon.admission # None => Reprioritize(recon, c, fresh).admission = recon.admission
    BY DEF Resumable
  <2>1. Bounded(c)
    <3>1. CASE c = Degraded
      <4>1. Evidenced(Degraded, Signals, Known, 0, 0)
        <5>1. 0 \in Nat
          OBVIOUS
        <5> QED
          BY <5>1, DegradedIs
      <4> QED
        BY <3>1, <4>1 DEF Evidenced
    <3>2. CASE c = context /\ context # None
      BY <3>2, InvParts DEF Contextual, Evidenced
    <3> QED
      BY <3>1, <3>2
  <2>2. Kept(recon, plan)
    BY InvParts
  <2> QED
    BY <2>1, <2>2, ReprioritizeIs
<1> QED
  BY <1>1, Inductive, PTL

(* A run works on its budget and one extension at most, on no batch that   *)
(* is covered and left out, and extends the budget only for files whose    *)
(* own evidence is strong; the receipt names what was admitted for them.   *)
LEMMA WorkIsBounded ==
  ASSUME NEW r, NEW p, Kept(r, p), p.large,
         NEW W, W = {id \in Ids(r) : ~ BatchOf(r, id).deferred}
  PROVE  /\ Cardinality(W \cup ToSet(r.covered)) <= r.budget + MaxPromotionBatches
         /\ r.admission # None => ToSet(r.covered) \subseteq W
<1>1. Same(r, p) /\ p.budget \in Nat /\ r.budget = p.budget /\ MaxPromotionBatches \in Nat
  BY AuditAssumption DEF Kept, Same
<1>2. /\ Ids(r) = 1..Size(p)
      /\ \A i \in 1..Size(p) : BatchOf(r, r.batches[i].id) = r.batches[i]
      /\ \A id \in 1..Size(p) : \E i \in 1..Size(p) : BatchOf(r, id) = r.batches[i] /\ r.batches[i].id = id
  BY <1>1, SameBatches
<1>3. CASE r.admission # None
  <2> DEFINE base == r.admission.base
             extra == r.admission.promoted
  <2>1. /\ base \in Seq(1..Size(p)) /\ extra \in Seq(1..Size(p))
        /\ Len(base) <= p.budget /\ Len(extra) <= MaxPromotionBatches
        /\ ToSet(r.covered) \subseteq ToSet(base \o extra)
        /\ \A i \in 1..Size(p) : r.batches[i].deferred = (r.batches[i].id \notin ToSet(base \o extra))
    BY <1>3, FrozenIs DEF Fits
  <2> HIDE DEF base, extra
  <2>2. /\ base \o extra \in Seq(1..Size(p)) /\ Len(base \o extra) = Len(base) + Len(extra)
    BY <2>1, JoinIs
  <2>3. /\ IsFiniteSet(ToSet(base \o extra)) /\ Cardinality(ToSet(base \o extra)) \in Nat
        /\ Cardinality(ToSet(base \o extra)) <= Len(base \o extra) /\ ToSet(base \o extra) \subseteq 1..Size(p)
    BY <2>2, ToSetSize
  <2>4. W = ToSet(base \o extra)
    <3>1. ASSUME NEW id \in W PROVE id \in ToSet(base \o extra)
      <4>1. id \in 1..Size(p) /\ ~ BatchOf(r, id).deferred
        BY <1>2
      <4>2. PICK i \in 1..Size(p) : BatchOf(r, id) = r.batches[i] /\ r.batches[i].id = id
        BY <1>2, <4>1
      <4> QED
        BY <2>1, <4>1, <4>2
    <3>2. ASSUME NEW id \in ToSet(base \o extra) PROVE id \in W
      <4>1. id \in 1..Size(p)
        BY <2>3
      <4>2. PICK i \in 1..Size(p) : BatchOf(r, id) = r.batches[i] /\ r.batches[i].id = id
        BY <1>2, <4>1
      <4> QED
        BY <1>2, <2>1, <4>1, <4>2
    <3> QED
      BY <3>1, <3>2
  <2>5. W \cup ToSet(r.covered) = ToSet(base \o extra)
    BY <2>1, <2>4
  <2>6. Len(base) \in Nat /\ Len(extra) \in Nat
    BY <2>1
  <2>7. Cardinality(ToSet(base \o extra)) <= p.budget + MaxPromotionBatches
    <3> DEFINE l == Len(base)
               e == Len(extra)
               n == Cardinality(ToSet(base \o extra))
    <3>1. /\ l \in Nat /\ e \in Nat /\ n \in Nat /\ n <= l + e /\ l <= p.budget /\ e <= MaxPromotionBatches
          /\ p.budget \in Nat /\ MaxPromotionBatches \in Nat
      BY <1>1, <2>1, <2>2, <2>3, <2>6
    <3> HIDE DEF l, e, n
    <3>2. n <= p.budget + MaxPromotionBatches
      BY <3>1
    <3> QED
      BY <3>2 DEF n
  <2>8. ToSet(r.covered) \subseteq W
    BY <2>1, <2>4
  <2> QED
    BY <1>1, <2>5, <2>7, <2>8
<1>4. CASE r.admission = None
  <2>1. /\ \A i \in 1..Size(p) : r.batches[i].deferred = (r.batches[i].id > p.budget)
        /\ ToSet(r.covered) \subseteq 1..p.budget
    BY <1>4 DEF Kept
  <2>2. W \subseteq 1..p.budget
    <3> SUFFICES ASSUME NEW id \in W PROVE id \in 1..p.budget
      OBVIOUS
    <3>1. id \in 1..Size(p) /\ ~ BatchOf(r, id).deferred
      BY <1>2
    <3>2. PICK i \in 1..Size(p) : BatchOf(r, id) = r.batches[i] /\ r.batches[i].id = id
      BY <1>2, <3>1
    <3>3. ~(id > p.budget)
      BY <2>1, <3>1, <3>2
    <3> QED
      BY <1>1, <3>1, <3>3
  <2> DEFINE U == W \cup ToSet(r.covered)
  <2>3. U \in SUBSET (1..p.budget)
    BY <2>1, <2>2
  <2> HIDE DEF U
  <2>4. IsFiniteSet(1..p.budget) /\ Cardinality(1..p.budget) = p.budget
    BY <1>1, IntervalSize
  <2>5. IsFiniteSet(U) /\ Cardinality(U) <= Cardinality(1..p.budget)
    BY <2>3, <2>4, FS_Subset
  <2>6. Cardinality(U) \in Nat
    BY <2>5, FS_CardinalityType
  <2>7. Cardinality(U) <= p.budget + MaxPromotionBatches
    BY <1>1, <2>4, <2>5, <2>6
  <2> QED
    BY <1>1, <1>4, <2>7 DEF U
<1> QED
  BY <1>3, <1>4

LEMMA AdmissionHolds == Inv => AdmissionIsJustified
<1> SUFFICES ASSUME Inv PROVE AdmissionIsJustified
  OBVIOUS
<1>1. Kept(recon, plan) /\ Same(recon, plan) /\ recon.large = plan.large
  BY InvParts DEF Same
<1>2. recon.large =>
        /\ Cardinality(Admitted \cup ToSet(recon.covered)) <= recon.budget + MaxPromotionBatches
        /\ recon.admission # None => ToSet(recon.covered) \subseteq Admitted
  BY <1>1, WorkIsBounded DEF Admitted
<1>3. ASSUME recon.admission # None
      PROVE  /\ \A id \in ToSet(recon.admission.promoted) :
                  \E f \in ToSet(BatchOf(recon, id).files) \cap Known :
                    Lane([g \in Known |-> signals[g]], Limits.glob, f) <= High
             /\ Cardinality(FilesOf(recon, ToSet(recon.admission.promoted))) <= Limits.files
             /\ application # None => application.promoted = ToSet(recon.admission.promoted)
  <2> DEFINE promoted == ToSet(recon.admission.promoted)
  <2>1. plan.large /\ Fits(recon, plan)
    BY <1>1, <1>3, FrozenIs
  <2>2. promoted \in SUBSET (1..Size(plan))
    <3>1. recon.admission.promoted \in Seq(1..Size(plan))
      BY <2>1 DEF Fits
    <3> QED
      BY <3>1, ToSetSize
  <2>3. Granted(recon.admission, plan, Signals, Known, Limits.glob, Limits.files)
    BY <1>3, InvParts DEF Warranted
  <2>4. \A id \in 1..Size(plan) : BatchOf(recon, id).files = plan.batches[id].files
    BY <1>1, SameBatches
  <2>5. FilesOf(recon, promoted) = FilesIn(plan, promoted)
    <3> HIDE DEF promoted
    <3> QED
      BY <1>1, <2>2, SameBatches
  <2>6. application # None => application.promoted = promoted
    BY <2>1, InvParts DEF Receipted
  <2> QED
    BY <2>2, <2>3, <2>4, <2>5, <2>6 DEF Granted, Signals
<1> QED
  BY <1>2, <1>3 DEF AdmissionIsJustified

(* However often a run is killed and resumed, reprioritize_recon never     *)
(* admits more than the budget and one extension, never leaves out a       *)
(* covered batch, and extends the budget only for files with strong        *)
(* evidence, within the configured number of files; the receipt names      *)
(* exactly those batches (AdmissionIsJustified).                           *)
THEOREM AdmissionAlwaysJustified == Spec => []AdmissionIsJustified
<1> QED
  BY AdmissionHolds, Inductive, PTL

(* Both planners cut the same batches, and whatever happens to the plan    *)
(* they stay a partition of the files in scope that the checkpoint         *)
(* accepts; out of large mode nothing is deferred.                         *)
LEMMA PartedValid ==
  ASSUME NEW r, NEW p, NEW S, Kept(r, p), Parted(p, S)
  PROVE  ValidateReconPlan(r) /\ FilesOf(r, Ids(r)) = S
<1> DEFINE N == Size(p)
<1>1. Same(r, p) /\ r \in Plans /\ p \in Plans
  BY DEF Kept, Same
<1>2. N \in Nat /\ N # 0 /\ Len(r.batches) = N /\ DOMAIN r.batches = 1..N
  BY <1>1, PlanParts DEF Same, Parted, Size
<1>3. Ids(r) = 1..N /\ FilesOf(r, 1..N) = FilesIn(p, 1..N)
  <2>1. 1..N \in SUBSET (1..Size(p))
    OBVIOUS
  <2> QED
    BY <1>1, <2>1, SameBatches
<1>4. FilesOf(r, Ids(r)) = S
  BY <1>3 DEF Parted
<1>5. r.batches # <<>>
  BY <1>2
<1>6. \A i \in 1..N : r.batches[i].id \in 1..N /\ r.batches[i].files = p.batches[r.batches[i].id].files
  BY <1>1 DEF Same
<1>7. \A i, k \in 1..N : i # k => r.batches[i].id # r.batches[k].id
  BY <1>1 DEF Same
<1>8. /\ \A j \in 1..N : p.batches[j].files # <<>> /\ IsInjective(p.batches[j].files)
      /\ \A j, k \in 1..N : j # k => ToSet(p.batches[j].files) \cap ToSet(p.batches[k].files) = {}
      /\ p.batchCount = N /\ p.filesInScope = Cardinality(S)
  BY DEF Parted
<1> HIDE DEF N
<1>9. ASSUME NEW i \in 1..N, NEW k \in 1..N, i # k
      PROVE  r.batches[i].id # r.batches[k].id
             /\ ToSet(r.batches[i].files) \cap ToSet(r.batches[k].files) = {}
  BY <1>6, <1>7, <1>8, <1>9
<1>10. ASSUME NEW i \in 1..N PROVE r.batches[i].files # <<>> /\ IsInjective(r.batches[i].files)
  BY <1>6, <1>8
<1>11. r.batchCount = Len(r.batches) /\ r.filesInScope = Cardinality(FilesOf(r, Ids(r)))
  BY <1>1, <1>2, <1>4, <1>8 DEF Same
<1>12. IsInjective(r.covered) /\ ToSet(r.covered) \subseteq Ids(r)
  <2>1. IsInjective(r.covered) /\ r.covered \in Seq(1..N)
    BY DEF Kept, N
  <2> QED
    BY <1>3, <2>1, ToSetSize
<1> QED
  BY <1>2, <1>4, <1>5, <1>9, <1>10, <1>11, <1>12 DEF ValidateReconPlan

LEMMA ScopeHolds == Inv => ScopeIsFrozen
<1> SUFFICES ASSUME Inv PROVE ScopeIsFrozen
  OBVIOUS
<1>1. Kept(recon, plan) /\ Same(recon, plan) /\ Parted(plan, InScope(tree)) /\ tree \in Trees
  BY InvParts DEF Seeded
<1>2. BuildPlan(tree, caps) = ShellPlan(tree, caps)
  BY <1>1, PlannersAgree
<1>3. ValidateReconPlan(recon) /\ FilesOf(recon, Ids(recon)) = InScope(tree)
  BY <1>1, PartedValid
<1>4. /\ Ids(recon) = 1..Size(plan)
      /\ \A id \in 1..Size(plan) : BatchOf(recon, id).files = plan.batches[id].files
      /\ \A id \in 1..Size(plan) : \E i \in 1..Size(plan) : BatchOf(recon, id) = recon.batches[i]
  BY <1>1, SameBatches
<1>5. \A id \in 1..Size(plan) : BatchOf(plan, id) = plan.batches[id]
  <2>1. Kept(plan, plan)
    BY InvParts, ShellPlanIs DEF Seeded
  <2>2. \A i \in 1..Size(plan) : plan.batches[i].id = i
    BY InvParts DEF Parted
  <2>3. \A i \in 1..Size(plan) : BatchOf(plan, plan.batches[i].id) = plan.batches[i]
    BY <2>1, SameBatches DEF Kept
  <2> QED
    BY <2>2, <2>3
<1>6. ~ recon.large => Admitted = Ids(recon)
  <2>1. ~ recon.large => \A i \in 1..Size(plan) : ~ recon.batches[i].deferred
    BY <1>1 DEF Kept, Same
  <2>2. ~ recon.large => \A id \in 1..Size(plan) : ~ BatchOf(recon, id).deferred
    BY <1>4, <2>1
  <2> QED
    BY <1>4, <2>2 DEF Admitted
<1> QED
  BY <1>2, <1>3, <1>4, <1>5, <1>6 DEF ScopeIsFrozen

(* build_plan and recon-plan.sh without Python cut every tree into the     *)
(* same batches, and in every state of a run recon.json holds these        *)
(* batches: a partition of the files in scope that _validate_recon_plan    *)
(* accepts, of which only large mode defers any (ScopeIsFrozen).           *)
THEOREM ScopeAlwaysFrozen == Spec => []ScopeIsFrozen
<1> QED
  BY ScopeHolds, Inductive, PTL

-----------------------------------------------------------------------------
(* The ledger: what hunters wrote, and one event for every batch.          *)
Marks == [i \in DOMAIN InOrder(events) |-> CoverageEvent(InOrder(events)[i])]
LedgerEntries == LedgerEvents \cup {CoverageEvent(id) : id \in Nat}

LEMMA LedgerIs ==
  ASSUME Inv
  PROVE  /\ findings \in Seq(LedgerEvents) /\ findings \in Seq(LedgerEntries) /\ Marks \in Seq(LedgerEntries)
         /\ Ledger = findings \o Marks /\ Ledger \in Seq(LedgerEntries)
         /\ ToSet(Ledger) = ToSet(findings) \cup ToSet(Marks)
         /\ \A e \in ToSet(Marks) : e.codes = {}
<1> DEFINE q == InOrder(events)
           N == Cardinality(events)
           X == LedgerEvents
           Y == LedgerEntries
<1>1. findings \in Seq(X)
  BY InvParts, AuditAssumption DEF Seeded
<1>2. events \in SUBSET (1..Size(plan)) /\ Size(plan) \in Nat
  BY InvParts DEF Reviewed
<1>3. IsFiniteSet(events) /\ events \subseteq Int
  <2>1. IsFiniteSet(1..Size(plan)) /\ 1..Size(plan) \subseteq Int
    BY <1>2, IntervalSize
  <2> QED
    BY <1>2, <2>1, FS_Subset
<1>4. N \in Nat /\ q \in Seq(events) /\ Len(q) = N
  <2>1. Lists(q, events, Ascending) /\ StrictOrder(events, Ascending)
    BY <1>3, InOrderLists, AscendingStrict
  <2> HIDE DEF q
  <2> QED
    BY <1>3, <2>1, Listed
<1> HIDE DEF q
<1>5. DOMAIN q = 1..N /\ \A i \in 1..N : q[i] \in Nat
  <2>1. DOMAIN q = 1..N /\ \A i \in 1..N : q[i] \in events
    BY <1>4, SeqParts
  <2>2. \A x \in 1..Size(plan) : x \in Nat
    BY <1>2
  <2>3. \A x \in events : x \in Nat
    BY <1>2, <2>2
  <2> QED
    BY <2>1, <2>3
<1>6. \A i \in 1..N : CoverageEvent(q[i]) \in Y /\ CoverageEvent(q[i]).codes = {}
  BY <1>5 DEF LedgerEntries, CoverageEvent
<1>7. Marks = [i \in 1..N |-> CoverageEvent(q[i])]
  BY <1>5 DEF Marks, q
<1>8. findings \in Seq(Y)
  <2>1. X \subseteq Y
    BY DEF LedgerEntries
  <2> HIDE DEF X, Y
  <2> QED
    BY <1>1, <2>1, SeqWider
<1> HIDE DEF X, Y
<1>9. Marks \in Seq(Y) /\ DOMAIN Marks = 1..N
  BY <1>4, <1>6, <1>7
<1>10. \A e \in ToSet(Marks) : e.codes = {}
  BY <1>6, <1>7, <1>9 DEF ToSet
<1>11. Ledger = findings \o Marks
  BY DEF Ledger, Mapped, Marks
<1>12. findings \o Marks \in Seq(Y) /\ ToSet(findings \o Marks) = ToSet(findings) \cup ToSet(Marks)
  BY <1>8, <1>9, JoinIs
<1> QED
  BY <1>1, <1>8, <1>9, <1>10, <1>11, <1>12 DEF X, Y

(* A file that is not left as unreviewed has its batch in the coverage, or *)
(* an event with reasons of its own.                                       *)
LEMMA OutcomeIs ==
  ASSUME NEW led \in Seq(LedgerEntries), NEW r, NEW verified, NEW file, NEW codes,
         TargetOutcome(led, r, verified, file, codes) # "not_reviewed"
  PROVE  BatchWith(r, file) \cap verified # {} \/ \E e \in ToSet(led) : e.file = file /\ e.codes # {}
<1> DEFINE X == LedgerEntries
           I == {i \in DOMAIN led : led[i].file = file}
           about == Picked(led, I)
           J(K) == {i \in DOMAIN about : about[i].event \in K}
           of(K) == Picked(about, J(K))
           coded(K) == UNION {e.codes : e \in ToSet(of(K))}
<1> SUFFICES ASSUME BatchWith(r, file) \cap verified = {}, \A e \in ToSet(led) : e.file = file => e.codes = {}
             PROVE  FALSE
  OBVIOUS
<1> HIDE DEF X
<1>1. led \in Seq(X) /\ DOMAIN led = 1..Len(led) /\ I \in SUBSET (1..Len(led))
  <2>1. led \in Seq(X)
    BY DEF X
  <2> QED
    BY <2>1
<1>2. about \in Seq(X) /\ ToSet(about) = {led[i] : i \in I}
  <2> HIDE DEF I
  <2> QED
    BY <1>1, PickedSet
<1>3. \A e \in ToSet(about) : e.codes = {}
  BY <1>1, <1>2 DEF ToSet
<1> HIDE DEF about
<1>4. ASSUME NEW K PROVE coded(K) = {}
  <2>1. J(K) \in SUBSET (1..Len(about)) /\ DOMAIN about = 1..Len(about)
    BY <1>2
  <2> DEFINE j == J(K)
  <2>2. j \in SUBSET (1..Len(about))
    BY <2>1
  <2> HIDE DEF j
  <2>3. ToSet(Picked(about, j)) = {about[i] : i \in j}
    BY <1>2, <2>2, PickedSet
  <2>4. \A i \in j : about[i] \in ToSet(about)
    BY <2>1, <2>2 DEF ToSet
  <2>5. \A e \in ToSet(Picked(about, j)) : e.codes = {}
    BY <1>3, <2>3, <2>4
  <2> QED
    BY <2>5 DEF j
<1>5. coded(Kinds) = {} /\ coded({"false_positive"}) = {}
  BY <1>4
<1>6. \A K : coded(K) = UNION {e.codes : e \in ToSet(Of(Select(led, LAMBDA e : e.file = file), K))}
  BY DEF about, Of, Select
<1> HIDE DEF coded
<1>7. TargetOutcome(led, r, verified, file, codes) = "not_reviewed"
  BY <1>5, <1>6 DEF TargetOutcome
<1> QED
  BY <1>7

(* A list that starts with the u batches of q and names none after them.   *)
Leads(s, q, u) ==
  /\ u <= Len(s)
  /\ \A n \in 1..Len(s) : IF n <= u THEN s[n].kind = "uncovered_batch" /\ s[n].ref = q[n]
                          ELSE s[n].kind # "uncovered_batch"

LEMMA LeadsOn ==
  ASSUME NEW Y, NEW s \in Seq(Y), NEW t \in Seq(Y), NEW q, NEW u \in Nat, Leads(s, q, u),
         \A n \in 1..Len(t) : t[n].kind # "uncovered_batch"
  PROVE  s \o t \in Seq(Y) /\ Leads(s \o t, q, u)
<1> DEFINE M == Len(s)
           N == Len(t)
           j == s \o t
<1>1. M \in Nat /\ N \in Nat /\ j \in Seq(Y) /\ Len(j) = M + N
  OBVIOUS
<1>2. \A n \in 1..M : j[n] = s[n]
  OBVIOUS
<1>3. \A n \in (M + 1)..(M + N) : j[n] = t[n - M] /\ n - M \in 1..N
  OBVIOUS
<1>4. u <= M /\ \A n \in 1..M : IF n <= u THEN s[n].kind = "uncovered_batch" /\ s[n].ref = q[n]
                                ELSE s[n].kind # "uncovered_batch"
  BY DEF Leads
<1>5. \A n \in 1..N : t[n].kind # "uncovered_batch"
  OBVIOUS
<1> HIDE DEF j, M, N
<1>6. ASSUME NEW n \in 1..Len(j)
      PROVE  IF n <= u THEN j[n].kind = "uncovered_batch" /\ j[n].ref = q[n] ELSE j[n].kind # "uncovered_batch"
  <2>1. CASE n \in 1..M
    BY <1>2, <1>4, <2>1
  <2>2. CASE n \notin 1..M
    <3>1. n \in (M + 1)..(M + N) /\ ~(n <= u)
      BY <1>1, <1>4, <2>2
    <3>2. j[n] = t[n - M] /\ n - M \in 1..N
      BY <1>3, <3>1
    <3> QED
      BY <1>5, <3>1, <3>2
  <2> QED
    BY <2>1, <2>2
<1>7. u <= Len(j)
  BY <1>1, <1>4
<1> QED
  BY <1>1, <1>6, <1>7 DEF Leads, j

NamesOf(s) == {e.ref : e \in {x \in ToSet(s) : x.kind = "uncovered_batch"}}

(* Cut at the cap it names as many of them as the cap allows.              *)
LEMMA LeadsCut ==
  ASSUME NEW Y, NEW s \in Seq(Y), NEW q \in Seq(Int), IsInjective(q), Leads(s, q, Len(q)), NEW cap \in Nat,
         NEW left, left = NamesOf(SubSeq(s, 1, AtMost(cap, Len(s))))
  PROVE  Cardinality(left) = AtMost(cap, Len(q))
<1> DEFINE u == Len(q)
           k == AtMost(cap, Len(s))
           w == AtMost(cap, u)
           p == SubSeq(s, 1, k)
           v == SubSeq(q, 1, w)
<1>1. Len(s) \in Nat /\ u \in Nat /\ u <= Len(s)
  BY DEF Leads
<1>2. k \in 0..Len(s) /\ w \in 0..Len(q) /\ w \in Nat /\ \A n \in 1..k : n <= u <=> n \in 1..w
  BY <1>1 DEF AtMost
<1>3. \A n \in 1..w : n \in 1..k
  BY <1>1 DEF AtMost
<1> HIDE DEF k, w
<1>4. Len(p) = k /\ \A n \in 1..k : p[n] = s[n]
  BY <1>2, PrefixIs
<1>5. v \in Seq(Int) /\ Len(v) = w /\ (\A n \in 1..w : v[n] = q[n]) /\ IsInjective(v)
  BY <1>2, PrefixIs
<1>6. p \in Seq(Y)
  BY <1>2, PrefixIs
<1>7. \A n \in 1..k : IF n \in 1..w THEN p[n].kind = "uncovered_batch" /\ p[n].ref = v[n]
                      ELSE p[n].kind # "uncovered_batch"
  <2> TAKE n \in 1..k
  <2>1. n \in 1..Len(s)
    BY <1>1, <1>2
  <2>2. IF n <= u THEN s[n].kind = "uncovered_batch" /\ s[n].ref = q[n] ELSE s[n].kind # "uncovered_batch"
    BY <2>1 DEF Leads
  <2> QED
    BY <1>2, <1>4, <1>5, <2>2
<1>8. left = {e.ref : e \in {x \in ToSet(p) : x.kind = "uncovered_batch"}}
  BY DEF p, k, NamesOf
<1> HIDE DEF p, v
<1>9. DOMAIN p = 1..k /\ DOMAIN v = 1..w
  BY <1>4, <1>5, <1>6
<1>10. ToSet(p) = {p[n] : n \in 1..k} /\ ToSet(v) = {v[n] : n \in 1..w}
  BY <1>9 DEF ToSet
<1>11. ASSUME NEW x \in left PROVE x \in ToSet(v)
  <2>1. PICK e \in ToSet(p) : e.kind = "uncovered_batch" /\ x = e.ref
    BY <1>8
  <2>2. PICK n \in 1..k : e = p[n]
    BY <1>10
  <2> QED
    BY <1>7, <1>10, <2>1, <2>2
<1>12. ASSUME NEW x \in ToSet(v) PROVE x \in left
  <2>1. PICK n \in 1..w : x = v[n]
    BY <1>10
  <2>2. p[n].kind = "uncovered_batch" /\ p[n].ref = x /\ p[n] \in ToSet(p)
    BY <1>3, <1>7, <1>10, <2>1
  <2> QED
    BY <1>8, <2>2
<1>13. left = ToSet(v)
  BY <1>11, <1>12
<1>14. Cardinality(ToSet(v)) = Len(v)
  BY <1>5, ToSetSize
<1> QED
  BY <1>5, <1>13, <1>14 DEF w, u

(* What is handed on starts with the uncovered batches; files of an        *)
(* earlier audit and quarantined findings come after them.                 *)
LEMMA HandedOn ==
  ASSUME NEW r, NEW p, Same(r, p), NEW led \in Seq(LedgerEntries), NEW ledger, NEW verified
  PROVE  Cardinality(NamesOf(FollowUp(led, r, Prior, ledger, verified)))
           = AtMost(FollowUpCap, Cardinality(Ids(r) \ CoveredIds(r, ledger, verified)))
<1> DEFINE left == NamesOf(FollowUp(led, r, Prior, ledger, verified))
           U == Ids(r) \ CoveredIds(r, ledger, verified)
           q == InOrder(U)
           u == Cardinality(U)
           first == [n \in DOMAIN q |-> Entry("uncovered_batch", q[n], BatchOf(r, q[n]).tier)]
           H == DOMAIN Prior.highRisk
           high == HighRiskEntries(Prior)
           S == Prior.stale
           stale == StaleEntries(Prior)
           quarantined == QuarantinedEntries(led)
<1>1. IsFiniteSet(U) /\ U \subseteq Int /\ u \in Nat
  <2>1. Ids(r) = 1..Size(p) /\ Size(p) \in Nat
    BY SameBatches, PlanParts DEF Same
  <2>2. IsFiniteSet(1..Size(p)) /\ 1..Size(p) \subseteq Int
    BY <2>1, IntervalSize
  <2>3. U \in SUBSET (1..Size(p))
    BY <2>1
  <2> HIDE DEF U
  <2> QED
    BY <2>2, <2>3, FS_Subset, FS_CardinalityType
<1> HIDE DEF U
<1>2. q \in Seq(U) /\ Len(q) = u /\ \A m, n \in 1..u : q[m] = q[n] => m = n
  <2>1. Lists(q, U, Ascending) /\ StrictOrder(U, Ascending)
    BY <1>1, InOrderLists, AscendingStrict
  <2> HIDE DEF q
  <2> QED
    BY <1>1, <2>1, Listed
<1>3. q \in Seq(Int)
  <2> HIDE DEF q
  <2> QED
    BY <1>1, <1>2, SeqWider
<1> HIDE DEF q
<1>4. DOMAIN q = 1..u /\ IsInjective(q)
  <2>1. DOMAIN q = 1..u
    BY <1>2
  <2> QED
    BY <1>2, <2>1 DEF IsInjective
<1>5. UncoveredEntries(r, ledger, verified) = first
  <2>1. r # None
    BY AuditAssumption DEF Same
  <2> QED
    BY <2>1 DEF UncoveredEntries, Mapped, U, q
<1>6. DOMAIN first = 1..u /\ \A n \in 1..u : first[n].kind = "uncovered_batch" /\ first[n].ref = q[n]
  BY <1>4 DEF Entry
<1>7. first = [n \in 1..u |-> first[n]]
  BY <1>4
<1> HIDE DEF first
<1>8. PICK h \in Nat : /\ high = [n \in 1..h |-> high[n]]
                       /\ \A n \in 1..h : high[n].kind # "uncovered_batch"
  <2> DEFINE N == Cardinality(H)
             x == Ranked(H, LAMBDA f, g : \/ Prior.highRisk[f] > Prior.highRisk[g]
                                          \/ Prior.highRisk[f] = Prior.highRisk[g] /\ f < g)
  <2>1. N \in Nat
    BY AuditAssumption, FS_CardinalityType
  <2>2. DOMAIN x = 1..N
    BY DEF Ranked
  <2>3. high = [n \in DOMAIN x |-> Entry("high_risk_file", x[n], Prior.highRisk[x[n]])]
    BY DEF HighRiskEntries, Mapped
  <2> HIDE DEF x, N, high
  <2>4. \A n \in 1..N : high[n].kind = "high_risk_file"
    BY <2>2, <2>3 DEF Entry
  <2>5. high = [n \in 1..N |-> high[n]]
    BY <2>2, <2>3
  <2>6. \A n \in 1..N : high[n].kind # "uncovered_batch"
    BY <2>4
  <2> QED
    BY <2>1, <2>5, <2>6
<1>9. PICK s \in Nat : /\ stale = [n \in 1..s |-> stale[n]]
                       /\ \A n \in 1..s : stale[n].kind # "uncovered_batch"
  <2> DEFINE N == Cardinality(S)
             x == InOrder(S)
  <2>1. N \in Nat
    BY AuditAssumption, FS_CardinalityType
  <2>2. DOMAIN x = 1..N
    BY DEF InOrder, Ranked
  <2>3. stale = [n \in DOMAIN x |-> Entry("stale_file", x[n], None)]
    BY DEF StaleEntries, Mapped
  <2> HIDE DEF x, N, stale
  <2>4. \A n \in 1..N : stale[n].kind = "stale_file"
    BY <2>2, <2>3 DEF Entry
  <2>5. stale = [n \in 1..N |-> stale[n]]
    BY <2>2, <2>3
  <2>6. \A n \in 1..N : stale[n].kind # "uncovered_batch"
    BY <2>4
  <2> QED
    BY <2>1, <2>5, <2>6
<1>10. PICK w \in Nat : /\ quarantined = [n \in 1..w |-> quarantined[n]]
                        /\ \A n \in 1..w : quarantined[n].kind # "uncovered_batch"
  <2> DEFINE X == LedgerEntries
             I == {i \in DOMAIN led : led[i].event \in {"quarantine"}}
             all == Picked(led, I)
             J == {i \in DOMAIN all : all[i].bug # None}
             held == Picked(all, J)
             x == Sorted(held, [i \in DOMAIN held |-> <<held[i].bug>>])
             N == Cardinality(J)
  <2>1. led \in Seq(X) /\ DOMAIN led = 1..Len(led)
    OBVIOUS
  <2>2. I \in SUBSET (1..Len(led))
    BY <2>1
  <2> HIDE DEF X, I
  <2>3. all \in Seq(X)
    BY <2>1, <2>2, PickedSet
  <2> HIDE DEF all
  <2>4. J \in SUBSET (1..Len(all))
    BY <2>3
  <2> HIDE DEF J
  <2>5. N \in Nat /\ held \in Seq(X) /\ Len(held) = N
    BY <2>3, <2>4, PickedIs
  <2> HIDE DEF held
  <2>6. DOMAIN held = 1..N
    BY <2>5
  <2>7. DOMAIN x = 1..N
    BY <2>6 DEF Sorted
  <2>8. quarantined = [n \in DOMAIN x |-> Entry("quarantined", x[n].bug, x[n].file)]
    BY DEF QuarantinedEntries, Mapped, Of, Select, held, J, all, I
  <2> HIDE DEF x, N, quarantined
  <2>9. \A n \in 1..N : quarantined[n].kind = "quarantined"
    BY <2>7, <2>8 DEF Entry
  <2>10. quarantined = [n \in 1..N |-> quarantined[n]]
    BY <2>7, <2>8
  <2>11. \A n \in 1..N : quarantined[n].kind # "uncovered_batch"
    BY <2>9
  <2> QED
    BY <2>5, <2>10, <2>11
<1> HIDE DEF high, stale, quarantined, H, S
<1> DEFINE Y == {first[n] : n \in 1..u} \cup {high[n] : n \in 1..h} \cup {stale[n] : n \in 1..s}
                  \cup {quarantined[n] : n \in 1..w}
<1>11. /\ \A n \in 1..u : first[n] \in Y
       /\ \A n \in 1..h : high[n] \in Y
       /\ \A n \in 1..s : stale[n] \in Y
       /\ \A n \in 1..w : quarantined[n] \in Y
  OBVIOUS
<1> HIDE DEF Y
<1>12. first \in Seq(Y) /\ Len(first) = u
  <2>1. first \in [1..u -> Y]
    BY <1>7, <1>11
  <2> HIDE DEF u
  <2> QED
    BY <1>1, <2>1
<1>13. high \in Seq(Y) /\ Len(high) = h
  <2>1. high \in [1..h -> Y]
    BY <1>8, <1>11
  <2> QED
    BY <2>1
<1>14. stale \in Seq(Y) /\ Len(stale) = s
  <2>1. stale \in [1..s -> Y]
    BY <1>9, <1>11
  <2> QED
    BY <2>1
<1>15. quarantined \in Seq(Y) /\ Len(quarantined) = w
  <2>1. quarantined \in [1..w -> Y]
    BY <1>10, <1>11
  <2> QED
    BY <2>1
<1> HIDE DEF u
<1>16. Leads(first, q, u)
  BY <1>1, <1>6, <1>12 DEF Leads
<1>17. first \o high \in Seq(Y) /\ Leads(first \o high, q, u)
  BY <1>1, <1>8, <1>12, <1>13, <1>16, LeadsOn
<1>18. (first \o high) \o stale \in Seq(Y) /\ Leads((first \o high) \o stale, q, u)
  BY <1>1, <1>9, <1>14, <1>17, LeadsOn
<1> DEFINE all == ((first \o high) \o stale) \o quarantined
<1>19. all \in Seq(Y) /\ Leads(all, q, u)
  BY <1>1, <1>10, <1>15, <1>18, LeadsOn
<1>20. FollowUp(led, r, Prior, ledger, verified) = SubSeq(all, 1, AtMost(FollowUpCap, Len(all)))
  BY <1>5 DEF FollowUp, high, stale, quarantined
<1> HIDE DEF all
<1>21. left = NamesOf(SubSeq(all, 1, AtMost(FollowUpCap, Len(all))))
  BY <1>20
<1> HIDE DEF left
<1>22. FollowUpCap \in Nat
  BY AuditAssumption
<1>23. Leads(all, q, Len(q))
  BY <1>2, <1>19
<1>24. Cardinality(left) = AtMost(FollowUpCap, Len(q))
  BY <1>3, <1>4, <1>19, <1>21, <1>22, <1>23, LeadsCut
<1> QED
  BY <1>2, <1>24 DEF u, U, left

(* What a summary counts was reviewed: every counted batch has its lines,  *)
(* its event and its place in the list, "complete" means that all files in *)
(* scope are in such batches, a file is reported as reviewed for such a    *)
(* batch or an event of its own, and what is not counted is handed on.     *)
LEMMA CountedIs ==
  ASSUME Inv, NEW led,
         NEW done, done = snaps \cap events \cap ToSet(recon.covered),
         NEW counted, counted = CoveredIds(recon, led, Verified)
  PROVE  /\ counted \subseteq done /\ Verified \subseteq done /\ done \subseteq Ids(recon)
         /\ Ids(recon) = 1..Size(plan) /\ IsFiniteSet(done) /\ IsFiniteSet(Ids(recon))
         /\ Cardinality(Ids(recon)) = Size(plan) /\ Size(plan) \in Nat /\ Size(plan) # 0
         /\ Coverage(recon, led, Verified) = [covered |-> Cardinality(counted), total |-> Size(plan)]
         /\ Cardinality(counted) \in Nat /\ Cardinality(done) \in Nat
         /\ Cardinality(counted) <= Cardinality(done)
         /\ Cardinality(counted) >= Size(plan) => Ids(recon) \subseteq done
         /\ Cardinality(Ids(recon) \ counted) = Size(plan) - Cardinality(counted)
<1> DEFINE N == Size(plan)
<1>1. Verified \subseteq done
  BY DEF Verified, Claimed
<1>2. counted \subseteq Verified
  BY DEF CoveredIds
<1>3. Same(recon, plan) /\ Kept(recon, plan) /\ N \in Nat /\ N # 0
  BY InvParts DEF Parted
<1>4. Ids(recon) = 1..N
  BY <1>3, SameBatches
<1>5. IsFiniteSet(1..N) /\ Cardinality(1..N) = N
  BY <1>3, IntervalSize
<1>6. ToSet(recon.covered) \subseteq 1..N
  <2>1. recon.covered \in Seq(1..N)
    BY <1>3 DEF Kept
  <2> HIDE DEF N
  <2> QED
    BY <2>1, ToSetSize
<1> HIDE DEF N
<1>7. done \in SUBSET (1..N)
  BY <1>6
<1>8. IsFiniteSet(done)
  BY <1>5, <1>7, FS_Subset
<1>9. counted \in SUBSET done
  BY <1>1, <1>2
<1>10. IsFiniteSet(counted) /\ Cardinality(counted) <= Cardinality(done)
  BY <1>8, <1>9, FS_Subset
<1>11. Cardinality(counted) \in Nat /\ Cardinality(done) \in Nat
  BY <1>8, <1>10, FS_CardinalityType
<1>12. Coverage(recon, led, Verified) = [covered |-> Cardinality(counted), total |-> N]
  <2>1. recon # None
    BY AuditAssumption, InvParts
  <2>2. counted \cap Ids(recon) = counted
    BY <1>4, <1>7, <1>9
  <2> QED
    BY <1>4, <1>5, <2>1, <2>2 DEF Coverage
<1>13. counted \in SUBSET (1..N)
  BY <1>7, <1>9
<1>14. Cardinality(counted) >= N => Ids(recon) \subseteq done
  <2> SUFFICES ASSUME Cardinality(counted) >= N PROVE Ids(recon) \subseteq done
    OBVIOUS
  <2>1. counted = 1..N
    <3>1. Cardinality(counted) = Cardinality(1..N) => counted = 1..N
      BY <1>5, <1>13, FS_Subset
    <3>2. Cardinality(counted) <= Cardinality(1..N)
      BY <1>5, <1>13, FS_Subset
    <3> QED
      BY <1>3, <1>5, <1>11, <3>1, <3>2
  <2> QED
    BY <1>4, <1>9, <2>1
<1>15. Cardinality(Ids(recon) \ counted) = N - Cardinality(counted)
  <2>1. Cardinality((1..N) \ counted) = Cardinality(1..N) - Cardinality((1..N) \cap counted)
    BY <1>5, FS_Difference
  <2>2. (1..N) \cap counted = counted
    BY <1>13
  <2> QED
    BY <1>4, <1>5, <2>1, <2>2
<1> QED
  BY <1>1, <1>3, <1>4, <1>5, <1>7, <1>8, <1>9, <1>10, <1>11, <1>12, <1>14, <1>15 DEF N

LEMMA CoverageHolds == Inv => CoverageIsEarned
<1> SUFFICES ASSUME Inv PROVE CoverageIsEarned
  OBVIOUS
<1> DEFINE led == LedgerCovered(Ledger)
           full == Summary(TRUE)
           part == DegradedSummary(recon, TRUE)
           done == snaps \cap events \cap ToSet(recon.covered)
           counted == CoveredIds(recon, led, Verified)
           left == {e.ref : e \in {x \in ToSet(full.followUp) : x.kind = "uncovered_batch"}}
           spoken == {e.file : e \in ToSet(findings)}
           N == Size(plan)
           n == Cardinality(counted)
<1>1. /\ full.coverage = Coverage(recon, led, Verified) /\ full.progress = AuditProgress(full.coverage)
      /\ full.followUp = FollowUp(Ledger, recon, Prior, led, Verified)
  BY DEF Summary, ReduceRun
<1>2. part.coverage = [covered |-> 0, total |-> recon.batchCount] /\ part.progress = AuditProgress(part.coverage)
  BY DEF DegradedSummary, ReduceDegraded
<1> HIDE DEF full, part, led
<1>3. /\ counted \subseteq done /\ Verified \subseteq done /\ done \subseteq Ids(recon)
      /\ Ids(recon) = 1..N /\ IsFiniteSet(done) /\ IsFiniteSet(Ids(recon))
      /\ Cardinality(Ids(recon)) = N /\ N \in Nat /\ N # 0
      /\ Coverage(recon, led, Verified) = [covered |-> n, total |-> N]
      /\ n \in Nat /\ Cardinality(done) \in Nat
      /\ n <= Cardinality(done)
      /\ n >= N => Ids(recon) \subseteq done
      /\ Cardinality(Ids(recon) \ counted) = N - n
  <2> HIDE DEF done, counted
  <2> QED
    BY CountedIs DEF done, counted
<1>4. Same(recon, plan) /\ FilesOf(recon, Ids(recon)) = InScope(tree) /\ recon.batchCount = N
  <2>1. Same(recon, plan) /\ Kept(recon, plan) /\ Parted(plan, InScope(tree))
    BY InvParts
  <2>2. FilesOf(recon, Ids(recon)) = InScope(tree)
    BY <2>1, PartedValid
  <2> QED
    BY <2>1, <2>2 DEF Same, Parted
<1>5. full.coverage.covered = n /\ full.coverage.total = N
  BY <1>1, <1>3
<1> HIDE DEF counted, N, n, done
<1>6. full.coverage.covered <= Cardinality(done)
  BY <1>3, <1>5
<1>7. full.progress = "complete" => InScope(tree) \subseteq FilesOf(recon, done)
  <2>1. full.progress = "complete" => n >= N
    BY <1>1, <1>5 DEF AuditProgress
  <2>2. Ids(recon) \subseteq done => FilesOf(recon, Ids(recon)) \subseteq FilesOf(recon, done)
    BY DEF FilesOf
  <2> QED
    BY <1>3, <1>4, <2>1, <2>2
<1>8. part.coverage.covered <= Cardinality(done)
  BY <1>2, <1>3
<1>9. part.progress # "complete"
  <2>1. part.coverage.covered = 0 /\ part.coverage.total = N
    BY <1>2, <1>4
  <2>2. ~(0 >= N)
    BY <1>3
  <2> QED
    BY <1>2, <2>1, <2>2 DEF AuditProgress
<1>10. ASSUME NEW t, TargetOutcome(Ledger, recon, Verified, t.file, {"live_sink"}) # "not_reviewed"
       PROVE  t.file \in FilesOf(recon, done) \cup spoken
  <2>1. Ledger \in Seq(LedgerEntries) /\ ToSet(Ledger) = ToSet(findings) \cup ToSet(Marks)
        /\ \A e \in ToSet(Marks) : e.codes = {}
    BY LedgerIs
  <2>2. \/ BatchWith(recon, t.file) \cap Verified # {}
        \/ \E e \in ToSet(Ledger) : e.file = t.file /\ e.codes # {}
    BY <1>10, <2>1, OutcomeIs
  <2>3. CASE BatchWith(recon, t.file) \cap Verified # {}
    <3>1. PICK id \in Verified : id \in Ids(recon) /\ t.file \in ToSet(BatchOf(recon, id).files)
      BY <2>3 DEF BatchWith
    <3>2. id \in done
      BY <1>3, <3>1
    <3> QED
      BY <3>1, <3>2 DEF FilesOf
  <2>4. CASE \E e \in ToSet(Ledger) : e.file = t.file /\ e.codes # {}
    <3>1. PICK e \in ToSet(Ledger) : e.file = t.file /\ e.codes # {}
      BY <2>4
    <3>2. e \in ToSet(findings)
      BY <2>1, <3>1
    <3> QED
      BY <3>1, <3>2
  <2> QED
    BY <2>2, <2>3, <2>4
<1>11. Cardinality(left) = AtMost(FollowUpCap, full.coverage.total - full.coverage.covered)
  <2>1. left = NamesOf(FollowUp(Ledger, recon, Prior, led, Verified))
    BY <1>1 DEF NamesOf
  <2> HIDE DEF left
  <2>2. Ledger \in Seq(LedgerEntries)
    BY LedgerIs
  <2>3. Cardinality(left) = AtMost(FollowUpCap, Cardinality(Ids(recon) \ counted))
    BY <1>4, <2>1, <2>2, HandedOn DEF counted
  <2> QED
    BY <1>3, <1>5, <2>3
<1>12. \A s \in {full, part} : /\ s.coverage.covered <= Cardinality(done)
                               /\ s.progress = "complete" => InScope(tree) \subseteq FilesOf(recon, done)
  BY <1>6, <1>7, <1>8, <1>9
<1>13. context # None => \A t \in ToSet(context.targets) :
         TargetOutcome(Ledger, recon, Verified, t.file, {"live_sink"}) # "not_reviewed" =>
           t.file \in FilesOf(recon, done) \cup spoken
  BY <1>10
<1> HIDE DEF left, spoken
<1> QED
  BY <1>11, <1>12, <1>13 DEF CoverageIsEarned, full, part, done, left, spoken

(* What reduce_run counts in any state of a run has its snapshots, its     *)
(* event and its place in the list; "complete" is said of nothing less     *)
(* than the whole scope, and what is not counted is handed on to the next  *)
(* run, up to FOLLOW_UP_CAP (CoverageIsEarned).                            *)
THEOREM CoverageAlwaysEarned == Spec => []CoverageIsEarned
<1> QED
  BY CoverageHolds, Inductive, PTL

-----------------------------------------------------------------------------
(* The clusters of a list of findings do not depend on its order.          *)
Categorised(s, c) == {i \in DOMAIN s : s[i].category = c}
CategoriesOf(s) == {s[i].category : i \in DOMAIN s} \ {None}
SizesOf(s) == [c \in CategoriesOf(s) |-> Cardinality(Categorised(s, c))]
BugsAbout(s, c) == {s[i].bug : i \in Categorised(s, c)}
FilesAbout(s, c) == {s[i].file : i \in Categorised(s, c)}
BugsIn(s) == [c \in CategoriesOf(s) |-> BugsAbout(s, c) \ {None}]
FilesAt(s) == [c \in CategoriesOf(s) |-> FilesAbout(s, c) \ {None}]
NoFewer(s, t, c) ==
  /\ IsFiniteSet(Categorised(s, c)) /\ Cardinality(Categorised(s, c)) \in Nat
  /\ Cardinality(Categorised(t, c)) <= Cardinality(Categorised(s, c))
  /\ BugsAbout(s, c) = BugsAbout(t, c)
  /\ FilesAbout(s, c) = FilesAbout(t, c)

(* t holds what s holds, at the places that p gives it.                    *)
Turns(p, s, t, N) ==
  /\ DOMAIN s = 1..N /\ DOMAIN t = 1..N
  /\ \A i \in 1..N : p[i] \in 1..N /\ t[p[i]] = s[i]
  /\ \A n \in 1..N : \E i \in 1..N : p[i] = n

LEMMA TurnedIs ==
  ASSUME NEW p, NEW s, NEW t, NEW N \in Nat, Turns(p, s, t, N)
  PROVE  /\ CategoriesOf(s) = CategoriesOf(t)
         /\ \A c : NoFewer(s, t, c)
<1>1. /\ DOMAIN s = 1..N /\ DOMAIN t = 1..N
      /\ \A i \in 1..N : p[i] \in 1..N /\ t[p[i]] = s[i]
      /\ \A n \in 1..N : \E i \in 1..N : p[i] = n /\ t[n] = s[i]
  BY DEF Turns
<1>2. CategoriesOf(s) = CategoriesOf(t)
  <2>1. {s[i].category : i \in 1..N} = {t[i].category : i \in 1..N}
    <3>1. \A i \in 1..N : s[i].category \in {t[n].category : n \in 1..N}
      BY <1>1
    <3>2. \A n \in 1..N : t[n].category \in {s[i].category : i \in 1..N}
      BY <1>1
    <3> QED
      BY <3>1, <3>2
  <2> QED
    BY <1>1, <2>1 DEF CategoriesOf
<1>3. ASSUME NEW c
      PROVE  NoFewer(s, t, c)
  <2> DEFINE A == Categorised(s, c)
             B == Categorised(t, c)
  <2>1. A = {i \in 1..N : s[i].category = c} /\ B = {n \in 1..N : t[n].category = c}
    BY <1>1 DEF Categorised
  <2>2. A \in SUBSET (1..N)
    BY <2>1
  <2>3. \A i \in A : p[i] \in B /\ t[p[i]] = s[i]
    BY <1>1, <2>1
  <2>4. \A n \in B : \E i \in A : p[i] = n /\ t[n] = s[i]
    BY <1>1, <2>1
  <2> HIDE DEF A, B
  <2>5. IsFiniteSet(1..N)
    BY IntervalSize
  <2>6. IsFiniteSet(A)
    BY <2>2, <2>5, FS_Subset
  <2>7. Cardinality(A) \in Nat
    BY <2>6, FS_CardinalityType
  <2>8. B = {p[i] : i \in A}
    BY <2>3, <2>4
  <2>9. Cardinality({p[i] : i \in A}) <= Cardinality(A)
    BY <2>6, ImageFinite
  <2>10. {s[i].bug : i \in A} = {t[n].bug : n \in B}
    <3>1. \A i \in A : s[i].bug \in {t[n].bug : n \in B}
      BY <2>3
    <3>2. \A n \in B : t[n].bug \in {s[i].bug : i \in A}
      BY <2>4
    <3> QED
      BY <3>1, <3>2
  <2>11. {s[i].file : i \in A} = {t[n].file : n \in B}
    <3>1. \A i \in A : s[i].file \in {t[n].file : n \in B}
      BY <2>3
    <3>2. \A n \in B : t[n].file \in {s[i].file : i \in A}
      BY <2>4
    <3> QED
      BY <3>1, <3>2
  <2> QED
    BY <2>6, <2>7, <2>8, <2>9, <2>10, <2>11 DEF A, B, NoFewer, BugsAbout, FilesAbout
<1> QED
  BY <1>2, <1>3

LEMMA ClustersTurned ==
  ASSUME NEW p, NEW o, NEW s, NEW t, NEW N \in Nat, Turns(p, s, t, N), Turns(o, t, s, N)
  PROVE  BuildClusters(s) = BuildClusters(t)
<1>1. CategoriesOf(s) = CategoriesOf(t)
  BY TurnedIs
<1>2. ASSUME NEW c
      PROVE  /\ Cardinality(Categorised(s, c)) = Cardinality(Categorised(t, c))
             /\ BugsAbout(s, c) = BugsAbout(t, c)
             /\ FilesAbout(s, c) = FilesAbout(t, c)
  <2>1. NoFewer(s, t, c)
    BY TurnedIs
  <2>2. NoFewer(t, s, c)
    BY TurnedIs
  <2> QED
    BY <2>1, <2>2 DEF NoFewer
<1>3. SizesOf(s) = SizesOf(t)
  BY <1>1, <1>2 DEF SizesOf
<1>4. BugsIn(s) = BugsIn(t)
  BY <1>1, <1>2 DEF BugsIn
<1>5. FilesAt(s) = FilesAt(t)
  BY <1>1, <1>2 DEF FilesAt
<1>6. /\ BuildClusters(s) = ClustersOf(SizesOf(s), BugsIn(s), FilesAt(s))
      /\ BuildClusters(t) = ClustersOf(SizesOf(t), BugsIn(t), FilesAt(t))
  BY DEF BuildClusters, SizesOf, BugsIn, FilesAt, BugsAbout, FilesAbout, CategoriesOf, Categorised
<1> QED
  BY <1>3, <1>4, <1>5, <1>6

LEMMA JoinTurns ==
  ASSUME NEW X, NEW u \in Seq(X), NEW v \in Seq(X)
  PROVE  \E p : Turns(p, u \o v, v \o u, Len(u) + Len(v))
<1> DEFINE M == Len(u)
           N == Len(v)
           s == u \o v
           t == v \o u
           p == [i \in 1..(M + N) |-> IF i <= M THEN i + N ELSE i - M]
<1>1. M \in Nat /\ N \in Nat /\ DOMAIN s = 1..(M + N) /\ DOMAIN t = 1..(N + M)
  OBVIOUS
<1>2. /\ \A i \in 1..M : s[i] = u[i]
      /\ \A i \in (M + 1)..(M + N) : s[i] = v[i - M]
  OBVIOUS
<1>3. /\ \A i \in 1..N : t[i] = v[i]
      /\ \A i \in (N + 1)..(N + M) : t[i] = u[i - N]
  OBVIOUS
<1> HIDE DEF s, t, M, N
<1>4. \A i \in 1..(M + N) : p[i] \in 1..(M + N) /\ p[i] = IF i <= M THEN i + N ELSE i - M
  BY <1>1
<1>5. \A n \in 1..(M + N) : \E i \in 1..(M + N) : p[i] = n
  <2> TAKE n \in 1..(M + N)
  <2> DEFINE i == IF n <= N THEN n + M ELSE n - N
  <2>1. i \in 1..(M + N) /\ (IF i <= M THEN i + N ELSE i - M) = n
    BY <1>1
  <2> HIDE DEF i, p
  <2> QED
    BY <1>4, <2>1
<1> HIDE DEF p
<1>6. ASSUME NEW i \in 1..(M + N) PROVE t[p[i]] = s[i]
  <2>1. CASE i <= M
    <3>1. p[i] = i + N /\ i + N \in (N + 1)..(N + M) /\ (i + N) - N = i /\ i \in 1..M
      BY <1>1, <1>4, <2>1
    <3> QED
      BY <1>2, <1>3, <3>1
  <2>2. CASE ~(i <= M)
    <3>1. p[i] = i - M /\ i - M \in 1..N /\ i \in (M + 1)..(M + N)
      BY <1>1, <1>4, <2>2
    <3> QED
      BY <1>2, <1>3, <3>1
  <2> QED
    BY <2>1, <2>2
<1>7. M + N = N + M
  BY <1>1
<1>8. Turns(p, s, t, M + N)
  BY <1>1, <1>4, <1>5, <1>6, <1>7 DEF Turns
<1> QED
  BY <1>8 DEF s, t, M, N

LEMMA ClustersSwap ==
  ASSUME NEW X, NEW u \in Seq(X), NEW v \in Seq(X)
  PROVE  BuildClusters(u \o v) = BuildClusters(v \o u)
<1> DEFINE M == Len(u)
           N == Len(v)
<1>1. M \in Nat /\ N \in Nat
  OBVIOUS
<1>2. PICK p : Turns(p, u \o v, v \o u, M + N)
  BY JoinTurns
<1>3. PICK o : Turns(o, v \o u, u \o v, N + M)
  BY JoinTurns
<1> HIDE DEF M, N
<1>4. N + M = M + N /\ M + N \in Nat
  BY <1>1
<1>5. Turns(o, v \o u, u \o v, M + N)
  BY <1>3, <1>4
<1> QED
  BY <1>2, <1>4, <1>5, ClustersTurned

LEMMA FlattenTwo ==
  ASSUME NEW X, NEW u \in Seq(X), NEW v \in Seq(X)
  PROVE  FlattenSeq(<<u, v>>) = u \o v
<1> DEFINE s == <<u, v>>
<1>1. s \in Seq(Seq(X)) /\ Len(s) = 2 /\ s[1] = u /\ s[2] = v
  <2> DEFINE Y == Seq(X)
  <2>1. u \in Y /\ v \in Y
    OBVIOUS
  <2> HIDE DEF Y
  <2>2. <<u, v>> \in Seq(Y)
    BY <2>1
  <2> QED
    BY <2>2 DEF Y
<1> HIDE DEF s
<1>2. PICK h : Joins(h, s, X)
  <2>1. Len(s) # 0
    BY <1>1
  <2> QED
    BY <1>1, <2>1, FlattenIs
<1>3. /\ h[0] = <<>> /\ (\A n \in 1..2 : h[n] = h[n - 1] \o s[n]) /\ FlattenSeq(s) = h[2]
  BY <1>1, <1>2 DEF Joins
<1>4. h[1] = <<>> \o u
  <2>1. 1 \in 1..2 /\ 1 - 1 = 0
    OBVIOUS
  <2> QED
    BY <1>1, <1>3, <2>1
<1>5. h[2] = h[1] \o v
  <2>1. 2 \in 1..2 /\ 2 - 1 = 1
    OBVIOUS
  <2> QED
    BY <1>1, <1>3, <2>1
<1>6. <<>> \o u = u
  OBVIOUS
<1> QED
  BY <1>3, <1>4, <1>5, <1>6 DEF s

(* The totals of two summaries.                                            *)
TotalOf(x, y, s) == Folded(LAMBDA total, summary : total + summary.counts[s], 0, <<x, y>>)

LEMMA TotalTwo ==
  ASSUME NEW x, NEW y, NEW s, x.counts[s] \in Nat, y.counts[s] \in Nat
  PROVE  TotalOf(x, y, s) = x.counts[s] + y.counts[s]
<1> DEFINE m == x.counts[s]
           k == y.counts[s]
           q == <<x, y>>
           fold == CHOOSE f : f = [n \in 0..Len(q) |-> IF n = 0 THEN 0 ELSE f[n - 1] + q[n].counts[s]]
           e == [n \in 0..2 |-> IF n = 0 THEN 0 ELSE IF n = 1 THEN m ELSE m + k]
<1>1. TotalOf(x, y, s) = fold[2]
  BY DEF TotalOf, Folded
<1>2. Len(q) = 2 /\ q[1].counts[s] = m /\ q[2].counts[s] = k
  OBVIOUS
<1>3. m \in Nat /\ k \in Nat
  OBVIOUS
<1> HIDE DEF q, m, k
<1>4. e[0] = 0 /\ e[1] = m /\ e[2] = m + k
  OBVIOUS
<1>5. \A n \in 0..2 : e[n] = IF n = 0 THEN 0 ELSE e[n - 1] + q[n].counts[s]
  <2> TAKE n \in 0..2
  <2>1. n = 0 \/ n = 1 \/ n = 2
    OBVIOUS
  <2> HIDE DEF e
  <2>2. CASE n = 0
    BY <1>4, <2>2
  <2>3. CASE n = 1
    BY <1>2, <1>3, <1>4, <2>3
  <2>4. CASE n = 2
    BY <1>2, <1>3, <1>4, <2>4
  <2> QED
    BY <2>1, <2>2, <2>3, <2>4
<1>6. e = [n \in 0..2 |-> e[n]]
  OBVIOUS
<1> HIDE DEF e
<1>7. e = [n \in 0..Len(q) |-> IF n = 0 THEN 0 ELSE e[n - 1] + q[n].counts[s]]
  BY <1>2, <1>5, <1>6
<1>8. fold = [n \in 0..Len(q) |-> IF n = 0 THEN 0 ELSE fold[n - 1] + q[n].counts[s]]
  BY <1>7
<1> HIDE DEF fold
<1>9. \A n \in 0..2 : fold[n] = IF n = 0 THEN 0 ELSE fold[n - 1] + q[n].counts[s]
  BY <1>2, <1>8
<1>10. fold[0] = 0
  BY <1>9
<1>11. fold[1] = 0 + m
  <2>1. 1 \in 0..2 /\ 1 - 1 = 0 /\ 1 # 0
    OBVIOUS
  <2> QED
    BY <1>2, <1>9, <1>10, <2>1
<1>12. fold[2] = fold[1] + k
  <2>1. 2 \in 0..2 /\ 2 - 1 = 1 /\ 2 # 0
    OBVIOUS
  <2> QED
    BY <1>2, <1>9, <2>1
<1>13. 0 + m = m
  BY <1>3
<1> QED
  BY <1>1, <1>11, <1>12, <1>13 DEF m, k

(* The findings of a run.                                                  *)
FindingsOf(led) == Mapped(Of(led, Kinds), LAMBDA e : Finding(led, e))

LEMMA FindingsAre ==
  ASSUME NEW led \in Seq(LedgerEntries)
  PROVE  /\ Of(led, Kinds) \in Seq(LedgerEntries)
         /\ FindingsOf(led) \in Seq({Finding(led, e) : e \in LedgerEntries})
         /\ Len(FindingsOf(led)) = Len(Of(led, Kinds))
         /\ \A i \in 1..Len(Of(led, Kinds)) : /\ FindingsOf(led)[i].category = Of(led, Kinds)[i].category
                                              /\ Of(led, Kinds)[i].category \in Int \cup {None}
         /\ \A s \in Severities \cup {"architectural"} : Counts(FindingsOf(led))[s] \in Nat
<1> DEFINE q == Of(led, Kinds)
           N == Len(q)
           r == FindingsOf(led)
           X == {Finding(led, e) : e \in LedgerEntries}
<1>1. q \in Seq(LedgerEntries)
  <2> DEFINE I == {i \in DOMAIN led : led[i].event \in Kinds}
  <2>1. q = Picked(led, I)
    BY DEF Of, Select
  <2>2. I \in SUBSET (1..Len(led))
    OBVIOUS
  <2> HIDE DEF I, q
  <2> QED
    BY <2>1, <2>2, PickedIs
<1>2. r = [i \in DOMAIN q |-> Finding(led, q[i])]
  BY DEF FindingsOf, Mapped
<1> HIDE DEF q, r
<1>3. N \in Nat /\ DOMAIN q = 1..N /\ \A i \in 1..N : q[i] \in LedgerEntries
  BY <1>1, SeqParts
<1>4. \A e \in LedgerEntries : e.category \in Int \cup {None}
  BY DEF LedgerEntries, LedgerEvents, CoverageEvent
<1> HIDE DEF N
<1>5. \A i \in 1..N : Finding(led, q[i]) \in X
  BY <1>3
<1> HIDE DEF X
<1>6. r \in Seq(X) /\ Len(r) = N /\ DOMAIN r = 1..N /\ \A i \in 1..N : r[i] = Finding(led, q[i])
  BY <1>2, <1>3, <1>5
<1>7. \A i \in 1..N : r[i].category = q[i].category
  BY <1>6 DEF Finding
<1>8. ASSUME NEW s \in Severities \cup {"architectural"} PROVE Counts(r)[s] \in Nat
  <2> DEFINE P == {i \in DOMAIN r : IF s = "architectural"
                                    THEN r[i].category # None /\ r[i].category = Architectural
                                    ELSE r[i].severity = s}
  <2>1. Counts(r)[s] = Cardinality(P)
    BY DEF Counts, Count
  <2>2. P \in SUBSET (1..N) /\ IsFiniteSet(1..N)
    BY <1>3, <1>6, IntervalSize
  <2> HIDE DEF P
  <2>3. Cardinality(P) \in Nat
    BY <2>2, FS_Subset, FS_CardinalityType
  <2> QED
    BY <2>1, <2>3
<1> QED
  BY <1>1, <1>3, <1>4, <1>6, <1>7, <1>8 DEF q, r, N, X

(* The order of the clusters.                                              *)
Wider(size, a, b) == size[a] > size[b] \/ (size[a] = size[b] /\ a < b)
Crowd(size) == {c \in DOMAIN size : size[c] >= MinClusterSize}
WidthOrder(size) == {p \in Crowd(size) \X Crowd(size) : Wider(size, p[1], p[2])}

LEMMA ClustersList ==
  ASSUME NEW size, NEW bugs, NEW files, IsFiniteSet(Crowd(size)), Crowd(size) \subseteq Int,
         \A c \in Crowd(size) : size[c] \in Nat
  PROVE  \A c \in Crowd(size) : c \in {d.cluster : d \in ToSet(ClustersOf(size, bugs, files))}
<1> DEFINE S == Crowd(size)
           N == Cardinality(S)
           R == WidthOrder(size)
           q == Ranked(S, LAMBDA a, b : Wider(size, a, b))
           out == ClustersOf(size, bugs, files)
           least(T) == IF T = {} THEN None ELSE Min(T)
           row(n) == [cluster |-> q[n], size |-> size[q[n]],
                      representative |-> least(bugs[q[n]]), files |-> files[q[n]]]
<1>1. out = [n \in DOMAIN q |-> row(n)]
  BY DEF ClustersOf, Wider, Crowd
<1>2. q = [n \in 1..N |-> CHOOSE x \in S : Cardinality({y \in S : Wider(size, y, x)}) = n - 1]
  BY DEF Ranked
<1>3. \A n : row(n).cluster = q[n]
  OBVIOUS
<1> HIDE DEF q, out, row
<1>4. \A x, y \in S : <<x, y>> \in R <=> Wider(size, x, y)
  BY DEF WidthOrder
<1>5. \A x \in S : {y \in S : Wider(size, y, x)} = Below(S, R, x)
  BY <1>4 DEF Below
<1>6. /\ IsFiniteSet(S) /\ \A c \in S : c \in Int /\ size[c] \in Int
  OBVIOUS
<1> HIDE DEF S, R
<1>7. StrictOrder(S, R)
  <2>1. \A x \in S : ~Wider(size, x, x)
    BY <1>6 DEF Wider
  <2>2. \A x, y, z \in S : Wider(size, x, y) /\ Wider(size, y, z) => Wider(size, x, z)
    BY <1>6 DEF Wider
  <2>3. \A x, y \in S : x # y => Wider(size, x, y) \/ Wider(size, y, x)
    BY <1>6 DEF Wider
  <2> QED
    BY <1>4, <2>1, <2>2, <2>3 DEF StrictOrder
<1>8. ASSUME NEW n \in 1..N
      PROVE  q[n] \in S /\ Cardinality(Below(S, R, q[n])) = n - 1
  <2>1. PICK x \in S : Cardinality(Below(S, R, x)) = n - 1
    BY <1>6, <1>7, Positions
  <2>2. \E z \in S : Cardinality({y \in S : Wider(size, y, z)}) = n - 1
    BY <1>5, <2>1
  <2>3. q[n] \in S /\ Cardinality({y \in S : Wider(size, y, q[n])}) = n - 1
    BY <1>2, <2>2
  <2> QED
    BY <1>5, <2>3
<1>9. DOMAIN q = 1..N
  BY <1>2
<1>10. Lists(q, S, R)
  <2>1. q \in [1..N -> S]
    BY <1>2, <1>8
  <2> QED
    BY <1>8, <2>1 DEF Lists
<1>11. \A x \in S : \E n \in 1..N : q[n] = x
  BY <1>6, <1>7, <1>10, Listed
<1>12. \A n \in 1..N : out[n].cluster = q[n]
  BY <1>1, <1>3, <1>9
<1>13. ToSet(out) = {out[n] : n \in 1..N}
  BY <1>1, <1>9 DEF ToSet
<1> SUFFICES ASSUME NEW c \in S PROVE c \in {d.cluster : d \in ToSet(out)}
  BY DEF S, out
<1>14. PICK n \in 1..N : q[n] = c
  BY <1>11
<1> QED
  BY <1>12, <1>13, <1>14

LEMMA ClusterFound ==
  ASSUME NEW s, NEW N \in Nat, DOMAIN s = 1..N, \A i \in 1..N : s[i].category \in Int \cup {None},
         NEW c, c # None, NEW i \in 1..N, NEW k \in 1..N, i # k, s[i].category = c, s[k].category = c
  PROVE  c \in {d.cluster : d \in ToSet(BuildClusters(s))}
<1> DEFINE size == SizesOf(s)
<1>1. BuildClusters(s) = ClustersOf(size, BugsIn(s), FilesAt(s))
  BY DEF BuildClusters, SizesOf, BugsIn, FilesAt, BugsAbout, FilesAbout, CategoriesOf, Categorised
<1>2. IsFiniteSet(1..N)
  BY IntervalSize
<1>3. IsFiniteSet(CategoriesOf(s)) /\ CategoriesOf(s) \subseteq Int
  <2> DEFINE f == [j \in 1..N |-> s[j].category]
  <2>1. {s[j].category : j \in 1..N} = {f[j] : j \in 1..N}
    OBVIOUS
  <2> HIDE DEF f
  <2>2. IsFiniteSet({f[j] : j \in 1..N})
    BY <1>2, ImageFinite
  <2>3. CategoriesOf(s) \in SUBSET {f[j] : j \in 1..N}
    BY <2>1 DEF CategoriesOf
  <2>4. CategoriesOf(s) \subseteq Int
    BY DEF CategoriesOf
  <2> QED
    BY <2>2, <2>3, <2>4, FS_Subset
<1>4. \A d : /\ Categorised(s, d) \in SUBSET (1..N) /\ IsFiniteSet(Categorised(s, d))
             /\ Cardinality(Categorised(s, d)) \in Nat
  <2> TAKE d
  <2>1. Categorised(s, d) \in SUBSET (1..N)
    BY DEF Categorised
  <2> QED
    BY <1>2, <2>1, FS_Subset, FS_CardinalityType
<1>5. DOMAIN size = CategoriesOf(s) /\ \A d \in CategoriesOf(s) : size[d] = Cardinality(Categorised(s, d))
  BY DEF SizesOf
<1> HIDE DEF size
<1>6. c \in CategoriesOf(s)
  BY DEF CategoriesOf
<1>7. Cardinality(Categorised(s, c)) >= 2
  <2>1. {i, k} \in SUBSET Categorised(s, c)
    BY DEF Categorised
  <2>2. Cardinality({i, k}) = 2
    <3>1. IsFiniteSet({i}) /\ Cardinality({i}) = 1
      BY FS_Singleton
    <3>2. Cardinality({i} \cup {k}) = 1 + 1
      BY <3>1, FS_AddElement
    <3>3. {i, k} = {i} \cup {k}
      OBVIOUS
    <3>4. 1 + 1 = 2
      OBVIOUS
    <3> QED
      BY <3>2, <3>3, <3>4, Zenon
  <2>3. Cardinality({i, k}) <= Cardinality(Categorised(s, c))
    BY <1>4, <2>1, FS_Subset
  <2> QED
    BY <1>4, <2>2, <2>3
<1>8. Crowd(size) \in SUBSET CategoriesOf(s)
  BY <1>5 DEF Crowd
<1>9. IsFiniteSet(Crowd(size)) /\ Crowd(size) \subseteq Int
  BY <1>3, <1>8, FS_Subset
<1>10. \A d \in Crowd(size) : size[d] \in Nat
  BY <1>4, <1>5, <1>8
<1>11. c \in Crowd(size)
  BY <1>5, <1>6, <1>7 DEF Crowd, MinClusterSize
<1>12. \A d \in Crowd(size) : d \in {x.cluster : x \in ToSet(ClustersOf(size, BugsIn(s), FilesAt(s)))}
  BY <1>9, <1>10, ClustersList
<1> QED
  BY <1>1, <1>11, <1>12

LEMMA OfIs ==
  ASSUME NEW led \in Seq(LedgerEntries), NEW kinds
  PROVE  ToSet(Of(led, kinds)) = {e \in ToSet(led) : e.event \in kinds}
<1> DEFINE I == {i \in DOMAIN led : led[i].event \in kinds}
           q == Of(led, kinds)
<1>1. q = Picked(led, I)
  BY DEF Of, Select
<1>2. I \in SUBSET (1..Len(led)) /\ DOMAIN led = 1..Len(led)
  OBVIOUS
<1>3. \A i \in 1..Len(led) : i \in I <=> led[i].event \in kinds
  BY <1>2
<1> HIDE DEF I, q
<1>4. /\ q \in Seq(LedgerEntries) /\ Len(q) = Cardinality(I)
      /\ \A n \in 1..Cardinality(I) : \E i \in I : q[n] = led[i]
      /\ \A i \in I : \E n \in 1..Cardinality(I) : q[n] = led[i]
  <2>1. /\ Picked(led, I) \in Seq(LedgerEntries) /\ Len(Picked(led, I)) = Cardinality(I)
        /\ \A n \in 1..Cardinality(I) : \E i \in I : Picked(led, I)[n] = led[i]
        /\ \A i \in I : \E n \in 1..Cardinality(I) : Picked(led, I)[n] = led[i]
    BY <1>2, PickedIs
  <2> QED
    BY <1>1, <2>1
<1>5. DOMAIN q = 1..Cardinality(I)
  BY <1>4
<1>6. ToSet(q) = {q[n] : n \in 1..Cardinality(I)} /\ ToSet(led) = {led[i] : i \in 1..Len(led)}
  BY <1>2, <1>5 DEF ToSet
<1>7. \A n \in 1..Cardinality(I) : q[n] \in ToSet(led) /\ q[n].event \in kinds
  BY <1>2, <1>3, <1>4, <1>6
<1>8. \A i \in 1..Len(led) : led[i].event \in kinds => led[i] \in ToSet(q)
  BY <1>3, <1>4, <1>6
<1> QED
  BY <1>6, <1>7, <1>8 DEF q

LEMMA MergedIs ==
  ASSUME NEW x, NEW y
  PROVE  /\ MergeSummaries(<<x, y>>).clusters = BuildClusters(FlattenSeq(<<x.findings, y.findings>>))
         /\ MergeSummaries(<<x, y>>).worst = WorstStatus({x.status, y.status})
<1> DEFINE q == <<x, y>>
           found == Mapped(q, LAMBDA summary : summary.findings)
           statuses == Mapped(q, LAMBDA summary : summary.status)
<1>1. DOMAIN q = 1..2 /\ q[1] = x /\ q[2] = y
  OBVIOUS
<1>2. found = <<x.findings, y.findings>>
  BY <1>1 DEF Mapped
<1>3. ToSet(statuses) = {x.status, y.status}
  <2>1. DOMAIN statuses = 1..2 /\ statuses[1] = x.status /\ statuses[2] = y.status
    BY <1>1 DEF Mapped
  <2> HIDE DEF statuses
  <2>2. 1..2 = {1, 2}
    OBVIOUS
  <2> QED
    BY <2>1, <2>2 DEF ToSet
<1>4. MergeSummaries(q).clusters = BuildClusters(FlattenSeq(found))
  BY DEF MergeSummaries, MergeClusters
<1>5. MergeSummaries(q).worst = WorstStatus(ToSet(statuses))
  BY DEF MergeSummaries
<1> HIDE DEF found, statuses
<1> QED
  BY <1>2, <1>3, <1>4, <1>5

LEMMA SessionHolds == Inv => SessionIsOrderFree
<1> SUFFICES ASSUME Inv PROVE SessionIsOrderFree
  OBVIOUS
<1> DEFINE a == Summary(TRUE)
           b == ReduceRun(findings, None, FALSE, Prior, TRUE, {})
           ab == MergeSummaries(<<a, b>>)
           ba == MergeSummaries(<<b, a>>)
           u == FindingsOf(Ledger)
           v == FindingsOf(findings)
           X == {Finding(Ledger, e) : e \in LedgerEntries} \cup {Finding(findings, e) : e \in LedgerEntries}
           kinds == Severities \cup {"architectural"}
<1>1. a.findings = u /\ a.counts = Counts(u) /\ b.findings = v /\ b.counts = Counts(v)
  BY DEF Summary, ReduceRun, FindingsOf
<1>2. /\ Ledger \in Seq(LedgerEntries) /\ findings \in Seq(LedgerEntries)
      /\ ToSet(findings) \subseteq ToSet(Ledger)
  BY LedgerIs
<1>3. /\ ab.clusters = BuildClusters(FlattenSeq(<<a.findings, b.findings>>))
      /\ ba.clusters = BuildClusters(FlattenSeq(<<b.findings, a.findings>>))
  <2> HIDE DEF a, b
  <2> QED
    BY MergedIs
<1>4. ab.totals = [s \in kinds |-> TotalOf(a, b, s)] /\ ba.totals = [s \in kinds |-> TotalOf(b, a, s)]
  <2> HIDE DEF a, b
  <2> QED
    BY DEF MergeSummaries, MergeTotals, TotalOf
<1>5. ab.worst = WorstStatus({a.status, b.status}) /\ ba.worst = WorstStatus({b.status, a.status})
  <2> HIDE DEF a, b
  <2> QED
    BY MergedIs
<1> HIDE DEF a, b, ab, ba, kinds
<1>6. u \in Seq(X) /\ v \in Seq(X)
  <2> DEFINE Y == {Finding(Ledger, e) : e \in LedgerEntries}
             Z == {Finding(findings, e) : e \in LedgerEntries}
  <2>1. u \in Seq(Y)
    BY <1>2, FindingsAre
  <2>2. v \in Seq(Z)
    BY <1>2, FindingsAre
  <2>3. Y \subseteq X /\ Z \subseteq X
    OBVIOUS
  <2> HIDE DEF X, Y, Z, u, v
  <2> QED
    BY <2>1, <2>2, <2>3, SeqWider
<1>7. /\ Len(u) = Len(Of(Ledger, Kinds)) /\ Of(Ledger, Kinds) \in Seq(LedgerEntries)
      /\ \A i \in 1..Len(u) : u[i].category = Of(Ledger, Kinds)[i].category /\ u[i].category \in Int \cup {None}
      /\ \A s \in kinds : Counts(u)[s] \in Nat
  BY <1>2, FindingsAre DEF kinds
<1>8. /\ Len(v) = Len(Of(findings, Kinds)) /\ Of(findings, Kinds) \in Seq(LedgerEntries)
      /\ \A i \in 1..Len(v) : v[i].category = Of(findings, Kinds)[i].category /\ v[i].category \in Int \cup {None}
      /\ \A s \in kinds : Counts(v)[s] \in Nat
  BY <1>2, FindingsAre DEF kinds
<1> HIDE DEF X, u, v
<1>9. ab.clusters = BuildClusters(u \o v) /\ ba.clusters = BuildClusters(v \o u)
  <2>1. FlattenSeq(<<u, v>>) = u \o v
    BY <1>6, FlattenTwo
  <2>2. FlattenSeq(<<v, u>>) = v \o u
    BY <1>6, FlattenTwo
  <2> QED
    BY <1>1, <1>3, <2>1, <2>2
<1>10. ab.clusters = ba.clusters
  <2>1. BuildClusters(u \o v) = BuildClusters(v \o u)
    BY <1>6, ClustersSwap
  <2> QED
    BY <1>9, <2>1
<1>11. ab.totals = ba.totals
  <2>1. ASSUME NEW s \in kinds PROVE TotalOf(a, b, s) = TotalOf(b, a, s)
    <3>1. a.counts[s] \in Nat /\ b.counts[s] \in Nat
      BY <1>1, <1>7, <1>8
    <3>2. TotalOf(a, b, s) = a.counts[s] + b.counts[s]
      BY <3>1, TotalTwo
    <3>3. TotalOf(b, a, s) = b.counts[s] + a.counts[s]
      BY <3>1, TotalTwo
    <3> QED
      BY <3>1, <3>2, <3>3
  <2> QED
    BY <1>4, <2>1
<1>12. ab.worst = ba.worst
  <2>1. {a.status, b.status} = {b.status, a.status}
    OBVIOUS
  <2> QED
    BY <1>5, <2>1
<1>13. ASSUME NEW e \in ToSet(Of(findings, Kinds)), e.category # None
       PROVE  e.category \in {c.cluster : c \in ToSet(ab.clusters)}
  <2> DEFINE M == Len(u)
             N == Len(v)
             s == u \o v
             c == e.category
  <2>1. ToSet(Of(findings, Kinds)) = {x \in ToSet(findings) : x.event \in Kinds}
    BY <1>2, OfIs
  <2>2. ToSet(Of(Ledger, Kinds)) = {x \in ToSet(Ledger) : x.event \in Kinds}
    BY <1>2, OfIs
  <2>3. e \in ToSet(Of(Ledger, Kinds))
    BY <1>2, <1>13, <2>1, <2>2
  <2>4. DOMAIN Of(Ledger, Kinds) = 1..M /\ DOMAIN Of(findings, Kinds) = 1..N
    BY <1>7, <1>8
  <2>5. PICK i \in 1..M : Of(Ledger, Kinds)[i] = e
    BY <2>3, <2>4 DEF ToSet
  <2>6. PICK k \in 1..N : Of(findings, Kinds)[k] = e
    BY <1>13, <2>4 DEF ToSet
  <2>7. u[i].category = c /\ v[k].category = c
    BY <1>7, <1>8, <2>5, <2>6
  <2>8. /\ M \in Nat /\ N \in Nat /\ DOMAIN s = 1..(M + N)
        /\ \A n \in 1..M : s[n] = u[n]
        /\ \A n \in (M + 1)..(M + N) : s[n] = v[n - M]
    BY <1>6
  <2> HIDE DEF s, c
  <2>9. \A n \in 1..(M + N) : s[n].category \in Int \cup {None}
    <3> TAKE n \in 1..(M + N)
    <3> HIDE DEF M, N
    <3>1. CASE n \in 1..M
      BY <1>7, <2>8, <3>1 DEF M
    <3>2. CASE n \notin 1..M
      <4>1. n \in (M + 1)..(M + N) /\ n - M \in 1..N
        BY <2>8, <3>2
      <4>2. v[n - M].category \in Int \cup {None}
        BY <1>8, <4>1 DEF N
      <4> QED
        BY <2>8, <4>1, <4>2
    <3> QED
      BY <3>1, <3>2
  <2> HIDE DEF M, N
  <2>10. i \in 1..(M + N) /\ s[i].category = c
    BY <2>7, <2>8
  <2>11. M + k \in 1..(M + N) /\ s[M + k].category = c /\ i # M + k
    <3>1. M + k \in (M + 1)..(M + N) /\ (M + k) - M = k /\ i # M + k /\ M + k \in 1..(M + N)
      BY <2>8
    <3>2. s[M + k] = v[k]
      BY <2>8, <3>1
    <3> QED
      BY <2>7, <3>1, <3>2
  <2>12. M + N \in Nat
    BY <2>8
  <2>13. c # None
    BY <1>13 DEF c
  <2>14. c \in {d.cluster : d \in ToSet(BuildClusters(s))}
    BY <2>8, <2>9, <2>10, <2>11, <2>12, <2>13, ClusterFound
  <2> QED
    BY <1>9, <2>14 DEF s, c
<1> QED
  BY <1>10, <1>11, <1>12, <1>13 DEF SessionIsOrderFree, ab, ba, a, b

(* The two runs whose summaries make a session make the same one in either *)
(* order, and what both found is a cluster: session_summary.py merges the  *)
(* findings of the runs, not their clusters (SessionIsOrderFree).          *)
THEOREM SessionAlwaysOrderFree == Spec => []SessionIsOrderFree
<1> QED
  BY SessionHolds, Inductive, PTL
=============================================================================
