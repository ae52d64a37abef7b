---------------------------- MODULE FiniteSums -----------------------------
(***************************************************************************)
(* Induction over the naturals and over the subsets of a finite set, and   *)
(* what it says of sums over finite sets (MapThenSumSet).                  *)
(*                                                                         *)
(* Induction is stated for sets rather than predicates: a set with 0 that  *)
(* is closed under successors contains every natural because < is          *)
(* well-founded, and a family of sets that has {} and each set whose       *)
(* smaller sets it has contains every subset of a finite set.              *)
(***************************************************************************)
EXTENDS Integers, Sequences, FiniteSets, FiniteSetsExt, WellFoundedInduction, FiniteSetTheorems, TLAPS

\* A set of naturals has a least element.
LEMMA LeastOf ==
  ASSUME NEW T, T \subseteq Nat, T # {}
  PROVE  \E n \in T : \A k \in T : n <= k
<1> DEFINE R == OpToRel(<, Nat)
<1>1. IsWellFoundedOn(R, Nat)
  BY NatLessThanWellFounded
<1>2. \A n, k \in Nat : n < k => <<n, k>> \in R
  BY DEF OpToRel
<1> HIDE DEF R
<1>3. PICK n \in T : \A k \in T : <<k, n>> \notin R
  BY <1>1, WFMin
<1>4. \A k \in T : ~(k < n)
  BY <1>2, <1>3
<1>5. n \in Nat /\ \A k \in T : k \in Nat
  BY <1>3
<1> QED
  BY <1>3, <1>4, <1>5

\* A set of naturals with 0 and the successors of its elements is Nat.
LEMMA InductionOnNat ==
  ASSUME NEW T, 0 \in T, \A n \in Nat : n \in T => n + 1 \in T
  PROVE  Nat \subseteq T
<1> SUFFICES ASSUME Nat \ T # {} PROVE FALSE
  OBVIOUS
<1>1. PICK n \in Nat \ T : \A k \in Nat \ T : n <= k
  BY LeastOf
<1>2. n - 1 \in Nat /\ n - 1 \notin Nat \ T
  BY <1>1
<1> QED
  BY <1>1, <1>2

\* A family with {} and every set whose smaller sets it has.
LEMMA InductionOnSubsets ==
  ASSUME NEW D, IsFiniteSet(D), NEW P, {} \in P,
         \A s \in SUBSET D : s # {} /\ (\A x \in s : s \ {x} \in P) => s \in P
  PROVE  SUBSET D \subseteq P
<1> DEFINE T == {n \in Nat : \A s \in SUBSET D : Cardinality(s) = n => s \in P}
<1>1. \A s \in SUBSET D : IsFiniteSet(s) /\ Cardinality(s) \in Nat /\ (Cardinality(s) = 0 <=> s = {})
  BY FS_Subset, FS_CardinalityType, FS_EmptySet
<1>2. 0 \in T
  BY <1>1
<1>3. ASSUME NEW n \in Nat, n \in T PROVE n + 1 \in T
  <2>1. ASSUME NEW s \in SUBSET D, Cardinality(s) = n + 1 PROVE s \in P
    <3>1. s # {}
      BY <1>1, <2>1
    <3>2. ASSUME NEW x \in s PROVE s \ {x} \in P
      <4>1. Cardinality(s \ {x}) = n
        BY <1>1, <2>1, FS_RemoveElement
      <4> QED
        BY <1>3, <4>1
    <3> QED
      BY <3>1, <3>2
  <2> QED
    BY <2>1
<1>4. Nat \subseteq T
  <2> HIDE DEF T
  <2> QED
    BY <1>2, <1>3, InductionOnNat
<1> QED
  BY <1>1, <1>4

\* What FlattenSeq computes over the first n elements of q.
IsFlat(f, q, n) == f = [i \in 1 .. n |-> IF i = 1 THEN q[i] ELSE f[i - 1] \o q[i]]

LEMMA FlatExists ==
  ASSUME NEW q, NEW n \in Nat
  PROVE  \E f : IsFlat(f, q, n)
<1> DEFINE T == {k \in Nat : \E f : IsFlat(f, q, k)}
<1>1. 0 \in T
  <2>1. IsFlat([i \in 1 .. 0 |-> 0], q, 0)
    BY DEF IsFlat
  <2> QED
    BY <2>1
<1>2. ASSUME NEW k \in Nat, k \in T PROVE k + 1 \in T
  <2>1. PICK f : IsFlat(f, q, k)
    BY <1>2
  <2> DEFINE v(i) == IF i = 1 THEN q[i] ELSE f[i - 1] \o q[i]
             g == [i \in 1 .. k + 1 |-> v(i)]
  <2>2. \A i \in 1 .. k : f[i] = v(i)
    BY <2>1 DEF IsFlat
  <2>3. \A i \in 1 .. k + 1 : i # 1 => i - 1 \in 1 .. k
    OBVIOUS
  <2>4. \A i \in 1 .. k : g[i] = f[i]
    <3> HIDE DEF v
    <3>1. \A i \in 1 .. k : i \in 1 .. k + 1
      OBVIOUS
    <3> QED
      BY <2>2, <3>1
  <2>5. \A i \in 1 .. k + 1 : v(i) = IF i = 1 THEN q[i] ELSE g[i - 1] \o q[i]
    <3> HIDE DEF g
    <3> QED
      BY <2>3, <2>4
  <2>6. IsFlat(g, q, k + 1)
    <3>1. g = [i \in 1 .. k + 1 |-> v(i)]
      OBVIOUS
    <3> HIDE DEF g, v
    <3> QED
      BY <2>5, <3>1 DEF IsFlat
  <2> HIDE DEF g
  <2> QED
    BY <2>6
<1>3. Nat \subseteq T
  <2> HIDE DEF T
  <2> QED
    BY <1>1, <1>2, InductionOnNat
<1> QED
  BY <1>3

-----------------------------------------------------------------------------
Pick(s) == CHOOSE x \in s : TRUE

\* h is the function MapThenSumSet computes over the subsets of D.
IsSumOf(h, g, D) ==
  h = [s \in SUBSET D |-> IF s = {} THEN 0 ELSE g[Pick(s)] + h[s \ {Pick(s)}]]

SumOf(g, D) == MapThenSumSet(LAMBDA x : g[x], D)

LEMMA Picked == \A s : s # {} => Pick(s) \in s
BY DEF Pick

LEMMA SumExists ==
  ASSUME NEW D, IsFiniteSet(D), NEW g
  PROVE  \E h : IsSumOf(h, g, D)
<1> DEFINE Small(n) == {s \in SUBSET D : Cardinality(s) <= n}
           UpTo(h, n) == h = [s \in Small(n) |-> IF s = {} THEN 0 ELSE g[Pick(s)] + h[s \ {Pick(s)}]]
           T == {n \in Nat : \E h : UpTo(h, n)}
<1>1. \A s \in SUBSET D : IsFiniteSet(s) /\ Cardinality(s) \in Nat /\ (Cardinality(s) = 0 <=> s = {})
  BY FS_Subset, FS_CardinalityType, FS_EmptySet
<1>2. \A s \in SUBSET D : s # {} => Cardinality(s \ {Pick(s)}) = Cardinality(s) - 1
  BY <1>1, Picked, FS_RemoveElement
<1>3. 0 \in T
  <2> DEFINE h == [s \in Small(0) |-> 0]
  <2>1. \A s \in Small(0) : s = {}
    BY <1>1
  <2>2. UpTo(h, 0)
    BY <2>1
  <2> QED
    BY <2>2
<1>4. ASSUME NEW n \in Nat, n \in T PROVE n + 1 \in T
  <2>1. PICK h : UpTo(h, n)
    BY <1>4
  <2> DEFINE k == [s \in Small(n + 1) |-> IF s = {} THEN 0 ELSE g[Pick(s)] + h[s \ {Pick(s)}]]
  <2>2. ASSUME NEW s \in Small(n + 1), s # {} PROVE k[s \ {Pick(s)}] = h[s \ {Pick(s)}]
    <3> DEFINE t == s \ {Pick(s)}
    <3>1. t \in Small(n) /\ t \in Small(n + 1)
      BY <1>1, <1>2, <2>2
    <3>2. h[t] = IF t = {} THEN 0 ELSE g[Pick(t)] + h[t \ {Pick(t)}]
      BY <2>1, <3>1
    <3>3. k[t] = IF t = {} THEN 0 ELSE g[Pick(t)] + h[t \ {Pick(t)}]
      BY <3>1
    <3> QED
      BY <3>2, <3>3
  <2>3. \A s \in Small(n + 1) : s # {} => g[Pick(s)] + h[s \ {Pick(s)}] = g[Pick(s)] + k[s \ {Pick(s)}]
    BY <2>2
  <2>4. UpTo(k, n + 1)
    <3> HIDE DEF Small
    <3>1. k = [s \in Small(n + 1) |-> IF s = {} THEN 0 ELSE g[Pick(s)] + h[s \ {Pick(s)}]]
      OBVIOUS
    <3> HIDE DEF k
    <3> QED
      BY <2>3, <3>1
  <2> HIDE DEF UpTo
  <2> QED
    BY <2>4
<1>5. \E h : UpTo(h, Cardinality(D))
  <2>1. Nat \subseteq T
    <3> HIDE DEF T
    <3> QED
      BY <1>3, <1>4, InductionOnNat
  <2> QED
    BY <1>1, <2>1
<1>6. Small(Cardinality(D)) = SUBSET D
  BY <1>1, FS_Subset
<1> QED
  BY <1>5, <1>6 DEF IsSumOf

LEMMA SumIs ==
  ASSUME NEW D, IsFiniteSet(D), NEW g
  PROVE  \E h : IsSumOf(h, g, D) /\ SumOf(g, D) = h[D]
<1>1. \E h : IsSumOf(h, g, D)
  BY SumExists
<1> QED
  BY <1>1 DEF SumOf, MapThenSumSet, MapThenFoldSet, IsSumOf, Pick

LEMMA SumParts ==
  ASSUME NEW D, NEW g, NEW h, IsSumOf(h, g, D)
  PROVE  /\ h[{}] = 0
         /\ \A s \in SUBSET D : s # {} => /\ Pick(s) \in s /\ s \ {Pick(s)} \in SUBSET D
                                          /\ h[s] = g[Pick(s)] + h[s \ {Pick(s)}]
BY Picked DEF IsSumOf

LEMMA SumIsInt ==
  ASSUME NEW D, IsFiniteSet(D), NEW g, \A x \in D : g[x] \in Int, NEW h, IsSumOf(h, g, D)
  PROVE  \A s \in SUBSET D : h[s] \in Int
<1>p. \A s \in SUBSET D : s # {} => Pick(s) \in s /\ h[s] = g[Pick(s)] + h[s \ {Pick(s)}]
  BY Picked DEF IsSumOf
<1> DEFINE P == {s \in SUBSET D : h[s] \in Int}
<1>1. {} \in P
  BY SumParts
<1>2. ASSUME NEW s \in SUBSET D, s # {}, \A x \in s : s \ {x} \in P PROVE s \in P
  <2> DEFINE x == Pick(s)
  <2>0. s # {}
    BY <1>2
  <2>1. x \in s /\ h[s] = g[x] + h[s \ {x}]
    BY <2>0, <1>p
  <2>2. h[s \ {x}] \in Int
    BY <1>2, <2>1
  <2> HIDE DEF x
  <2> QED
    BY <2>1, <2>2
<1>3. SUBSET D \subseteq P
  <2> HIDE DEF P
  <2> QED
    BY <1>1, <1>2, InductionOnSubsets
<1> QED
  BY <1>3

LEMMA SumIsUnique ==
  ASSUME NEW D, IsFiniteSet(D), NEW g, NEW h, IsSumOf(h, g, D)
  PROVE  h[D] = SumOf(g, D)
<1>1. PICK j : IsSumOf(j, g, D) /\ SumOf(g, D) = j[D]
  BY SumIs
<1> DEFINE P == {s \in SUBSET D : h[s] = j[s]}
<1>2. {} \in P
  BY <1>1, SumParts
<1>3. ASSUME NEW s \in SUBSET D, s # {}, \A x \in s : s \ {x} \in P PROVE s \in P
  <2> DEFINE x == Pick(s)
  <2>0. s # {}
    BY <1>3
  <2>1. x \in s /\ h[s] = g[x] + h[s \ {x}] /\ j[s] = g[x] + j[s \ {x}]
    BY <1>1, <2>0, SumParts
  <2>2. h[s \ {x}] = j[s \ {x}]
    BY <1>3, <2>1
  <2> QED
    BY <2>1, <2>2
<1>4. SUBSET D \subseteq P
  <2> HIDE DEF P
  <2> QED
    BY <1>2, <1>3, InductionOnSubsets
<1> QED
  BY <1>1, <1>4

\* A value that is no larger anywhere sums up to no more.
LEMMA SumIsMonotonic ==
  ASSUME NEW D, IsFiniteSet(D), NEW g \in [D -> Int], NEW k \in [D -> Int],
         \A x \in D : g[x] <= k[x]
  PROVE  SumOf(g, D) \in Int /\ SumOf(k, D) \in Int /\ SumOf(g, D) <= SumOf(k, D)
<1>1. PICK h : IsSumOf(h, g, D) /\ SumOf(g, D) = h[D]
  BY SumIs
<1>2. PICK j : IsSumOf(j, k, D) /\ SumOf(k, D) = j[D]
  BY SumIs
<1>3. \A s \in SUBSET D : h[s] \in Int /\ j[s] \in Int
  BY <1>1, <1>2, SumIsInt
<1> DEFINE P == {s \in SUBSET D : h[s] <= j[s]}
<1>4. {} \in P
  BY <1>1, <1>2, SumParts
<1>5. ASSUME NEW s \in SUBSET D, s # {}, \A x \in s : s \ {x} \in P PROVE s \in P
  <2> DEFINE x == Pick(s)
  <2>1. /\ x \in s /\ s \ {x} \in SUBSET D
        /\ h[s] = g[x] + h[s \ {x}] /\ j[s] = k[x] + j[s \ {x}]
    BY <1>1, <1>2, <1>5, SumParts
  <2>2. h[s \ {x}] <= j[s \ {x}]
    BY <1>5, <2>1
  <2> HIDE DEF x
  <2>3. /\ g[x] \in Int /\ k[x] \in Int /\ g[x] <= k[x]
        /\ h[s \ {x}] \in Int /\ j[s \ {x}] \in Int
    BY <1>3, <2>1
  <2> QED
    BY <2>1, <2>2, <2>3
<1>6. SUBSET D \subseteq P
  <2> HIDE DEF P
  <2> QED
    BY <1>4, <1>5, InductionOnSubsets
<1> QED
  BY <1>1, <1>2, <1>3, <1>6

\* A value that changes in one place.
LEMMA SumOfChanged ==
  ASSUME NEW D, IsFiniteSet(D), NEW g \in [D -> Int], NEW k \in [D -> Int], NEW c \in D,
         \A x \in D \ {c} : k[x] = g[x]
  PROVE  SumOf(g, D) \in Int /\ SumOf(k, D) = SumOf(g, D) + (k[c] - g[c])
<1>1. PICK h : IsSumOf(h, g, D) /\ SumOf(g, D) = h[D]
  BY SumIs
<1>2. PICK j : IsSumOf(j, k, D) /\ SumOf(k, D) = j[D]
  BY SumIs
<1>3. \A s \in SUBSET D : h[s] \in Int /\ j[s] \in Int
  BY <1>1, <1>2, SumIsInt
<1> DEFINE d == k[c] - g[c]
           P == {s \in SUBSET D : (c \in s => j[s] = h[s] + d) /\ (c \notin s => j[s] = h[s])}
<1>4. {} \in P
  BY <1>1, <1>2, SumParts
<1>5. ASSUME NEW s \in SUBSET D, s # {}, \A x \in s : s \ {x} \in P PROVE s \in P
  <2> DEFINE x == Pick(s)
             t == s \ {x}
  <2>1. x \in s /\ t \in SUBSET D /\ h[s] = g[x] + h[t] /\ j[s] = k[x] + j[t]
    BY <1>1, <1>2, <1>5, SumParts
  <2>2. (c \in t => j[t] = h[t] + d) /\ (c \notin t => j[t] = h[t])
    BY <1>5, <2>1
  <2>3. (c \in t <=> c \in s /\ c # x)
    OBVIOUS
  <2> HIDE DEF x, t
  <2>4. /\ g[x] \in Int /\ k[x] \in Int /\ (x # c => k[x] = g[x])
        /\ h[t] \in Int /\ j[t] \in Int /\ g[c] \in Int /\ k[c] \in Int
    BY <1>3, <2>1
  <2>5. CASE c = x
    BY <2>1, <2>2, <2>3, <2>4, <2>5
  <2>6. CASE c # x
    BY <2>1, <2>2, <2>3, <2>4, <2>6
  <2> QED
    BY <2>5, <2>6
<1>6. SUBSET D \subseteq P
  <2> HIDE DEF P
  <2> QED
    BY <1>4, <1>5, InductionOnSubsets
<1> QED
  BY <1>1, <1>2, <1>3, <1>6

\* The same everywhere.
LEMMA SumOfConstant ==
  ASSUME NEW D, IsFiniteSet(D), NEW n \in Int, NEW g, g = [x \in D |-> n]
  PROVE  SumOf(g, D) = n * Cardinality(D)
<1>1. PICK h : IsSumOf(h, g, D) /\ SumOf(g, D) = h[D]
  BY SumIs
<1>2. \A s \in SUBSET D : IsFiniteSet(s) /\ Cardinality(s) \in Nat
  BY FS_Subset, FS_CardinalityType
<1> DEFINE P == {s \in SUBSET D : h[s] = n * Cardinality(s)}
<1>3. {} \in P
  BY <1>1, SumParts, FS_EmptySet
<1>4. ASSUME NEW s \in SUBSET D, s # {}, \A x \in s : s \ {x} \in P PROVE s \in P
  <2> DEFINE x == Pick(s)
             t == s \ {x}
  <2>0. s # {}
    BY <1>4
  <2>1. x \in s /\ t \in SUBSET D /\ h[s] = g[x] + h[t]
    BY <1>1, <2>0, SumParts
  <2>2. h[t] = n * Cardinality(t)
    BY <1>4, <2>1
  <2>3. Cardinality(t) = Cardinality(s) - 1
    BY <1>2, <2>1, FS_RemoveElement
  <2> HIDE DEF x, t
  <2>4. g[x] = n
    BY <2>1
  <2>5. h[s] = n + n * (Cardinality(s) - 1)
    BY <2>1, <2>2, <2>3, <2>4
  <2>6. \A z \in Int : n + n * (z - 1) = n * z
    OBVIOUS
  <2> QED
    BY <1>2, <2>5, <2>6
<1>5. SUBSET D \subseteq P
  <2> HIDE DEF P
  <2> QED
    BY <1>3, <1>4, InductionOnSubsets
<1> QED
  BY <1>1, <1>5

\* Elements may be taken in any order.
InAnyOrder(h, g, D) == \A s \in SUBSET D : \A c \in s : h[s] = g[c] + h[s \ {c}]

LEMMA SumInAnyOrder ==
  ASSUME NEW D, IsFiniteSet(D), NEW g, \A x \in D : g[x] \in Int, NEW h, IsSumOf(h, g, D)
  PROVE  InAnyOrder(h, g, D)
<1>p. \A s \in SUBSET D : s # {} => Pick(s) \in s /\ h[s] = g[Pick(s)] + h[s \ {Pick(s)}]
  BY Picked DEF IsSumOf
<1>0. \A s \in SUBSET D : h[s] \in Int
  BY SumIsInt
<1> DEFINE P == {s \in SUBSET D : \A c \in s : h[s] = g[c] + h[s \ {c}]}
<1>1. {} \in P
  OBVIOUS
<1>2. ASSUME NEW s \in SUBSET D, s # {}, \A x \in s : s \ {x} \in P PROVE s \in P
  <2> DEFINE x == Pick(s)
  <2>0. s # {}
    BY <1>2
  <2>1. x \in s /\ h[s] = g[x] + h[s \ {x}]
    BY <2>0, <1>p
  <2> HIDE DEF x
  <2>2. ASSUME NEW c \in s, c # x PROVE h[s] = g[c] + h[s \ {c}]
    <3> DEFINE r == (s \ {c}) \ {x}
    <3>1. (s \ {x}) \ {c} = r /\ r \in SUBSET D
      OBVIOUS
    <3>2. s \ {x} \in P /\ c \in s \ {x} /\ s \ {c} \in P /\ x \in s \ {c}
      BY <1>2, <2>1, <2>2
    <3>3. h[s \ {x}] = g[c] + h[r] /\ h[s \ {c}] = g[x] + h[r]
      BY <3>1, <3>2
    <3>4. g[c] \in Int /\ g[x] \in Int /\ h[r] \in Int
      BY <1>0, <2>1, <3>1
    <3> HIDE DEF P, r
    <3> QED
      BY <2>1, <3>3, <3>4
  <2> QED
    BY <2>1, <2>2
<1>3. SUBSET D \subseteq P
  <2> HIDE DEF P
  <2> QED
    BY <1>1, <1>2, InductionOnSubsets
<1> QED
  BY <1>3 DEF InAnyOrder

\* A sum over a part is what the function for the whole says.
LEMMA SumOfPart ==
  ASSUME NEW D, IsFiniteSet(D), NEW g, NEW h, IsSumOf(h, g, D), NEW E \in SUBSET D
  PROVE  SumOf(g, E) = h[E]
<1> DEFINE j == [s \in SUBSET E |-> h[s]]
<1>1. IsFiniteSet(E)
  BY FS_Subset
<1>2. ASSUME NEW s \in SUBSET E
      PROVE  j[s] = IF s = {} THEN 0 ELSE g[Pick(s)] + j[s \ {Pick(s)}]
  <2>1. s \in SUBSET D /\ s \ {Pick(s)} \in SUBSET E
    OBVIOUS
  <2>2. h[s] = IF s = {} THEN 0 ELSE g[Pick(s)] + h[s \ {Pick(s)}]
    BY <2>1 DEF IsSumOf
  <2> QED
    BY <2>1, <2>2
<1>3. j = [s \in SUBSET E |-> j[s]]
  OBVIOUS
<1> HIDE DEF j
<1>4. IsSumOf(j, g, E)
  BY <1>2, <1>3 DEF IsSumOf
<1>5. j[E] = h[E]
  BY DEF j
<1> QED
  BY <1>1, <1>4, <1>5, SumIsUnique

\* One more element.
LEMMA SumOfAdded ==
  ASSUME NEW E, IsFiniteSet(E), NEW c, c \notin E, NEW g, \A x \in E \cup {c} : g[x] \in Int
  PROVE  SumOf(g, E) \in Int /\ SumOf(g, E \cup {c}) = SumOf(g, E) + g[c]
<1> DEFINE D == E \cup {c}
<1>1. IsFiniteSet(D) /\ D \ {c} = E /\ E \in SUBSET D /\ D \in SUBSET D
  BY FS_AddElement
<1> HIDE DEF D
<1>2. PICK h : IsSumOf(h, g, D)
  BY <1>1, SumExists
<1>3. SumOf(g, E) = h[E] /\ SumOf(g, D) = h[D]
  BY <1>1, <1>2, SumOfPart
<1>4. \A x \in D : g[x] \in Int
  BY DEF D
<1>5. h[E] \in Int
  BY <1>1, <1>2, <1>4, SumIsInt
<1>6. h[D] = g[c] + h[D \ {c}]
  <2>1. c \in D
    BY DEF D
  <2>2. InAnyOrder(h, g, D)
    BY <1>1, <1>2, <1>4, SumInAnyOrder
  <2> QED
    BY <1>1, <2>1, <2>2 DEF InAnyOrder
<1>7. g[c] \in Int
  BY <1>4 DEF D
<1>8. SumOf(g, D) = SumOf(g, E) + g[c] /\ SumOf(g, E) \in Int
  <2>1. h[D] = g[c] + h[E]
    BY <1>1, <1>6
  <2> QED
    BY <1>3, <1>5, <1>7, <2>1
<1> QED
  BY <1>8 DEF D

\* Sets without a common element.
LEMMA SumOfUnion ==
  ASSUME NEW A, NEW B, IsFiniteSet(A), IsFiniteSet(B), A \cap B = {},
         NEW g, \A x \in A \cup B : g[x] \in Int
  PROVE  /\ SumOf(g, A) \in Int /\ SumOf(g, B) \in Int
         /\ SumOf(g, A \cup B) = SumOf(g, A) + SumOf(g, B)
<1> DEFINE P == {s \in SUBSET B : /\ SumOf(g, s) \in Int
                                  /\ SumOf(g, A \cup s) = SumOf(g, A) + SumOf(g, s)}
<1>1. SumOf(g, A) \in Int /\ SumOf(g, {}) = 0
  <2>1. PICK h : IsSumOf(h, g, A)
    BY SumExists
  <2> QED
    BY <2>1, SumOfPart, SumIsInt, SumParts
<1>2. {} \in P
  BY <1>1
<1>3. ASSUME NEW s \in SUBSET B, s # {}, \A x \in s : s \ {x} \in P PROVE s \in P
  <2>1. PICK x \in s : TRUE
    BY <1>3
  <2> DEFINE r == s \ {x}
  <2>2. /\ IsFiniteSet(r) /\ IsFiniteSet(A \cup r)
        /\ x \notin r /\ x \notin A \cup r /\ r \cup {x} = s /\ (A \cup r) \cup {x} = A \cup s
    BY <2>1, FS_Subset, FS_Union
  <2>3. SumOf(g, r) \in Int /\ SumOf(g, A \cup r) = SumOf(g, A) + SumOf(g, r)
    BY <1>3, <2>1
  <2>4. g[x] \in Int /\ (\A y \in r \cup {x} : g[y] \in Int) /\ (\A y \in (A \cup r) \cup {x} : g[y] \in Int)
    BY <2>1
  <2> HIDE DEF r
  <2>5. SumOf(g, s) = SumOf(g, r) + g[x]
    BY <2>2, <2>4, SumOfAdded
  <2>6. SumOf(g, A \cup s) = SumOf(g, A \cup r) + g[x]
    BY <2>2, <2>4, SumOfAdded
  <2> QED
    BY <1>1, <2>3, <2>4, <2>5, <2>6
<1>4. SUBSET B \subseteq P
  <2> HIDE DEF P
  <2> QED
    BY <1>2, <1>3, InductionOnSubsets
<1> QED
  BY <1>1, <1>4

\* A sum of values that are at least n.
LEMMA SumIsAtLeast ==
  ASSUME NEW E, IsFiniteSet(E), NEW g, NEW n \in Int, \A x \in E : g[x] \in Int /\ g[x] >= n
  PROVE  SumOf(g, E) \in Int /\ SumOf(g, E) >= n * Cardinality(E)
<1>1. PICK h : IsSumOf(h, g, E)
  BY SumExists
<1>2. SumOf(g, E) = h[E] /\ h[E] \in Int
  BY <1>1, SumOfPart, SumIsInt
<1> DEFINE k == [x \in E |-> g[x]]
           c == [x \in E |-> n]
<1>3. IsSumOf(h, k, E)
  <2>1. \A s \in SUBSET E : s # {} => k[Pick(s)] = g[Pick(s)]
    BY Picked
  <2> HIDE DEF k
  <2> QED
    BY <1>1, <2>1 DEF IsSumOf
<1>4. SumOf(k, E) = h[E]
  BY <1>3, SumOfPart
<1>5. c \in [E -> Int] /\ k \in [E -> Int] /\ \A x \in E : c[x] <= k[x]
  OBVIOUS
<1>6. SumOf(c, E) = n * Cardinality(E)
  BY SumOfConstant
<1> HIDE DEF k, c
<1>7. SumOf(c, E) <= SumOf(k, E)
  BY <1>5, SumIsMonotonic
<1>8. Cardinality(E) \in Nat
  BY FS_CardinalityType
<1>9. n * Cardinality(E) \in Int
  BY <1>8
<1> QED
  BY <1>2, <1>4, <1>6, <1>7, <1>9
=============================================================================
