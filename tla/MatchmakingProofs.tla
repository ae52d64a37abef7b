-------------------------- MODULE MatchmakingProofs --------------------------
(***************************************************************************)
(* Proofs about battleground matchmaking, for all groups, limits and       *)
(* bounds.  The teams a battleground starts with are within its limits,    *)
(* for any number of requests; with one request at a time, the players of  *)
(* the queue are those with a link to it.                                  *)
(***************************************************************************)
EXTENDS Matchmaking, FiniteSums, SequenceTheorems

-----------------------------------------------------------------------------
(* Lists of links.                                                         *)

Marked(s) == \E j \in DOMAIN s : s[j] = QueueLink
Single(s) == \A j, k \in DOMAIN s : s[j] = QueueLink /\ s[k] = QueueLink => j = k

LEMMA LinksOf ==
  ASSUME NEW s \in Seq(Nat), Single(s)
  PROVE  Cardinality({j \in DOMAIN s : s[j] = QueueLink}) = IF Marked(s) THEN 1 ELSE 0
<1>1. CASE Marked(s)
  <2>1. PICK j \in DOMAIN s : s[j] = QueueLink
    BY <1>1 DEF Marked
  <2>2. {k \in DOMAIN s : s[k] = QueueLink} = {j}
    BY <2>1 DEF Single
  <2> QED
    BY <1>1, <2>2, FS_Singleton
<1>2. CASE ~Marked(s)
  <2>1. {k \in DOMAIN s : s[k] = QueueLink} = {}
    BY <1>2 DEF Marked
  <2> QED
    BY <1>2, <2>1, FS_EmptySet
<1> QED
  BY <1>1, <1>2

\* The sequence without its place m.
LEMMA WithoutPlace ==
  ASSUME NEW S, NEW s \in Seq(S), NEW m \in 1 .. Len(s)
  PROVE  /\ RemoveAt(s, m) \in Seq(S)
         /\ Len(RemoveAt(s, m)) = Len(s) - 1
         /\ \A j \in 1 .. (Len(s) - 1) : RemoveAt(s, m)[j] = IF j < m THEN s[j] ELSE s[j + 1]
<1> DEFINE a == SubSeq(s, 1, m - 1)
           b == SubSeq(s, m + 1, Len(s))
<1>1. Len(s) \in Nat /\ (\A j \in 1 .. Len(s) : s[j] \in S)
  OBVIOUS
<1>2. a \in Seq(S) /\ Len(a) = m - 1 /\ \A j \in 1 .. (m - 1) : a[j] = s[j]
  BY <1>1
<1>3. b \in Seq(S) /\ Len(b) = Len(s) - m /\ \A j \in 1 .. (Len(s) - m) : b[j] = s[m + j]
  BY <1>1
<1> HIDE DEF a, b
<1>4. a \o b \in Seq(S) /\ Len(a \o b) = Len(s) - 1
  <2>1. a \o b \in Seq(S) /\ Len(a \o b) = Len(a) + Len(b)
    BY <1>2, <1>3, ConcatProperties
  <2> QED
    BY <1>1, <1>2, <1>3, <2>1
<1>5. ASSUME NEW j \in 1 .. (Len(s) - 1) PROVE (a \o b)[j] = IF j < m THEN s[j] ELSE s[j + 1]
  <2>1. j \in 1 .. (Len(a) + Len(b))
    BY <1>2, <1>3
  <2>2. (a \o b)[j] = IF j <= Len(a) THEN a[j] ELSE b[j - Len(a)]
    BY <1>2, <1>3, <2>1
  <2>3. CASE j < m
    BY <1>2, <2>2, <2>3
  <2>4. CASE ~(j < m)
    <3>1. j - (m - 1) \in 1 .. (Len(s) - m) /\ m + (j - (m - 1)) = j + 1 /\ ~(j <= m - 1)
      BY <1>1, <2>4
    <3> QED
      BY <1>2, <1>3, <2>2, <2>4, <3>1
  <2> QED
    BY <2>3, <2>4
<1> QED
  BY <1>4, <1>5 DEF RemoveAt, a, b

\* RemoveFirst takes one place of e out, if there is one.
LEMMA FirstRemoved ==
  ASSUME NEW s \in Seq(Nat), NEW e, \E i \in 1 .. Len(s) : s[i] = e
  PROVE  \E m \in 1 .. Len(s) : s[m] = e /\ RemoveFirst(s, e) = RemoveAt(s, m)
<1> DEFINE I == {i \in 1 .. Len(s) : s[i] = e}
<1>1. I \subseteq Nat /\ I # {}
  OBVIOUS
<1>2. \E m \in I : \A k \in I : m <= k
  <2> HIDE DEF I
  <2> QED
    BY <1>1, LeastOf
<1>3. Min(I) \in I
  <2> HIDE DEF I
  <2> QED
    BY <1>2 DEF Min
<1>4. RemoveFirst(s, e) = RemoveAt(s, Min(I))
  BY <1>1 DEF RemoveFirst, SelectInSeq
<1> QED
  BY <1>3, <1>4

LEMMA TakenIsList ==
  ASSUME NEW s \in Seq(Nat), NEW e
  PROVE  RemoveFirst(s, e) \in Seq(Nat)
<1>1. CASE ~ \E i \in 1 .. Len(s) : s[i] = e
  BY <1>1 DEF RemoveFirst
<1>2. CASE \E i \in 1 .. Len(s) : s[i] = e
  BY <1>2, FirstRemoved, WithoutPlace
<1> QED
  BY <1>1, <1>2

LEMMA LinkTaken ==
  ASSUME NEW s \in Seq(Nat), NEW e, Single(s)
  PROVE  /\ RemoveFirst(s, e) \in Seq(Nat) /\ Single(RemoveFirst(s, e))
         /\ Marked(RemoveFirst(s, e)) <=> Marked(s) /\ e # QueueLink
<1> DEFINE n == Len(s)
<1>0. n \in Nat /\ DOMAIN s = 1 .. n
  OBVIOUS
<1>1. CASE ~ \E i \in 1 .. n : s[i] = e
  <2>1. RemoveFirst(s, e) = s
    BY <1>1 DEF RemoveFirst
  <2> QED
    BY <1>0, <1>1, <2>1 DEF Marked
<1>2. CASE \E i \in 1 .. n : s[i] = e
  <2>1. PICK m \in 1 .. n : s[m] = e /\ RemoveFirst(s, e) = RemoveAt(s, m)
    BY <1>2, FirstRemoved
  <2> DEFINE r == RemoveAt(s, m)
  <2>2. r \in Seq(Nat) /\ Len(r) = n - 1
    BY WithoutPlace
  <2>3. \A j \in 1 .. (n - 1) : r[j] = IF j < m THEN s[j] ELSE s[j + 1]
    BY WithoutPlace
  <2> HIDE DEF r, n
  <2>d. DOMAIN r = 1 .. (n - 1)
    <3>1. DOMAIN r = 1 .. Len(r)
      BY <2>2, LenProperties
    <3> QED
      BY <2>2, <3>1
  <2>4. \A j \in 1 .. (n - 1) : \E k \in 1 .. n : k # m /\ r[j] = s[k] /\ k = IF j < m THEN j ELSE j + 1
    <3> SUFFICES ASSUME NEW j \in 1 .. (n - 1)
                 PROVE  \E k \in 1 .. n : k # m /\ r[j] = s[k] /\ k = IF j < m THEN j ELSE j + 1
      OBVIOUS
    <3>1. j \in 1 .. n /\ j + 1 \in 1 .. n /\ (j < m => j # m) /\ (~(j < m) => j + 1 # m)
      BY <1>0
    <3> QED
      BY <2>3, <3>1
  <2>5. \A k \in 1 .. n : k # m => \E j \in 1 .. (n - 1) : r[j] = s[k]
    <3> SUFFICES ASSUME NEW k \in 1 .. n, k # m PROVE \E j \in 1 .. (n - 1) : r[j] = s[k]
      OBVIOUS
    <3>1. CASE k < m
      <4>1. k \in 1 .. (n - 1)
        BY <1>0, <3>1
      <4> QED
        BY <2>3, <3>1, <4>1
    <3>2. CASE k > m
      <4>1. k - 1 \in 1 .. (n - 1) /\ ~(k - 1 < m) /\ (k - 1) + 1 = k
        BY <1>0, <3>2
      <4> QED
        BY <2>3, <4>1
    <3> QED
      BY <1>0, <3>1, <3>2
  <2>6. Single(r)
    <3> SUFFICES ASSUME NEW i \in 1 .. (n - 1), NEW j \in 1 .. (n - 1), r[i] = QueueLink, r[j] = QueueLink
                 PROVE  i = j
      BY <2>d DEF Single
    <3>1. PICK k \in 1 .. n : r[i] = s[k] /\ k = IF i < m THEN i ELSE i + 1
      BY <2>4
    <3>2. PICK l \in 1 .. n : r[j] = s[l] /\ l = IF j < m THEN j ELSE j + 1
      BY <2>4
    <3>3. k = l
      BY <1>0, <3>1, <3>2 DEF Single
    <3> QED
      BY <1>0, <3>1, <3>2, <3>3
  <2>7. CASE e = QueueLink
    <3>1. \A k \in 1 .. n : k # m => s[k] # QueueLink
      BY <1>0, <2>1, <2>7 DEF Single
    <3>2. ~Marked(r)
      BY <2>d, <2>4, <3>1 DEF Marked
    <3> QED
      BY <2>1, <2>2, <2>6, <2>7, <3>2 DEF r
  <2>8. CASE e # QueueLink
    <3>1. Marked(r) => Marked(s)
      BY <1>0, <2>d, <2>4 DEF Marked
    <3>2. Marked(s) => Marked(r)
      <4> SUFFICES ASSUME NEW k \in 1 .. n, s[k] = QueueLink PROVE Marked(r)
        BY <1>0 DEF Marked
      <4>1. k # m
        BY <2>1, <2>8
      <4> QED
        BY <2>5, <2>d, <4>1 DEF Marked
    <3> QED
      BY <2>1, <2>2, <2>6, <2>8, <3>1, <3>2 DEF r
  <2> QED
    BY <2>7, <2>8
<1> QED
  BY <1>1, <1>2

LEMMA LinkPut ==
  ASSUME NEW s \in Seq(Nat), NEW e \in Nat, Single(s), e = QueueLink => ~Marked(s)
  PROVE  /\ Append(s, e) \in Seq(Nat) /\ Single(Append(s, e))
         /\ Marked(Append(s, e)) <=> Marked(s) \/ e = QueueLink
<1> DEFINE n == Len(s)
           r == Append(s, e)
<1>1. n \in Nat /\ DOMAIN s = 1 .. n /\ r \in Seq(Nat) /\ DOMAIN r = 1 .. (n + 1)
  OBVIOUS
<1>2. \A j \in 1 .. (n + 1) : r[j] = IF j = n + 1 THEN e ELSE s[j]
  OBVIOUS
<1> HIDE DEF r, n
<1>3. \A j \in 1 .. (n + 1) : j = n + 1 \/ j \in 1 .. n
  BY <1>1
<1>4. \A j \in 1 .. n : j \in 1 .. (n + 1) /\ j # n + 1
  BY <1>1
<1>5. n + 1 \in 1 .. (n + 1)
  BY <1>1
<1>6. Single(r)
  BY <1>1, <1>2, <1>3 DEF Single, Marked
<1>7. Marked(r) <=> Marked(s) \/ e = QueueLink
  BY <1>1, <1>2, <1>3, <1>4, <1>5 DEF Marked
<1> QED
  BY <1>1, <1>6, <1>7 DEF r

-----------------------------------------------------------------------------
(* Links.                                                                  *)

LinksOK(ls) == ls \in [Players -> Seq(Nat)] /\ \A p \in Players : Single(ls[p])

Linked(ls) == {p \in Players : Marked(ls[p])}

LEMMA LinksStayLists ==
  ASSUME NEW ls \in [Players -> Seq(Nat)], NEW players, NEW link
  PROVE  /\ LinkRemoved(ls, players, link) \in [Players -> Seq(Nat)]
         /\ link \in Nat => LinkAdded(ls, players, link) \in [Players -> Seq(Nat)]
<1>1. \A p \in Players : RemoveFirst(ls[p], link) \in Seq(Nat)
  BY TakenIsList
<1>2. link \in Nat => \A p \in Players : Append(ls[p], link) \in Seq(Nat)
  OBVIOUS
<1> QED
  BY <1>1, <1>2 DEF LinkRemoved, LinkAdded

LEMMA RemovedLinks ==
  ASSUME NEW ls, LinksOK(ls), NEW players, NEW link
  PROVE  /\ LinksOK(LinkRemoved(ls, players, link))
         /\ link = QueueLink => Linked(LinkRemoved(ls, players, link)) = Linked(ls) \ players
         /\ link # QueueLink => Linked(LinkRemoved(ls, players, link)) = Linked(ls)
<1> DEFINE r == LinkRemoved(ls, players, link)
<1>1. \A p \in Players : ls[p] \in Seq(Nat) /\ Single(ls[p])
  BY DEF LinksOK
<1>2. \A p \in Players : /\ RemoveFirst(ls[p], link) \in Seq(Nat) /\ Single(RemoveFirst(ls[p], link))
                         /\ Marked(RemoveFirst(ls[p], link)) <=> Marked(ls[p]) /\ link # QueueLink
  BY <1>1, LinkTaken
<1>3. r = [p \in Players |-> r[p]]
  BY DEF LinkRemoved
<1>4. \A p \in Players : r[p] = IF p \in players THEN RemoveFirst(ls[p], link) ELSE ls[p]
  BY DEF LinkRemoved
<1> HIDE DEF r
<1>5. \A p \in Players : r[p] \in Seq(Nat) /\ Single(r[p])
  BY <1>1, <1>2, <1>4
<1>6. LinksOK(r)
  BY <1>3, <1>5 DEF LinksOK
<1>7. \A p \in Players : Marked(r[p]) <=> Marked(ls[p]) /\ ~(p \in players /\ link = QueueLink)
  BY <1>2, <1>4
<1> QED
  BY <1>6, <1>7 DEF Linked, r

LEMMA AddedLinks ==
  ASSUME NEW ls, LinksOK(ls), NEW players, NEW link \in Nat,
         link = QueueLink => Linked(ls) \cap players = {}
  PROVE  /\ LinksOK(LinkAdded(ls, players, link))
         /\ link = QueueLink => Linked(LinkAdded(ls, players, link)) = Linked(ls) \cup (players \cap Players)
         /\ link # QueueLink => Linked(LinkAdded(ls, players, link)) = Linked(ls)
<1> DEFINE r == LinkAdded(ls, players, link)
<1>1. \A p \in Players : ls[p] \in Seq(Nat) /\ Single(ls[p])
  BY DEF LinksOK
<1>2. ASSUME NEW p \in Players, p \in players
      PROVE  /\ Append(ls[p], link) \in Seq(Nat) /\ Single(Append(ls[p], link))
             /\ Marked(Append(ls[p], link)) <=> Marked(ls[p]) \/ link = QueueLink
  <2>1. link = QueueLink => ~Marked(ls[p])
    BY <1>2 DEF Linked
  <2> QED
    BY <1>1, <2>1, LinkPut
<1>3. r = [p \in Players |-> r[p]]
  BY DEF LinkAdded
<1>4. \A p \in Players : r[p] = IF p \in players THEN Append(ls[p], link) ELSE ls[p]
  BY DEF LinkAdded
<1> HIDE DEF r
<1>5. \A p \in Players : r[p] \in Seq(Nat) /\ Single(r[p])
  BY <1>1, <1>2, <1>4
<1>6. LinksOK(r)
  BY <1>3, <1>5 DEF LinksOK
<1>7. \A p \in Players : Marked(r[p]) <=> Marked(ls[p]) \/ (p \in players /\ link = QueueLink)
  BY <1>2, <1>4
<1> QED
  BY <1>6, <1>7 DEF Linked, r

-----------------------------------------------------------------------------
(* The recursive definitions: that what they compute exists, and what it   *)
(* is.                                                                     *)

IsEachTaken(h, list, gone, n) ==
  h = [k \in 0 .. n |-> IF k = 0 THEN list ELSE RemoveFirst(h[k - 1], gone[k])]

\* What WithoutEach computes exists.
LEMMA EachTaken ==
  ASSUME NEW list, NEW gone, NEW n \in Nat
  PROVE  \E h : IsEachTaken(h, list, gone, n)
<1> DEFINE F(k, x) == RemoveFirst(x, gone[k])
           UpTo(h, m) == h = [k \in 0 .. m |-> IF k = 0 THEN list ELSE F(k, h[k - 1])]
           T == {m \in Nat : \E h : UpTo(h, m)}
<1> HIDE DEF F
<1>1. 0 \in T
  <2> DEFINE h == [k \in 0 .. 0 |-> list]
  <2>1. \A k \in 0 .. 0 : k = 0
    OBVIOUS
  <2>2. UpTo(h, 0)
    BY <2>1
  <2> QED
    BY <2>2
<1>2. ASSUME NEW m \in Nat, m \in T PROVE m + 1 \in T
  <2>1. PICK h : UpTo(h, m)
    BY <1>2
  <2> DEFINE j == [k \in 0 .. m + 1 |-> IF k = 0 THEN list ELSE F(k, h[k - 1])]
  <2>2. ASSUME NEW k \in 0 .. m + 1, k # 0 PROVE j[k - 1] = h[k - 1]
    <3>1. k - 1 \in 0 .. m /\ k - 1 \in 0 .. m + 1
      BY <2>2
    <3>2. h[k - 1] = IF k - 1 = 0 THEN list ELSE F(k - 1, h[(k - 1) - 1])
      BY <2>1, <3>1
    <3> QED
      BY <3>1, <3>2
  <2>3. UpTo(j, m + 1)
    <3>1. \A k \in 0 .. m + 1 : k # 0 => F(k, h[k - 1]) = F(k, j[k - 1])
      BY <2>2
    <3>2. j = [k \in 0 .. m + 1 |-> IF k = 0 THEN list ELSE F(k, h[k - 1])]
      OBVIOUS
    <3> HIDE DEF j
    <3> QED
      BY <3>1, <3>2
  <2> HIDE DEF UpTo
  <2> QED
    BY <2>3
<1>3. Nat \subseteq T
  <2> HIDE DEF T
  <2> QED
    BY <1>1, <1>2, InductionOnNat
<1> QED
  BY <1>3 DEF F, IsEachTaken

IsChoice(h, order, slots, team, n) ==
  h = [k \in 0 .. n |-> IF k = 0 THEN [groups |-> <<>>, slots |-> slots] ELSE Taking(h[k - 1], order[k], team)]

\* What GroupsForSlots computes exists.
LEMMA ChoiceExists ==
  ASSUME NEW order, NEW slots, NEW team, NEW n \in Nat
  PROVE  \E h : IsChoice(h, order, slots, team, n)
<1> DEFINE F(k, x) == Taking(x, order[k], team)
           UpTo(h, m) == h = [k \in 0 .. m |-> IF k = 0 THEN [groups |-> <<>>, slots |-> slots] ELSE F(k, h[k - 1])]
           T == {m \in Nat : \E h : UpTo(h, m)}
<1> HIDE DEF F
<1>1. 0 \in T
  <2> DEFINE h == [k \in 0 .. 0 |-> [groups |-> <<>>, slots |-> slots]]
  <2>1. \A k \in 0 .. 0 : k = 0
    OBVIOUS
  <2>2. UpTo(h, 0)
    BY <2>1
  <2> QED
    BY <2>2
<1>2. ASSUME NEW m \in Nat, m \in T PROVE m + 1 \in T
  <2>1. PICK h : UpTo(h, m)
    BY <1>2
  <2> DEFINE j == [k \in 0 .. m + 1 |-> IF k = 0 THEN [groups |-> <<>>, slots |-> slots] ELSE F(k, h[k - 1])]
  <2>2. ASSUME NEW k \in 0 .. m + 1, k # 0 PROVE j[k - 1] = h[k - 1]
    <3>1. k - 1 \in 0 .. m /\ k - 1 \in 0 .. m + 1
      BY <2>2
    <3>2. h[k - 1] = IF k - 1 = 0 THEN [groups |-> <<>>, slots |-> slots] ELSE F(k - 1, h[(k - 1) - 1])
      BY <2>1, <3>1
    <3> QED
      BY <3>1, <3>2
  <2>3. UpTo(j, m + 1)
    <3>1. \A k \in 0 .. m + 1 : k # 0 => F(k, h[k - 1]) = F(k, j[k - 1])
      BY <2>2
    <3>2. j = [k \in 0 .. m + 1 |-> IF k = 0 THEN [groups |-> <<>>, slots |-> slots] ELSE F(k, h[k - 1])]
      OBVIOUS
    <3> HIDE DEF j
    <3> QED
      BY <3>1, <3>2
  <2> HIDE DEF UpTo
  <2> QED
    BY <2>3
<1>3. Nat \subseteq T
  <2> HIDE DEF T
  <2> QED
    BY <1>1, <1>2, InductionOnNat
<1> QED
  BY <1>3 DEF F, IsChoice

IsSearch(h, groups, l, min, max, n) ==
  h = [k \in 0 .. n |->
         IF k = 0 THEN [s \in Searches |-> Better(s, min, max)]
         ELSE [s \in Searches |-> WithAndWithout(h[k - 1], groups[l - k + 1], s, max)]]

\* What Backtrack computes exists.
LEMMA SearchExists ==
  ASSUME NEW groups, NEW l, NEW min, NEW max, NEW n \in Nat
  PROVE  \E h : IsSearch(h, groups, l, min, max, n)
<1> DEFINE F(k, x) == [s \in Searches |-> WithAndWithout(x, groups[l - k + 1], s, max)]
           UpTo(h, m) == h = [k \in 0 .. m |-> IF k = 0 THEN [s \in Searches |-> Better(s, min, max)] ELSE F(k, h[k - 1])]
           T == {m \in Nat : \E h : UpTo(h, m)}
<1> HIDE DEF F
<1>1. 0 \in T
  <2> DEFINE h == [k \in 0 .. 0 |-> [s \in Searches |-> Better(s, min, max)]]
  <2>1. \A k \in 0 .. 0 : k = 0
    OBVIOUS
  <2>2. UpTo(h, 0)
    BY <2>1
  <2> QED
    BY <2>2
<1>2. ASSUME NEW m \in Nat, m \in T PROVE m + 1 \in T
  <2>1. PICK h : UpTo(h, m)
    BY <1>2
  <2> DEFINE j == [k \in 0 .. m + 1 |-> IF k = 0 THEN [s \in Searches |-> Better(s, min, max)] ELSE F(k, h[k - 1])]
  <2>2. ASSUME NEW k \in 0 .. m + 1, k # 0 PROVE j[k - 1] = h[k - 1]
    <3>1. k - 1 \in 0 .. m /\ k - 1 \in 0 .. m + 1
      BY <2>2
    <3>2. h[k - 1] = IF k - 1 = 0 THEN [s \in Searches |-> Better(s, min, max)] ELSE F(k - 1, h[(k - 1) - 1])
      BY <2>1, <3>1
    <3> QED
      BY <3>1, <3>2
  <2>3. UpTo(j, m + 1)
    <3>1. \A k \in 0 .. m + 1 : k # 0 => F(k, h[k - 1]) = F(k, j[k - 1])
      BY <2>2
    <3>2. j = [k \in 0 .. m + 1 |-> IF k = 0 THEN [s \in Searches |-> Better(s, min, max)] ELSE F(k, h[k - 1])]
      OBVIOUS
    <3> HIDE DEF j
    <3> QED
      BY <3>1, <3>2
  <2> HIDE DEF UpTo
  <2> QED
    BY <2>3
<1>3. Nat \subseteq T
  <2> HIDE DEF T
  <2> QED
    BY <1>1, <1>2, InductionOnNat
<1> QED
  BY <1>3 DEF F, IsSearch

IsLeaves(h, st, p, n) ==
  h = [k \in 0 .. n |-> IF k = 0 THEN st ELSE Leaves(h[k - 1], st.links[p][k], p)]

\* What LeavesAll computes exists.
LEMMA LeavesExists ==
  ASSUME NEW st, NEW p, NEW n \in Nat
  PROVE  \E h : IsLeaves(h, st, p, n)
<1> DEFINE F(k, x) == Leaves(x, st.links[p][k], p)
           UpTo(h, m) == h = [k \in 0 .. m |-> IF k = 0 THEN st ELSE F(k, h[k - 1])]
           T == {m \in Nat : \E h : UpTo(h, m)}
<1> HIDE DEF F
<1>1. 0 \in T
  <2> DEFINE h == [k \in 0 .. 0 |-> st]
  <2>1. \A k \in 0 .. 0 : k = 0
    OBVIOUS
  <2>2. UpTo(h, 0)
    BY <2>1
  <2> QED
    BY <2>2
<1>2. ASSUME NEW m \in Nat, m \in T PROVE m + 1 \in T
  <2>1. PICK h : UpTo(h, m)
    BY <1>2
  <2> DEFINE j == [k \in 0 .. m + 1 |-> IF k = 0 THEN st ELSE F(k, h[k - 1])]
  <2>2. ASSUME NEW k \in 0 .. m + 1, k # 0 PROVE j[k - 1] = h[k - 1]
    <3>1. k - 1 \in 0 .. m /\ k - 1 \in 0 .. m + 1
      BY <2>2
    <3>2. h[k - 1] = IF k - 1 = 0 THEN st ELSE F(k - 1, h[(k - 1) - 1])
      BY <2>1, <3>1
    <3> QED
      BY <3>1, <3>2
  <2>3. UpTo(j, m + 1)
    <3>1. \A k \in 0 .. m + 1 : k # 0 => F(k, h[k - 1]) = F(k, j[k - 1])
      BY <2>2
    <3>2. j = [k \in 0 .. m + 1 |-> IF k = 0 THEN st ELSE F(k, h[k - 1])]
      OBVIOUS
    <3> HIDE DEF j
    <3> QED
      BY <3>1, <3>2
  <2> HIDE DEF UpTo
  <2> QED
    BY <2>3
<1>3. Nat \subseteq T
  <2> HIDE DEF T
  <2> QED
    BY <1>1, <1>2, InductionOnNat
<1> QED
  BY <1>3 DEF F, IsLeaves

LEMMA FunctionIsSeq ==
  ASSUME NEW S, NEW n \in Nat, NEW q \in [1 .. n -> S]
  PROVE  q \in Seq(S) /\ Len(q) = n
OBVIOUS

LEMMA OrderIs ==
  ASSUME NEW S, IsFiniteSet(S), NEW order \in SetToSeqs(S)
  PROVE  order \in Seq(S) /\ Len(order) = Cardinality(S)
<1> DEFINE n == Cardinality(S)
<1>1. n \in Nat
  BY FS_CardinalityType
<1>2. order \in [1 .. n -> S]
  BY DEF SetToSeqs
<1> HIDE DEF n
<1>3. order \in Seq(S) /\ Len(order) = n
  BY <1>1, <1>2, FunctionIsSeq
<1> QED
  BY <1>3 DEF n

LEMMA ListIs ==
  ASSUME NEW S, IsFiniteSet(S)
  PROVE  SetToSeq(S) \in Seq(S) /\ Len(SetToSeq(S)) = Cardinality(S)
<1> DEFINE n == Cardinality(S)
<1>1. n \in Nat /\ ExistsBijection(1 .. n, S)
  <2>1. PICK m \in Nat : ExistsBijection(1 .. m, S)
    BY FS_NatBijection
  <2>2. m = n
    BY <2>1, FS_CountingElements
  <2> QED
    BY <2>1, <2>2
<1>2. PICK f \in [1 .. n -> S] : IsInjective(f)
  BY <1>1 DEF ExistsBijection, Bijection, Injection, IsInjective
<1>3. SetToSeq(S) \in [1 .. n -> S]
  BY <1>2 DEF SetToSeq
<1> HIDE DEF n
<1>4. SetToSeq(S) \in Seq(S) /\ Len(SetToSeq(S)) = n
  BY <1>1, <1>3, FunctionIsSeq
<1> QED
  BY <1>4 DEF n

\* Links to battlegrounds are taken out, the one to the queue stays.
LEMMA OtherLinksTaken ==
  ASSUME NEW s \in Seq(Nat), NEW gone \in Seq(Nat \ {0})
  PROVE  /\ WithoutEach(s, gone) \in Seq(Nat)
         /\ Single(s) => Single(WithoutEach(s, gone)) /\ (Marked(WithoutEach(s, gone)) <=> Marked(s))
<1> DEFINE N == Len(gone)
<1>1. N \in Nat /\ \A k \in 1 .. N : gone[k] # QueueLink
  BY DEF QueueLink
<1>2. PICK h : IsEachTaken(h, s, gone, N) /\ WithoutEach(s, gone) = h[N]
  <2>1. \E h : IsEachTaken(h, s, gone, N)
    BY <1>1, EachTaken
  <2> QED
    BY <2>1 DEF WithoutEach, IsEachTaken
<1> HIDE DEF N
<1> DEFINE Same(x) == x \in Seq(Nat) /\ (Single(s) => Single(x) /\ (Marked(x) <=> Marked(s)))
           T == {k \in Nat : k <= N => Same(h[k])}
<1>3. 0 \in T
  <2>1. h[0] = s
    BY <1>1, <1>2 DEF IsEachTaken
  <2> QED
    BY <2>1
<1>4. ASSUME NEW k \in Nat, k \in T PROVE k + 1 \in T
  <2> SUFFICES ASSUME k + 1 <= N PROVE Same(h[k + 1])
    OBVIOUS
  <2>1. Same(h[k])
    BY <1>1, <1>4
  <2>2. h[k + 1] = RemoveFirst(h[k], gone[k + 1]) /\ gone[k + 1] # QueueLink
    <3>1. k + 1 \in 0 .. N /\ k + 1 # 0 /\ (k + 1) - 1 = k /\ k + 1 \in 1 .. N
      BY <1>1
    <3> QED
      BY <1>1, <1>2, <3>1 DEF IsEachTaken
  <2> QED
    BY <2>1, <2>2, LinkTaken, TakenIsList
<1>5. Nat \subseteq T
  <2> HIDE DEF T
  <2> QED
    BY <1>3, <1>4, InductionOnNat
<1>6. Same(h[N])
  <2>1. N \in T /\ N <= N
    BY <1>1, <1>5
  <2> HIDE DEF Same
  <2> QED
    BY <2>1
<1> QED
  BY <1>2, <1>6

\* findGroupsForGivenSlots takes groups of the queue.
LEMMA ChoiceIs ==
  ASSUME NEW S, NEW order \in Seq(S), NEW slots, NEW team
  PROVE  GroupsForSlots(order, slots, team) \in Seq(S)
<1> DEFINE N == Len(order)
<1>1. N \in Nat /\ \A k \in 1 .. N : order[k] \in S
  OBVIOUS
<1>2. PICK h : IsChoice(h, order, slots, team, N) /\ GroupsForSlots(order, slots, team) = h[N].groups
  <2>1. \E h : IsChoice(h, order, slots, team, N)
    BY <1>1, ChoiceExists
  <2> QED
    BY <2>1 DEF GroupsForSlots, IsChoice
<1> HIDE DEF N
<1> DEFINE T == {k \in Nat : k <= N => h[k].groups \in Seq(S)}
<1>3. 0 \in T
  <2>1. h[0] = [groups |-> <<>>, slots |-> slots]
    BY <1>1, <1>2 DEF IsChoice
  <2>2. h[0].groups \in Seq(S)
    BY <2>1, EmptySeq
  <2> QED
    BY <2>2
<1>4. ASSUME NEW k \in Nat, k \in T PROVE k + 1 \in T
  <2> SUFFICES ASSUME k + 1 <= N PROVE h[k + 1].groups \in Seq(S)
    OBVIOUS
  <2>1. h[k].groups \in Seq(S)
    BY <1>1, <1>4
  <2>2. h[k + 1] = Taking(h[k], order[k + 1], team) /\ order[k + 1] \in S
    <3>1. k + 1 \in 0 .. N /\ k + 1 # 0 /\ (k + 1) - 1 = k /\ k + 1 \in 1 .. N
      BY <1>1
    <3> QED
      BY <1>1, <1>2, <3>1 DEF IsChoice
  <2>3. Append(h[k].groups, order[k + 1]) \in Seq(S)
    BY <2>1, <2>2
  <2> QED
    BY <2>1, <2>2, <2>3 DEF Taking
<1>5. Nat \subseteq T
  <2> HIDE DEF T
  <2> QED
    BY <1>3, <1>4, InductionOnNat
<1> QED
  BY <1>1, <1>2, <1>5

-----------------------------------------------------------------------------
(* The number of players of groups.                                        *)

Sizes(groups) == [i \in DOMAIN groups |-> Size(groups[i])]

LEMMA PartyIs ==
  ASSUME NEW g \in Parties
  PROVE  /\ g.team \in Teams /\ IsFiniteSet(g.members) /\ Size(g) \in Nat /\ Size(g) >= 1
         /\ PlayersOf(g) \subseteq Players /\ g.leader \in PlayersOf(g) /\ g.members \subseteq PlayersOf(g)
<1>1. g.team \in Teams /\ IsFiniteSet(g.members)
  BY MatchmakingAssumption
<1>2. Cardinality(g.members) \in Nat
  BY <1>1, FS_CardinalityType
<1> QED
  BY <1>1, <1>2 DEF Size, PlayersOf, Players

LEMMA TotalIs ==
  ASSUME NEW groups \in Seq(Parties)
  PROVE  /\ DOMAIN groups = 1 .. Len(groups) /\ Len(groups) \in Nat
         /\ \A i \in 1 .. Len(groups) : Sizes(groups)[i] \in Nat
         /\ Total(groups) = SumOf(Sizes(groups), 1 .. Len(groups))
         /\ Total(groups) \in Nat
<1> DEFINE D == 1 .. Len(groups)
           w(i) == Size(groups[i])
           W(h) == h = [s \in SUBSET D |-> IF s = {} THEN 0 ELSE w(Pick(s)) + h[s \ {Pick(s)}]]
<1>1. DOMAIN groups = D /\ Len(groups) \in Nat /\ \A i \in D : groups[i] \in Parties
  OBVIOUS
<1>2. IsFiniteSet(D) /\ Cardinality(D) \in Nat
  BY <1>1, FS_Interval, FS_CardinalityType
<1>3. \A i \in D : Sizes(groups)[i] = w(i) /\ w(i) \in Nat
  BY <1>1, PartyIs DEF Sizes
<1> HIDE DEF D
<1>4. Total(groups) = (CHOOSE h : W(h))[D]
  BY <1>1 DEF Total, MapThenSumSet, MapThenFoldSet, Pick
<1>5. \A h : W(h) <=> IsSumOf(h, Sizes(groups), D)
  <2>1. \A s \in SUBSET D : s # {} => Sizes(groups)[Pick(s)] = w(Pick(s))
    BY <1>3, Picked
  <2> QED
    BY <2>1 DEF IsSumOf
<1> HIDE DEF W
<1>6. (CHOOSE h : W(h))[D] = SumOf(Sizes(groups), D)
  BY <1>2, <1>5, SumExists, SumIsUnique
<1>7. \A i \in D : Sizes(groups)[i] \in Int /\ Sizes(groups)[i] >= 0
  BY <1>3
<1>8. SumOf(Sizes(groups), D) \in Int /\ SumOf(Sizes(groups), D) >= 0 * Cardinality(D)
  BY <1>2, <1>7, SumIsAtLeast
<1>9. 0 * Cardinality(D) = 0
  BY <1>2
<1> HIDE DEF w
<1>10. SumOf(Sizes(groups), D) \in Nat
  BY <1>8, <1>9
<1>11. \A i \in D : Sizes(groups)[i] \in Nat
  BY <1>3
<1> QED
  BY <1>1, <1>4, <1>6, <1>10, <1>11 DEF D

LEMMA SumOfNone == \A g : SumOf(g, {}) = 0
<1> TAKE g
<1>1. IsFiniteSet({})
  BY FS_EmptySet
<1>2. PICK h : IsSumOf(h, g, {}) /\ SumOf(g, {}) = h[{}]
  BY <1>1, SumIs
<1> QED
  BY <1>2, SumParts

LEMMA NoPlayers == Total(<<>>) = 0
<1>1. <<>> \in Seq(Parties) /\ Len(<<>>) = 0 /\ 1 .. 0 = {}
  OBVIOUS
<1>2. Total(<<>>) = SumOf(Sizes(<<>>), 1 .. Len(<<>>))
  BY <1>1, TotalIs
<1> QED
  BY <1>1, <1>2, SumOfNone

\* InviteGroups invites as many players as the groups have.
LEMMA InvitedPlayers ==
  ASSUME NEW groups \in Seq(Parties)
  PROVE  PlayersSeq(groups) \in Seq(Players) /\ Len(PlayersSeq(groups)) = Total(groups)
<1> DEFINE n == Len(groups)
           q == [i \in DOMAIN groups |-> Append(SetToSeq(groups[i].members), groups[i].leader)]
<1>1. /\ DOMAIN groups = 1 .. n /\ n \in Nat /\ (\A i \in 1 .. n : groups[i] \in Parties)
      /\ \A i \in 1 .. n : Sizes(groups)[i] \in Nat
  BY TotalIs
<1>2. ASSUME NEW i \in 1 .. n PROVE q[i] \in Seq(Players) /\ Len(q[i]) = Sizes(groups)[i]
  <2> DEFINE g == groups[i]
             l == SetToSeq(g.members)
  <2>1. g \in Parties /\ IsFiniteSet(g.members) /\ g.members \subseteq Players /\ g.leader \in Players
    BY <1>1, PartyIs
  <2>2. l \in Seq(g.members) /\ Len(l) = Cardinality(g.members)
    BY <2>1, ListIs
  <2>3. l \in Seq(Players)
    BY <2>1, <2>2, SeqMonotonic
  <2>4. q[i] = Append(l, g.leader) /\ Sizes(groups)[i] = Cardinality(g.members) + 1
    BY <1>1 DEF Sizes, Size
  <2> HIDE DEF g, l, q
  <2>5. Append(l, g.leader) \in Seq(Players) /\ Len(Append(l, g.leader)) = Len(l) + 1
    BY <2>1, <2>3
  <2> QED
    BY <2>2, <2>4, <2>5
<1>3. q \in [1 .. n -> Seq(Players)]
  BY <1>1, <1>2
<1>4. q \in Seq(Seq(Players)) /\ Len(q) = n
  <2> HIDE DEF q, n
  <2> QED
    BY <1>1, <1>3, FunctionIsSeq
<1>5. PlayersSeq(groups) = FlattenSeq(q)
  BY DEF PlayersSeq
<1>6. Total(groups) = SumOf(Sizes(groups), 1 .. n)
  BY TotalIs
<1> HIDE DEF q, n
<1>7. CASE n = 0
  <2>1. q = <<>> /\ FlattenSeq(q) = q
    BY <1>4, <1>7 DEF FlattenSeq
  <2>2. 1 .. n = {}
    BY <1>7
  <2>3. Total(groups) = 0
    BY <1>6, <2>2, SumOfNone
  <2>4. <<>> \in Seq(Players) /\ Len(<<>>) = 0
    BY EmptySeq
  <2> QED
    BY <1>5, <2>1, <2>3, <2>4
<1>8. CASE n # 0
  <2>1. PICK f : IsFlat(f, q, n) /\ FlattenSeq(q) = f[n]
    <3>1. \E f : IsFlat(f, q, n)
      BY <1>1, FlatExists
    <3> QED
      BY <1>4, <1>8, <3>1 DEF FlattenSeq, IsFlat
  <2> DEFINE S(k) == SumOf(Sizes(groups), 1 .. k)
             Good(k) == f[k] \in Seq(Players) /\ Len(f[k]) = S(k)
             T == {k \in Nat : k + 1 <= n => Good(k + 1)}
  <2>s. ASSUME NEW k \in Nat, k + 1 <= n PROVE S(k) \in Int /\ S(k + 1) = S(k) + Sizes(groups)[k + 1]
    <3>0. IsFiniteSet(1 .. k)
      BY FS_Interval
    <3>1. /\ k + 1 \notin 1 .. k /\ 1 .. (k + 1) = (1 .. k) \cup {k + 1}
          /\ \A i \in (1 .. k) \cup {k + 1} : i \in 1 .. n
      BY <1>1, <2>s
    <3>2. \A i \in (1 .. k) \cup {k + 1} : Sizes(groups)[i] \in Int
      BY <1>1, <3>1
    <3>3. SumOf(Sizes(groups), 1 .. k) \in Int /\ SumOf(Sizes(groups), (1 .. k) \cup {k + 1})
          = SumOf(Sizes(groups), 1 .. k) + Sizes(groups)[k + 1]
      BY <3>0, <3>1, <3>2, SumOfAdded
    <3> QED
      BY <3>1, <3>3
  <2>2. 0 \in T
    <3>1. f[1] = q[1] /\ 1 \in 1 .. n /\ 0 + 1 = 1 /\ 1 <= n
      BY <1>1, <1>8, <2>1 DEF IsFlat
    <3>2. S(0) = 0
      <4>1. 1 .. 0 = {}
        OBVIOUS
      <4> QED
        BY <4>1, SumOfNone
    <3> HIDE DEF S
    <3>3. S(1) = S(0) + Sizes(groups)[1]
      BY <2>s, <3>1
    <3>4. Sizes(groups)[1] \in Nat
      BY <1>1, <3>1
    <3>5. Good(1)
      BY <1>2, <3>1, <3>2, <3>3, <3>4
    <3> QED
      BY <3>1, <3>5
  <2>3. ASSUME NEW k \in Nat, k \in T PROVE k + 1 \in T
    <3> SUFFICES ASSUME (k + 1) + 1 <= n PROVE Good((k + 1) + 1)
      OBVIOUS
    <3> DEFINE a == k + 1
               b == (k + 1) + 1
    <3>1. a \in Nat /\ a + 1 = b /\ a <= n /\ b \in 1 .. n /\ b - 1 = a /\ b # 1 /\ b <= n
      BY <1>1
    <3>2. Good(a)
      BY <2>3, <3>1
    <3> HIDE DEF a, b, S
    <3>3. f[b] = f[a] \o q[b]
      BY <2>1, <3>1 DEF IsFlat
    <3>4. S(b) = S(a) + Sizes(groups)[b] /\ S(a) \in Int
      BY <2>s, <3>1
    <3>5. q[b] \in Seq(Players) /\ Len(q[b]) = Sizes(groups)[b]
      BY <1>2, <3>1
    <3>6. f[a] \o q[b] \in Seq(Players) /\ Len(f[a] \o q[b]) = Len(f[a]) + Len(q[b])
      BY <3>2, <3>5, ConcatProperties
    <3>7. Good(b)
      BY <3>2, <3>3, <3>4, <3>5, <3>6
    <3> QED
      BY <3>7 DEF b
  <2>4. Nat \subseteq T
    <3> HIDE DEF T
    <3> QED
      BY <2>2, <2>3, InductionOnNat
  <2>5. Good(n)
    <3>1. n - 1 \in Nat /\ (n - 1) + 1 = n /\ n <= n
      BY <1>1, <1>8
    <3>2. n - 1 \in T
      BY <2>4, <3>1, Zenon
    <3>3. (n - 1) + 1 <= n => Good((n - 1) + 1)
      BY <3>2
    <3> HIDE DEF Good
    <3> QED
      BY <3>1, <3>3
  <2> QED
    BY <1>5, <1>6, <2>1, <2>5
<1> QED
  BY <1>7, <1>8

-----------------------------------------------------------------------------
(* The search for the best groups.                                         *)

Bests == [groups : Seq(Parties), total : Nat, diff : Nat]

\* The best choice so far: of groups from S, none or within the limits.
BestOK(b, S, min, max) ==
  b \in Bests /\ b.groups \in Seq(S) /\ (b.groups = <<>> \/ Total(b.groups) \in min .. max)

SearchOK(s, S, min, max) == s \in Searches /\ s.current \in Seq(S) /\ BestOK(s.best, S, min, max)

LEMMA BetterIsOK ==
  ASSUME NEW S, NEW min, NEW max, NEW s, SearchOK(s, S, min, max)
  PROVE  BestOK(Better(s, min, max), S, min, max)
<1> DEFINE total == Total(s.current)
           b == [groups |-> s.current, total |-> total, diff |-> s.diff]
<1>1. s.current \in Seq(Parties) /\ s.current \in Seq(S) /\ s.diff \in Nat /\ BestOK(s.best, S, min, max)
  BY DEF SearchOK, Searches
<1>2. total \in Nat
  BY <1>1, TotalIs
<1>3. CASE total \in min .. max
  <2>1. b \in Bests /\ b.groups = s.current
    BY <1>1, <1>2 DEF Bests
  <2>2. BestOK(b, S, min, max)
    BY <1>1, <1>3, <2>1 DEF BestOK
  <2> QED
    BY <1>1, <2>2 DEF Better
<1>4. CASE total \notin min .. max
  BY <1>1, <1>4 DEF Better, Fits
<1> QED
  BY <1>3, <1>4

LEMMA WithAndWithoutIsOK ==
  ASSUME NEW S, S \subseteq Parties, NEW min, NEW max \in Nat, NEW s, SearchOK(s, S, min, max),
         NEW g \in S, NEW rest, \A x : SearchOK(x, S, min, max) => BestOK(rest[x], S, min, max)
  PROVE  BestOK(WithAndWithout(rest, g, s, max), S, min, max)
<1>1. /\ s = [current |-> s.current, diff |-> s.diff, best |-> s.best]
      /\ s.current \in Seq(Parties) /\ s.current \in Seq(S) /\ s.diff \in Nat /\ s.best \in Bests
      /\ BestOK(s.best, S, min, max)
  BY DEF SearchOK, Searches, Bests
<1> DEFINE with == Abs(Total(s.current) + Size(g) - max)
           x == [current |-> Append(s.current, g), diff |-> with, best |-> s.best]
           after == IF with <= s.best.diff THEN rest[x] ELSE s.best
           y == [s EXCEPT !.best = after]
<1>2. with \in Nat
  <2>1. Total(s.current) \in Nat /\ Size(g) \in Nat
    BY <1>1, TotalIs, PartyIs
  <2> QED
    BY <2>1 DEF Abs
<1> HIDE DEF with
<1>3. SearchOK(x, S, min, max)
  <2>1. Append(s.current, g) \in Seq(S) /\ Append(s.current, g) \in Seq(Parties)
    BY <1>1
  <2>2. x \in Searches /\ x.current = Append(s.current, g) /\ x.best = s.best
    BY <1>1, <1>2, <2>1 DEF Searches, Bests
  <2> QED
    BY <1>1, <2>1, <2>2 DEF SearchOK
<1> HIDE DEF x
<1>4. BestOK(after, S, min, max)
  BY <1>1, <1>3
<1> HIDE DEF after
<1>5. SearchOK(y, S, min, max)
  <2>1. y = [current |-> s.current, diff |-> s.diff, best |-> after] /\ after \in Bests
    BY <1>1, <1>4 DEF BestOK
  <2>2. y \in Searches /\ y.current = s.current /\ y.best = after
    BY <1>1, <2>1 DEF Searches, Bests
  <2> QED
    BY <1>1, <1>4, <2>2 DEF SearchOK
<1>6. WithAndWithout(rest, g, s, max) = rest[y]
  BY DEF WithAndWithout, with, x, after
<1> HIDE DEF y
<1> QED
  BY <1>5, <1>6

\* findBestGroups finds nothing or groups of the given ones that fit.
LEMMA BestGroupsFit ==
  ASSUME NEW S, S \subseteq Parties, NEW groups \in Seq(S), NEW min, NEW max \in Nat
  PROVE  /\ FindBestGroups(groups, min, max) \in Seq(S)
         /\ FindBestGroups(groups, min, max) = <<>> \/ Total(FindBestGroups(groups, min, max)) \in min .. max
<1> DEFINE N == Len(groups)
<1>1. N \in Nat /\ \A k \in 1 .. N : groups[k] \in S
  OBVIOUS
<1>2. PICK h : IsSearch(h, groups, N, min, max, N) /\ Backtrack(groups, min, max) = h[N]
  <2>1. \E h : IsSearch(h, groups, N, min, max, N)
    BY <1>1, SearchExists
  <2> QED
    BY <2>1 DEF Backtrack, IsSearch
<1> HIDE DEF N
<1> DEFINE Good(f) == \A s : SearchOK(s, S, min, max) => BestOK(f[s], S, min, max)
           T == {k \in Nat : k <= N => Good(h[k])}
<1>3. 0 \in T
  <2>1. h[0] = [s \in Searches |-> Better(s, min, max)]
    BY <1>1, <1>2 DEF IsSearch
  <2>2. \A s : SearchOK(s, S, min, max) => h[0][s] = Better(s, min, max)
    BY <2>1 DEF SearchOK
  <2> QED
    BY <2>2, BetterIsOK
<1>4. ASSUME NEW k \in Nat, k \in T PROVE k + 1 \in T
  <2> SUFFICES ASSUME k + 1 <= N PROVE Good(h[k + 1])
    OBVIOUS
  <2>1. Good(h[k])
    BY <1>1, <1>4
  <2> DEFINE g == groups[N - (k + 1) + 1]
  <2>2. g \in S /\ h[k + 1] = [s \in Searches |-> WithAndWithout(h[k], g, s, max)]
    <3>1. k + 1 \in 0 .. N /\ k + 1 # 0 /\ (k + 1) - 1 = k /\ N - (k + 1) + 1 \in 1 .. N
      BY <1>1
    <3> QED
      BY <1>1, <1>2, <3>1 DEF IsSearch
  <2> HIDE DEF g
  <2>3. \A s : SearchOK(s, S, min, max) => h[k + 1][s] = WithAndWithout(h[k], g, s, max)
    BY <2>2 DEF SearchOK
  <2> QED
    BY <2>1, <2>2, <2>3, WithAndWithoutIsOK
<1>5. Nat \subseteq T
  <2> HIDE DEF T
  <2> QED
    BY <1>3, <1>4, InductionOnNat
<1>6. Good(h[N])
  <2>1. N \in T /\ N <= N
    BY <1>1, <1>5
  <2> HIDE DEF Good
  <2> QED
    BY <2>1
<1> DEFINE b == [groups |-> <<>>, total |-> 0, diff |-> max]
           s == [current |-> <<>>, diff |-> max, best |-> b]
<1>7. SearchOK(s, S, min, max)
  <2>1. <<>> \in Seq(S) /\ <<>> \in Seq(Parties)
    BY EmptySeq
  <2>2. b \in Bests /\ b.groups = <<>>
    BY <2>1 DEF Bests
  <2> HIDE DEF b
  <2>3. s \in Searches /\ s.current = <<>> /\ s.best = b
    BY <2>1, <2>2 DEF Searches, Bests
  <2> QED
    BY <2>1, <2>2, <2>3 DEF SearchOK, BestOK
<1>8. FindBestGroups(groups, min, max) = h[N][s].groups
  BY <1>2 DEF FindBestGroups
<1> HIDE DEF s
<1>9. BestOK(h[N][s], S, min, max)
  BY <1>6, <1>7
<1> QED
  BY <1>8, <1>9 DEF BestOK

\* balancedGroups lowers the maximum, never below what the other team has.
LEMMA BalancedFit ==
  ASSUME NEW S, S \subseteq Parties, NEW a \in Seq(S), NEW h \in Seq(S)
  PROVE  LET teams == Balanced(a, h, MinPlayers, MaxPlayers)
         IN  /\ teams.alliance \in Seq(S) /\ teams.horde \in Seq(S)
             /\ teams.alliance # <<>> /\ teams.horde # <<>> =>
                  Total(teams.alliance) \in MinPlayers .. MaxPlayers /\ Total(teams.horde) \in MinPlayers .. MaxPlayers
<1> DEFINE teams == Balanced(a, h, MinPlayers, MaxPlayers)
           A == FindBestGroups(a, MinPlayers, MaxPlayers)
           H == FindBestGroups(h, MinPlayers, MaxPlayers)
           A1 == FindBestGroups(a, MinPlayers, Total(H) + 1)
           H1 == FindBestGroups(h, MinPlayers, Total(A) + 1)
<1>0. MinPlayers \in Nat /\ MinPlayers > 0 /\ MaxPlayers \in Nat
  BY MatchmakingAssumption
<1>1. /\ A \in Seq(S) /\ (A = <<>> \/ Total(A) \in MinPlayers .. MaxPlayers)
      /\ H \in Seq(S) /\ (H = <<>> \/ Total(H) \in MinPlayers .. MaxPlayers)
  BY <1>0, BestGroupsFit
<1> HIDE DEF A, H
<1>2. Total(A) \in Nat /\ Total(H) \in Nat
  BY <1>1, SeqMonotonic, TotalIs
<1>3. /\ A1 \in Seq(S) /\ (A1 = <<>> \/ Total(A1) \in MinPlayers .. (Total(H) + 1))
      /\ H1 \in Seq(S) /\ (H1 = <<>> \/ Total(H1) \in MinPlayers .. (Total(A) + 1))
  <2>1. Total(H) + 1 \in Nat /\ Total(A) + 1 \in Nat
    BY <1>2
  <2> QED
    BY <2>1, BestGroupsFit
<1>4. /\ teams.alliance = IF Total(A) - Total(H) > 1 THEN A1 ELSE A
      /\ teams.horde = IF Total(H) - Total(A) > 1 THEN H1 ELSE H
  BY DEF Balanced, A, H
<1> HIDE DEF teams, A1, H1
<1>5. (A = <<>> => Total(A) = 0) /\ (H = <<>> => Total(H) = 0)
  BY NoPlayers
<1>6. teams.alliance \in Seq(S) /\ teams.horde \in Seq(S)
  BY <1>1, <1>3, <1>4
<1>7. ASSUME teams.alliance # <<>>, teams.horde # <<>>
      PROVE  Total(teams.alliance) \in MinPlayers .. MaxPlayers /\ Total(teams.horde) \in MinPlayers .. MaxPlayers
  <2>1. CASE Total(A) - Total(H) > 1
    <3>1. teams.alliance = A1 /\ teams.horde = H
      BY <1>2, <1>4, <2>1
    <3>2. A # <<>> /\ Total(H) + 1 <= MaxPlayers
      BY <1>0, <1>1, <1>2, <1>5, <2>1
    <3> QED
      BY <1>0, <1>1, <1>2, <1>3, <1>7, <3>1, <3>2
  <2>2. CASE Total(H) - Total(A) > 1
    <3>1. teams.alliance = A /\ teams.horde = H1
      BY <1>2, <1>4, <2>2
    <3>2. H # <<>> /\ Total(A) + 1 <= MaxPlayers
      BY <1>0, <1>1, <1>2, <1>5, <2>2
    <3> QED
      BY <1>0, <1>1, <1>2, <1>3, <1>7, <3>1, <3>2
  <2>3. CASE ~(Total(A) - Total(H) > 1) /\ ~(Total(H) - Total(A) > 1)
    BY <1>1, <1>4, <1>7, <2>3
  <2> QED
    BY <2>1, <2>2, <2>3
<1> QED
  BY <1>6, <1>7 DEF teams

-----------------------------------------------------------------------------
(* Leaving the queue and the battlegrounds.                                *)

In(q) == UNION {PlayersOf(g) : g \in q}

IsState(st) == st = [queued |-> st.queued, leaderOf |-> st.leaderOf, links |-> st.links, bgs |-> st.bgs]

\* x is st after players have left: with fewer groups queued, and without the
\* links of their players to the queue.
Reduced(st, x) ==
  /\ IsState(x) /\ x.queued \subseteq st.queued /\ DOMAIN x.bgs = DOMAIN st.bgs
  /\ x.links \in [Players -> Seq(Nat)]
  /\ LinksOK(st.links) => /\ LinksOK(x.links)
                          /\ Linked(x.links) = Linked(st.links) \ In(st.queued \ x.queued)

LEMMA ReducedTwice ==
  ASSUME NEW st, NEW x, NEW y, Reduced(st, x), Reduced(x, y)
  PROVE  Reduced(st, y)
<1>1. y.queued \subseteq x.queued /\ x.queued \subseteq st.queued
  BY DEF Reduced
<1>2. In(st.queued \ y.queued) = In(st.queued \ x.queued) \cup In(x.queued \ y.queued)
  BY <1>1 DEF In
<1> QED
  BY <1>2 DEF Reduced

LEMMA LeaveReduces ==
  ASSUME NEW st, IsState(st), st.links \in [Players -> Seq(Nat)], NEW link, NEW p
  PROVE  Reduced(st, Leaves(st, link, p))
<1>1. CASE link = QueueLink
  <2> DEFINE out == {g \in st.queued : p \in DOMAIN st.leaderOf /\ g.leader = st.leaderOf[p]}
             ls == LinkRemoved(st.links, UNION {PlayersOf(g) : g \in out}, QueueLink)
             x == LeaveQueue(st, p)
             lo == [q \in DOMAIN st.leaderOf \ UNION {g.members : g \in out} |-> st.leaderOf[q]]
  <2>0. x = [st EXCEPT !.links = ls, !.queued = st.queued \ out, !.leaderOf = lo]
    <3>1. x = [st EXCEPT !.links = LinkRemoved(st.links, UNION {PlayersOf(g) : g \in out}, QueueLink),
                         !.queued = st.queued \ out, !.leaderOf = lo]
      BY DEF LeaveQueue
    <3> QED
      BY <3>1
  <2>1. IsState(x) /\ x.queued = st.queued \ out /\ x.bgs = st.bgs /\ x.links = ls
    <3> HIDE DEF ls, out, x, lo
    <3> QED
      BY <2>0 DEF IsState
  <2>2. st.queued \ x.queued = out
    BY <2>1
  <2> HIDE DEF out
  <2>3. ls \in [Players -> Seq(Nat)]
    BY LinksStayLists
  <2>4. LinksOK(st.links) => LinksOK(ls) /\ Linked(ls) = Linked(st.links) \ In(out)
    BY RemovedLinks DEF In
  <2>5. Reduced(st, x)
    <3> HIDE DEF ls, x
    <3> QED
      BY <2>1, <2>2, <2>3, <2>4 DEF Reduced
  <2> QED
    BY <1>1, <2>5 DEF Leaves
<1>2. CASE link # QueueLink
  <2> DEFINE x == LeaveBattleground(st, link, p)
  <2>1. st.queued \ st.queued = {} /\ In({}) = {}
    BY DEF In
  <2>2. Reduced(st, st)
    BY <2>1 DEF Reduced
  <2>3. CASE link \in DOMAIN st.bgs /\ st.bgs[link].listed
    <3> DEFINE ls == LinkRemoved(st.links, {p}, link)
    <3>1. IsState(x) /\ x.queued = st.queued /\ DOMAIN x.bgs = DOMAIN st.bgs /\ x.links = ls
      BY <2>3 DEF LeaveBattleground, IsState
    <3>2. ls \in [Players -> Seq(Nat)]
      BY LinksStayLists
    <3>3. LinksOK(st.links) => LinksOK(ls) /\ Linked(ls) = Linked(st.links)
      BY <1>2, RemovedLinks
    <3> HIDE DEF ls, x
    <3>4. Reduced(st, x)
      BY <2>1, <3>1, <3>2, <3>3 DEF Reduced
    <3> QED
      BY <1>2, <3>4 DEF Leaves, x
  <2>4. CASE ~(link \in DOMAIN st.bgs /\ st.bgs[link].listed)
    <3>1. x = st
      BY <2>4 DEF LeaveBattleground
    <3> QED
      BY <1>2, <2>2, <3>1 DEF Leaves
  <2> QED
    BY <2>3, <2>4
<1> QED
  BY <1>1, <1>2

LEMMA LeavesAllReduces ==
  ASSUME NEW st, IsState(st), st.links \in [Players -> Seq(Nat)], NEW p \in Players
  PROVE  Reduced(st, LeavesAll(st, p))
<1> DEFINE N == Len(st.links[p])
<1>1. N \in Nat
  OBVIOUS
<1>2. PICK h : IsLeaves(h, st, p, N) /\ LeavesAll(st, p) = h[N]
  <2>1. \E h : IsLeaves(h, st, p, N)
    BY <1>1, LeavesExists
  <2> QED
    BY <2>1 DEF LeavesAll, IsLeaves
<1> HIDE DEF N
<1> DEFINE T == {k \in Nat : k <= N => Reduced(st, h[k])}
<1>3. 0 \in T
  <2>1. h[0] = st
    BY <1>1, <1>2 DEF IsLeaves
  <2>2. st.queued \ st.queued = {} /\ In({}) = {}
    BY DEF In
  <2>3. Reduced(st, st)
    BY <2>2 DEF Reduced
  <2> QED
    BY <2>1, <2>3
<1>4. ASSUME NEW k \in Nat, k \in T PROVE k + 1 \in T
  <2> SUFFICES ASSUME k + 1 <= N PROVE Reduced(st, h[k + 1])
    OBVIOUS
  <2>1. Reduced(st, h[k])
    BY <1>1, <1>4
  <2>2. h[k + 1] = Leaves(h[k], st.links[p][k + 1], p)
    <3>1. k + 1 \in 0 .. N /\ k + 1 # 0 /\ (k + 1) - 1 = k
      BY <1>1
    <3> QED
      BY <1>2, <3>1 DEF IsLeaves
  <2>3. IsState(h[k]) /\ h[k].links \in [Players -> Seq(Nat)]
    BY <2>1 DEF Reduced
  <2>4. Reduced(h[k], h[k + 1])
    BY <2>2, <2>3, LeaveReduces
  <2> QED
    BY <2>1, <2>4, ReducedTwice
<1>5. Nat \subseteq T
  <2> HIDE DEF T
  <2> QED
    BY <1>3, <1>4, InductionOnNat
<1>6. N \in T /\ N <= N
  BY <1>1, <1>5
<1> QED
  BY <1>2, <1>6

-----------------------------------------------------------------------------
(* The shape of the state, for any number of requests.                     *)

HasOwner(o) == "group" \in DOMAIN o /\ o.group \in Parties
HasRest(o) == "copies" \in DOMAIN o /\ DOMAIN o.copies \subseteq Nat \ {0}
HasPlace(o) == {"at", "team"} \subseteq DOMAIN o /\ o.at \in Nat \ {0}
HasGroups(o) == "groups" \in DOMAIN o /\ o.groups \in Seq(Parties)
Filling(o) == HasOwner(o) /\ HasRest(o) /\ HasPlace(o)

TeamFits(groups) == groups \in Seq(Parties) /\ Total(groups) \in MinPlayers .. MaxPlayers

OpOK(o) ==
  /\ "kind" \in DOMAIN o
  /\ o.kind \in {"link", "enqueue", "read"} => HasOwner(o)
  /\ o.kind = "next" => HasOwner(o) /\ HasRest(o)
  /\ o.kind = "pick" => Filling(o)
  /\ o.kind = "save" => Filling(o) /\ HasGroups(o)
  /\ o.kind \in {"relink", "dequeue"} => HasPlace(o) /\ HasGroups(o) /\ (o.team # "both" => Filling(o))
  /\ o.kind = "start" => HasOwner(o) /\ TeamFits(o.teams.alliance) /\ TeamFits(o.teams.horde)

OpsOK(f) == f = [c \in Procs |-> f[c]] /\ \A c \in Procs : OpOK(f[c])

Shape ==
  /\ queued \subseteq Parties /\ links \in [Players -> Seq(Nat)]
  /\ lastBg \in Nat /\ DOMAIN bgs \subseteq 1 .. lastBg
  /\ OpsOK(op)
  /\ expiring = <<>> \/ expiring \in Instances \X Players

LEMMA IdleIsOK == OpOK(Idle)
BY DEF OpOK, Idle

LEMMA NextTeamIsOK ==
  ASSUME NEW o, Filling(o)
  PROVE  OpOK(NextTeam(o))
<1>1. CASE o.team = "alliance"
  <2> DEFINE n == NextTeam(o)
  <2>1. /\ "kind" \in DOMAIN n /\ "group" \in DOMAIN n /\ "copies" \in DOMAIN n /\ {"at", "team"} \subseteq DOMAIN n
        /\ n.kind = "pick" /\ n.group = o.group /\ n.copies = o.copies /\ n.at = o.at
    BY <1>1 DEF NextTeam
  <2> HIDE DEF n
  <2>2. OpOK(n)
    BY <2>1 DEF Filling, HasOwner, HasRest, HasPlace, OpOK
  <2> QED
    BY <2>2 DEF n
<1>2. CASE o.team # "alliance"
  <2> DEFINE n == NextTeam(o)
  <2>1. /\ "kind" \in DOMAIN n /\ "group" \in DOMAIN n /\ "copies" \in DOMAIN n
        /\ n.kind = "next" /\ n.group = o.group /\ n.copies = o.copies
    BY <1>2 DEF NextTeam
  <2> HIDE DEF n
  <2>2. OpOK(n)
    BY <2>1 DEF Filling, HasOwner, HasRest, HasPlace, OpOK
  <2> QED
    BY <2>2 DEF n
<1> QED
  BY <1>1, <1>2

LEMMA OpsContinue ==
  ASSUME NEW f, OpsOK(f), NEW c \in Procs, NEW next, OpOK(next)
  PROVE  OpsOK([f EXCEPT ![c] = next])
BY DEF OpsOK

\* No battleground is created.
Goes == Shape' /\ DOMAIN bgs' = DOMAIN bgs

LEMMA ShapeGoes ==
  ASSUME Shape, NEW c \in Procs, NEW next, OpOK(next), Continue(c, next),
         UNCHANGED <<bgs, lastBg, expiring>>,
         queued' \subseteq Parties, links' \in [Players -> Seq(Nat)]
  PROVE  Goes
<1>1. OpsOK(op')
  BY OpsContinue DEF Continue, Shape
<1> QED
  BY <1>1 DEF Goes, Shape

LEMMA EnqueueGoes ==
  ASSUME Shape, NEW c \in Procs, NEW g \in Parties, Enqueue(c, g) PROVE Goes
<1>1. OpOK([kind |-> "link", group |-> g])
  BY DEF OpOK, HasOwner
<1> QED
  BY <1>1, ShapeGoes DEF Enqueue, Shape, queueVars

LEMMA AddLinksGoes ==
  ASSUME Shape, NEW c \in Procs, AddLinks(c) PROVE Goes
<1> DEFINE o == op[c]
           n == [o EXCEPT !.kind = "enqueue"]
<1>1. OpOK(o) /\ o.kind = "link"
  BY DEF AddLinks, At, Shape, OpsOK
<1>2. OpOK(n)
  BY <1>1 DEF OpOK, HasOwner
<1>3. links' \in [Players -> Seq(Nat)]
  BY LinksStayLists DEF AddLinks, Shape, QueueLink
<1> QED
  BY <1>2, <1>3, ShapeGoes DEF AddLinks, At, Shape, queueVars

LEMMA AddQueuedGroupGoes ==
  ASSUME Shape, NEW c \in Procs, AddQueuedGroup(c) PROVE Goes
<1> DEFINE o == op[c]
           n == [o EXCEPT !.kind = "read"]
<1>1. OpOK(o) /\ o.kind = "enqueue"
  BY DEF AddQueuedGroup, At, Shape, OpsOK
<1>2. OpOK(n) /\ o.group \in Parties
  BY <1>1 DEF OpOK, HasOwner
<1>3. queued' \subseteq Parties
  BY <1>2 DEF AddQueuedGroup, Shape
<1> QED
  BY <1>2, <1>3, ShapeGoes DEF AddQueuedGroup, At, Shape

LEMMA ReadBattlegroundsGoes ==
  ASSUME Shape, NEW c \in Procs, ReadBattlegrounds(c) PROVE Goes
<1> DEFINE o == op[c]
           open == {i \in Listed : \E t \in Teams : FreeSlots(bgs[i], t) > 0}
           copies == [i \in open |-> bgs[i]]
           n == [kind |-> "next", group |-> o.group, copies |-> copies]
<1>1. OpOK(o) /\ o.kind = "read"
  BY DEF ReadBattlegrounds, At, Shape, OpsOK
<1>2. o.group \in Parties
  BY <1>1 DEF OpOK, HasOwner
<1>3. open \subseteq Nat \ {0}
  BY DEF Listed, Shape
<1>4. Continue(c, n)
  BY DEF ReadBattlegrounds
<1> HIDE DEF open
<1>5. DOMAIN copies \subseteq Nat \ {0}
  BY <1>3
<1> HIDE DEF copies
<1>6. OpOK(n)
  BY <1>2, <1>5 DEF OpOK, HasOwner, HasRest
<1> HIDE DEF n
<1> QED
  BY <1>4, <1>6, ShapeGoes DEF ReadBattlegrounds, At, Shape, queueVars

LEMMA NextBattlegroundGoes ==
  ASSUME Shape, NEW c \in Procs, NextBattleground(c) PROVE Goes
<1> DEFINE o == op[c]
<1>1. OpOK(o) /\ o.kind = "next"
  BY DEF NextBattleground, At, Shape, OpsOK
<1>2. o.group \in Parties /\ DOMAIN o.copies \subseteq Nat \ {0}
  BY <1>1 DEF OpOK, HasOwner, HasRest
<1>3. PICK i \in DOMAIN o.copies :
        Continue(c, [kind |-> "pick", group |-> o.group, at |-> i, team |-> "alliance", saved |-> FALSE,
                     copy |-> o.copies[i], copies |-> [j \in DOMAIN o.copies \ {i} |-> o.copies[j]]])
  BY DEF NextBattleground
<1> DEFINE rest == [j \in DOMAIN o.copies \ {i} |-> o.copies[j]]
           n == [kind |-> "pick", group |-> o.group, at |-> i, team |-> "alliance", saved |-> FALSE,
                 copy |-> o.copies[i], copies |-> rest]
<1>4. DOMAIN rest \subseteq Nat \ {0} /\ i \in Nat \ {0}
  BY <1>2
<1>5. Continue(c, n)
  BY <1>3
<1> HIDE DEF rest
<1>6. OpOK(n)
  BY <1>2, <1>4 DEF OpOK, Filling, HasOwner, HasRest, HasPlace
<1> HIDE DEF n
<1> QED
  BY <1>5, <1>6, ShapeGoes DEF NextBattleground, At, Shape, queueVars

LEMMA QueuedOrder ==
  ASSUME queued \subseteq Parties, NEW s \in SUBSET queued, NEW order \in SetToSeqs(s)
  PROVE  order \in Seq(queued) /\ order \in Seq(Parties)
<1>1. IsFiniteSet(s)
  BY MatchmakingAssumption, FS_Subset
<1>2. order \in Seq(s)
  BY <1>1, OrderIs
<1> QED
  BY <1>2, SeqMonotonic

LEMMA PickGroupsGoes ==
  ASSUME Shape, NEW c \in Procs, PickGroups(c)
  PROVE  /\ Goes
         /\ \/ op' = [op EXCEPT ![c] = NextTeam(op[c])]
            \/ \E groups \in Seq(queued) :
                 op' = [op EXCEPT ![c] = [kind |-> "save", group |-> op[c].group, at |-> op[c].at, team |-> op[c].team,
                                          saved |-> op[c].saved, copy |-> op[c].copy, copies |-> op[c].copies,
                                          groups |-> groups]]
<1> DEFINE o == op[c]
<1>1. OpOK(o) /\ o.kind = "pick"
  BY DEF PickGroups, At, Shape, OpsOK
<1>2. Filling(o)
  BY <1>1 DEF OpOK
<1>3. PICK order \in SetToSeqs(queued) :
        LET groups == GroupsForSlots(order, FreeSlots(Object(o), o.team), o.team)
        IN  Continue(c, IF groups = <<>> THEN NextTeam(o)
                        ELSE [kind |-> "save", group |-> o.group, at |-> o.at, team |-> o.team, saved |-> o.saved,
                              copy |-> o.copy, copies |-> o.copies, groups |-> groups])
  BY DEF PickGroups
<1> DEFINE groups == GroupsForSlots(order, FreeSlots(Object(o), o.team), o.team)
           n == [kind |-> "save", group |-> o.group, at |-> o.at, team |-> o.team, saved |-> o.saved,
                 copy |-> o.copy, copies |-> o.copies, groups |-> groups]
<1>4. groups \in Seq(queued) /\ groups \in Seq(Parties)
  <2>1. queued \subseteq Parties
    BY DEF Shape
  <2>2. order \in Seq(queued) /\ order \in Seq(Parties)
    BY <2>1, QueuedOrder
  <2> QED
    BY <2>2, ChoiceIs
<1>5. Continue(c, IF groups = <<>> THEN NextTeam(o) ELSE n)
  BY <1>3
<1> HIDE DEF groups
<1>6. OpOK(n)
  BY <1>2, <1>4 DEF OpOK, Filling, HasOwner, HasRest, HasPlace, HasGroups
<1>7. OpOK(NextTeam(o))
  BY <1>2, NextTeamIsOK
<1>8. UNCHANGED <<bgs, lastBg, expiring, queued, links>>
  BY DEF PickGroups, At, queueVars
<1>9. CASE groups = <<>>
  <2>1. Continue(c, NextTeam(o))
    BY <1>5, <1>9
  <2> HIDE DEF n, o
  <2>2. Goes
    BY <1>7, <1>8, <2>1, ShapeGoes DEF Shape
  <2> QED
    BY <2>1, <2>2 DEF Continue, o
<1>10. CASE groups # <<>>
  <2>1. Continue(c, n)
    BY <1>5, <1>10
  <2>2. Goes
    <3> HIDE DEF n
    <3> QED
      BY <1>6, <1>8, <2>1, ShapeGoes DEF Shape
  <2> QED
    BY <1>4, <2>1, <2>2 DEF Continue
<1> QED
  BY <1>9, <1>10

LEMMA SaveInvitesGoes ==
  ASSUME Shape, NEW c \in Procs, SaveInvites(c) PROVE Goes
<1> DEFINE o == op[c]
           n == [o EXCEPT !.kind = "relink", !.saved = TRUE]
<1>1. OpOK(o) /\ o.kind = "save"
  BY DEF SaveInvites, At, Shape, OpsOK
<1>2. OpOK(n)
  BY <1>1 DEF OpOK, Filling, HasOwner, HasRest, HasPlace, HasGroups
<1>3. Continue(c, n) /\ UNCHANGED <<lastBg, expiring, queued, links>> /\ DOMAIN bgs' = DOMAIN bgs
  BY DEF SaveInvites, At, queueVars
<1> HIDE DEF n
<1>4. OpsOK(op')
  BY <1>2, <1>3, OpsContinue DEF Continue, Shape
<1> QED
  BY <1>3, <1>4 DEF Goes, Shape

LEMMA InviteFailsGoes ==
  ASSUME Shape, NEW c \in Procs, InviteFails(c) PROVE Goes
<1> DEFINE o == op[c]
           bg == Invited(Object(o), o.groups, o.team)
           x == [o EXCEPT !.copy = bg]
<1>1. OpOK(o) /\ o.kind = "save"
  BY DEF InviteFails, At, Shape, OpsOK
<1>2. Continue(c, NextTeam(x)) /\ UNCHANGED <<lastBg, expiring, queued, links>> /\ DOMAIN bgs' = DOMAIN bgs
  BY DEF InviteFails, At, queueVars
<1> HIDE DEF bg
<1>3. Filling(x)
  BY <1>1 DEF OpOK, Filling, HasOwner, HasRest, HasPlace, HasGroups
<1> HIDE DEF x
<1>4. OpOK(NextTeam(x))
  BY <1>3, NextTeamIsOK
<1>5. OpsOK(op')
  BY <1>2, <1>4, OpsContinue DEF Continue, Shape
<1> QED
  BY <1>2, <1>5 DEF Goes, Shape

LEMMA RelinkGoes ==
  ASSUME Shape, NEW c \in Procs, Relink(c) PROVE Goes
<1> DEFINE o == op[c]
           n == [o EXCEPT !.kind = "dequeue"]
<1>1. OpOK(o) /\ o.kind = "relink"
  BY DEF Relink, At, Shape, OpsOK
<1>2. OpOK(n) /\ o.at \in Nat
  BY <1>1 DEF OpOK, Filling, HasOwner, HasRest, HasPlace, HasGroups
<1>3. links' \in [Players -> Seq(Nat)]
  <2>1. LinkRemoved(links, PlayersIn(o.groups), QueueLink) \in [Players -> Seq(Nat)]
    BY LinksStayLists DEF Shape
  <2> QED
    BY <1>2, <2>1, LinksStayLists DEF Relink, Relinked
<1>4. Continue(c, n) /\ UNCHANGED <<bgs, lastBg, expiring, queued>>
  BY DEF Relink, At, queueVars
<1> HIDE DEF n
<1> QED
  BY <1>2, <1>3, <1>4, ShapeGoes DEF Shape

LEMMA DequeueGoes ==
  ASSUME Shape, NEW c \in Procs, Dequeue(c) PROVE Goes
<1> DEFINE o == op[c]
           n == IF o.team = "both" THEN Idle ELSE NextTeam(o)
<1>1. OpOK(o) /\ o.kind = "dequeue"
  BY DEF Dequeue, At, Shape, OpsOK
<1>2. OpOK(n)
  <2>1. CASE o.team = "both"
    BY <2>1, IdleIsOK
  <2>2. CASE o.team # "both"
    <3>1. Filling(o)
      BY <1>1, <2>2 DEF OpOK
    <3> QED
      BY <2>2, <3>1, NextTeamIsOK
  <2> QED
    BY <2>1, <2>2
<1>3. Continue(c, n) /\ UNCHANGED <<bgs, lastBg, expiring, links>> /\ queued' \subseteq queued
  BY DEF Dequeue, Dequeued, At
<1> HIDE DEF n
<1> QED
  BY <1>2, <1>3, ShapeGoes DEF Shape

LEMMA PickTeamsGoes ==
  ASSUME Shape, NEW c \in Procs, PickTeams(c)
  PROVE  /\ Goes
         /\ \/ op' = [op EXCEPT ![c] = Idle]
            \/ \E teams : /\ teams.alliance \in Seq(queued) /\ teams.horde \in Seq(queued)
                          /\ op' = [op EXCEPT ![c] = [kind |-> "start", group |-> op[c].group, teams |-> teams]]
<1> DEFINE o == op[c]
<1>0. queued \subseteq Parties
  BY DEF Shape
<1>1. OpOK(o) /\ o.kind = "next"
  BY DEF PickTeams, At, Shape, OpsOK
<1>2. o.group \in Parties
  BY <1>1 DEF OpOK, HasOwner
<1>3. PICK a \in Sorted("alliance"), h \in Sorted("horde") :
        LET teams == Balanced(a, h, MinPlayers, MaxPlayers)
        IN  Continue(c, IF teams.alliance = <<>> \/ teams.horde = <<>> THEN Idle
                        ELSE [kind |-> "start", group |-> o.group, teams |-> teams])
  BY DEF PickTeams
<1> DEFINE teams == Balanced(a, h, MinPlayers, MaxPlayers)
           n == [kind |-> "start", group |-> o.group, teams |-> teams]
<1>4. a \in Seq(queued) /\ h \in Seq(queued)
  BY <1>0, QueuedOrder DEF Sorted
<1>5. /\ teams.alliance \in Seq(queued) /\ teams.horde \in Seq(queued)
      /\ teams.alliance # <<>> /\ teams.horde # <<>> =>
           Total(teams.alliance) \in MinPlayers .. MaxPlayers /\ Total(teams.horde) \in MinPlayers .. MaxPlayers
  BY <1>0, <1>4, BalancedFit
<1>6. Continue(c, IF teams.alliance = <<>> \/ teams.horde = <<>> THEN Idle ELSE n)
  BY <1>3
<1> HIDE DEF teams
<1>7. UNCHANGED <<bgs, lastBg, expiring, queued, links>>
  BY DEF PickTeams, At, queueVars
<1>8. CASE teams.alliance = <<>> \/ teams.horde = <<>>
  <2>1. Continue(c, Idle)
    BY <1>6, <1>8
  <2>2. Goes
    BY <1>7, <2>1, IdleIsOK, ShapeGoes DEF Shape
  <2> QED
    BY <2>1, <2>2 DEF Continue
<1>9. CASE ~(teams.alliance = <<>> \/ teams.horde = <<>>)
  <2>1. Continue(c, n)
    BY <1>6, <1>9
  <2>2. teams.alliance \in Seq(Parties) /\ teams.horde \in Seq(Parties)
    BY <1>0, <1>5, SeqMonotonic
  <2>3. TeamFits(teams.alliance) /\ TeamFits(teams.horde)
    BY <1>5, <1>9, <2>2 DEF TeamFits
  <2>4. OpOK(n)
    BY <1>2, <2>3 DEF OpOK, HasOwner
  <2>5. Goes
    <3> HIDE DEF n
    <3> QED
      BY <1>7, <2>1, <2>4, ShapeGoes DEF Shape
  <2> QED
    BY <1>5, <2>1, <2>5 DEF Continue
<1> QED
  BY <1>8, <1>9

LEMMA CreateFailsGoes ==
  ASSUME Shape, NEW c \in Procs, CreateFails(c) PROVE Goes
<1>1. links' \in [Players -> Seq(Nat)]
  BY LinksStayLists DEF CreateFails, Shape
<1>2. Continue(c, Idle) /\ UNCHANGED <<bgs, lastBg, expiring, queued>>
  BY DEF CreateFails, At, queueVars
<1> QED
  BY <1>1, <1>2, IdleIsOK, ShapeGoes DEF Shape

\* The players a new battleground invites.
LEMMA CreateBattlegroundGoes ==
  ASSUME Shape, NEW c \in Procs, CreateBattleground(c)
  PROVE  /\ Shape' /\ DOMAIN bgs' = DOMAIN bgs \cup {lastBg + 1}
         /\ \A t \in Teams : Len(bgs'[lastBg + 1].invited[t]) \in MinPlayers .. MaxPlayers
<1> DEFINE o == op[c]
           teams == o.teams
           A == PlayersSeq(teams.alliance)
           H == PlayersSeq(teams.horde)
           n == [kind |-> "relink", at |-> lastBg + 1, team |-> "both", saved |-> TRUE,
                 groups |-> teams.horde \o teams.alliance]
           bg == Invited(Invited(NewBg, teams.horde, "horde"), teams.alliance, "alliance")
<1>1. OpOK(o) /\ o.kind = "start"
  BY DEF CreateBattleground, At, Shape, OpsOK
<1>2. TeamFits(teams.alliance) /\ TeamFits(teams.horde)
  BY <1>1 DEF OpOK
<1>3. /\ A \in Seq(Players) /\ Len(A) \in MinPlayers .. MaxPlayers
      /\ H \in Seq(Players) /\ Len(H) \in MinPlayers .. MaxPlayers
  BY <1>2, InvitedPlayers DEF TeamFits
<1>4. bg.invited["alliance"] = <<>> \o A /\ bg.invited["horde"] = <<>> \o H
  <2> HIDE DEF A, H
  <2>1. bg = [[NewBg EXCEPT !.invited["horde"] = @ \o H] EXCEPT !.invited["alliance"] = @ \o A]
    BY DEF Invited, A, H
  <2> HIDE DEF bg
  <2> QED
    BY <2>1 DEF NewBg, Teams
<1>5. bg.invited["alliance"] = A /\ bg.invited["horde"] = H
  BY <1>3, <1>4, ConcatEmptySeq
<1>6. \A t \in Teams : Len(bg.invited[t]) \in MinPlayers .. MaxPlayers
  BY <1>3, <1>5 DEF Teams
<1> HIDE DEF bg
<1>7. /\ lastBg' = lastBg + 1 /\ Continue(c, n) /\ UNCHANGED <<expiring, queued, links>>
      /\ bgs' = [i \in DOMAIN bgs \cup {lastBg + 1} |-> IF i = lastBg + 1 THEN bg ELSE bgs[i]]
  BY DEF CreateBattleground, At, queueVars, bg
<1>8. OpOK(n)
  <2>1. teams.horde \o teams.alliance \in Seq(Parties)
    BY <1>2, ConcatProperties DEF TeamFits
  <2>2. lastBg + 1 \in Nat \ {0}
    BY DEF Shape
  <2> HIDE DEF teams
  <2> QED
    BY <2>1, <2>2 DEF OpOK, HasPlace, HasGroups
<1> HIDE DEF n
<1>9. OpsOK(op')
  BY <1>7, <1>8, OpsContinue DEF Continue, Shape
<1>10. DOMAIN bgs' = DOMAIN bgs \cup {lastBg + 1} /\ bgs'[lastBg + 1] = bg
  BY <1>7
<1>11. lastBg' \in Nat /\ DOMAIN bgs' \subseteq 1 .. lastBg'
  BY <1>7, <1>10 DEF Shape
<1>12. Shape'
  BY <1>7, <1>9, <1>11 DEF Shape
<1> QED
  BY <1>6, <1>10, <1>12

\* What the other actions do: no group is added, and whoever leaves the queue
\* loses the link to it.
Fewer ==
  /\ Goes /\ UNCHANGED <<op, failures>> /\ queued' \subseteq queued
  /\ LinksOK(links) => LinksOK(links') /\ Linked(links') = Linked(links) \ In(queued \ queued')

LEMMA LinksAreFewer ==
  ASSUME Shape, Others, UNCHANGED queued, DOMAIN bgs' = DOMAIN bgs,
         expiring' = <<>> \/ expiring' \in Instances \X Players,
         links' \in [Players -> Seq(Nat)],
         LinksOK(links) => LinksOK(links') /\ Linked(links') = Linked(links)
  PROVE  Fewer
<1>1. queued \ queued' = {} /\ In({}) = {}
  BY DEF In
<1>2. Goes
  BY DEF Goes, Shape, Others
<1> QED
  BY <1>1, <1>2 DEF Fewer, Others

LEMMA BecomesFewer ==
  ASSUME Shape, Others, NEW st, NEW x, Reduced(st, x), Becomes(x),
         st.queued = queued, st.links = links, DOMAIN st.bgs = DOMAIN bgs,
         expiring' = <<>> \/ expiring' \in Instances \X Players
  PROVE  Fewer
<1>1. queued' = x.queued /\ links' = x.links /\ bgs' = x.bgs
  BY DEF Becomes
<1>2. Goes
  BY <1>1 DEF Goes, Shape, Others, Reduced
<1> QED
  BY <1>1, <1>2 DEF Fewer, Others, Reduced

LEMMA JoinedIsFewer ==
  ASSUME Shape, NEW i, NEW p, PlayerJoinedBattleground(i, p) PROVE Fewer
<1>1. Others /\ UNCHANGED <<queued, links, expiring>> /\ DOMAIN bgs' = DOMAIN bgs
  BY DEF PlayerJoinedBattleground, queueVars
<1> QED
  BY <1>1, LinksAreFewer DEF Shape

LEMMA StoredIs ==
  ASSUME Shape
  PROVE  /\ IsState(Stored) /\ Stored.links \in [Players -> Seq(Nat)]
         /\ Stored.queued = queued /\ Stored.links = links /\ Stored.bgs = bgs
BY DEF Stored, IsState, Shape

LEMMA LeftIsFewer ==
  ASSUME Shape, NEW i, NEW p, PlayerLeftBattleground(i, p) PROVE Fewer
<1> DEFINE x == LeaveBattleground(Stored, i, p)
<1>1. i # QueueLink
  BY DEF PlayerLeftBattleground, Shape, QueueLink
<1>2. x = Leaves(Stored, i, p)
  BY <1>1 DEF Leaves
<1>3. Reduced(Stored, x)
  BY <1>2, StoredIs, LeaveReduces
<1>4. Becomes(x) /\ Others /\ UNCHANGED expiring
  BY DEF PlayerLeftBattleground
<1> HIDE DEF x
<1> QED
  BY <1>3, <1>4, StoredIs, BecomesFewer DEF Shape

LEMMA EndedIsFewer ==
  ASSUME Shape, NEW i, BattlegroundEnded(i) PROVE Fewer
<1>1. Others /\ UNCHANGED <<queued, expiring>> /\ DOMAIN bgs' = DOMAIN bgs
  BY DEF BattlegroundEnded, queueVars
<1>2. i # QueueLink /\ links' = LinkRemoved(links, ActiveIn(bgs[i]), i)
  BY DEF BattlegroundEnded, Listed, Shape, QueueLink
<1>3. links' \in [Players -> Seq(Nat)]
  BY <1>2, LinksStayLists DEF Shape
<1>4. LinksOK(links) => LinksOK(links') /\ Linked(links') = Linked(links)
  BY <1>2, RemovedLinks
<1> QED
  BY <1>1, <1>3, <1>4, LinksAreFewer DEF Shape

LEMMA ServerRemovedIsFewer ==
  ASSUME Shape, GameServerRemoved PROVE Fewer
<1> DEFINE gone(p) == {i \in Listed : p \in ActiveIn(bgs[i])}
<1>1. Others /\ UNCHANGED <<queued, expiring>> /\ DOMAIN bgs' = DOMAIN bgs
  BY DEF GameServerRemoved, queueVars
<1>2. links' = [p \in Players |-> WithoutEach(links[p], SetToSeq(gone(p)))]
  BY DEF GameServerRemoved
<1>3. ASSUME NEW p \in Players PROVE SetToSeq(gone(p)) \in Seq(Nat \ {0})
  <2>1. gone(p) \subseteq 1 .. lastBg /\ lastBg \in Nat
    BY DEF Listed, Shape
  <2> HIDE DEF gone
  <2>2. IsFiniteSet(gone(p))
    <3>1. IsFiniteSet(1 .. lastBg)
      BY <2>1, FS_Interval
    <3> QED
      BY <2>1, <3>1, FS_Subset
  <2>3. SetToSeq(gone(p)) \in Seq(gone(p))
    BY <2>2, ListIs
  <2>4. gone(p) \subseteq Nat \ {0}
    BY <2>1
  <2> QED
    BY <2>3, <2>4, SeqMonotonic
<1> HIDE DEF gone
<1>4. \A p \in Players : links[p] \in Seq(Nat)
  BY DEF Shape
<1>5. \A p \in Players : links'[p] = WithoutEach(links[p], SetToSeq(gone(p)))
  BY <1>2
<1>6. \A p \in Players : /\ links'[p] \in Seq(Nat)
                         /\ Single(links[p]) => Single(links'[p]) /\ (Marked(links'[p]) <=> Marked(links[p]))
  BY <1>3, <1>4, <1>5, OtherLinksTaken
<1>7. links' \in [Players -> Seq(Nat)]
  <2>1. links' = [p \in Players |-> links'[p]]
    BY <1>2
  <2> QED
    BY <1>6, <2>1
<1>8. LinksOK(links) => LinksOK(links') /\ Linked(links') = Linked(links)
  BY <1>6, <1>7 DEF LinksOK, Linked
<1> QED
  BY <1>1, <1>7, <1>8, LinksAreFewer DEF Shape

LEMMA RemovedIsFewer ==
  ASSUME Shape, NEW p \in Players, RemovePlayerFromQueue(p) PROVE Fewer
<1> DEFINE x == LeavesAll(Stored, p)
<1>1. Reduced(Stored, x)
  BY StoredIs, LeavesAllReduces
<1>2. Becomes(x) /\ Others /\ UNCHANGED expiring
  BY DEF RemovePlayerFromQueue
<1> HIDE DEF x
<1> QED
  BY <1>1, <1>2, StoredIs, BecomesFewer DEF Shape

LEMMA FoundIsFewer ==
  ASSUME Shape, NEW i \in Instances, NEW p \in Players, FindExpired(i, p) PROVE Fewer
<1>1. Others /\ UNCHANGED <<queued, links, bgs>> /\ expiring' \in Instances \X Players
  BY DEF FindExpired, queueVars
<1> QED
  BY <1>1, LinksAreFewer DEF Shape

LEMMA ExpiredIsFewer ==
  ASSUME Shape, ExpireInvite PROVE Fewer
<1> DEFINE i == expiring[1]
           p == expiring[2]
           st == [Stored EXCEPT !.bgs[i] = RemovePlayerFromInvite(@, p)]
           x == LeavesAll(st, p)
<1>1. Others /\ expiring' = <<>> /\ p \in Players
  BY DEF ExpireInvite, Shape
<1>2. CASE i \in Listed
  <2>1. Becomes(x)
    BY <1>2 DEF ExpireInvite
  <2>2. IsState(st) /\ st.queued = queued /\ st.links = links /\ DOMAIN st.bgs = DOMAIN bgs
    BY DEF Stored, IsState
  <2>3. st.links \in [Players -> Seq(Nat)]
    BY <2>2 DEF Shape
  <2> HIDE DEF st, i
  <2>4. Reduced(st, x)
    BY <1>1, <2>2, <2>3, LeavesAllReduces
  <2> HIDE DEF x
  <2> QED
    BY <1>1, <2>1, <2>2, <2>4, BecomesFewer
<1>3. CASE i \notin Listed
  <2>1. UNCHANGED <<queued, links, bgs>>
    BY <1>3 DEF ExpireInvite, queueVars
  <2> QED
    BY <1>1, <2>1, LinksAreFewer DEF Shape
<1> QED
  BY <1>2, <1>3

\* The actions of the players and of the battlegrounds.
Outside ==
  \/ \E i \in Instances, p \in Players :
       PlayerJoinedBattleground(i, p) \/ PlayerLeftBattleground(i, p) \/ FindExpired(i, p)
  \/ \E i \in Instances : BattlegroundEnded(i)
  \/ \E p \in Players : RemovePlayerFromQueue(p)
  \/ GameServerRemoved \/ ExpireInvite

LEMMA OutsideIsFewer == Shape /\ Outside => Fewer
BY JoinedIsFewer, LeftIsFewer, EndedIsFewer, ServerRemovedIsFewer, RemovedIsFewer, FoundIsFewer, ExpiredIsFewer
   DEF Outside

LEMMA ShapeInit == Init => Shape
<1> SUFFICES ASSUME Init PROVE Shape
  OBVIOUS
<1>1. OpsOK(op)
  BY IdleIsOK DEF Init, OpsOK
<1>2. links \in [Players -> Seq(Nat)]
  BY EmptySeq DEF Init
<1>3. DOMAIN bgs = {}
  BY DEF Init
<1> QED
  BY <1>1, <1>2, <1>3 DEF Init, Shape

\* Only CreateBattleground adds a battleground.
LEMMA ShapeStep ==
  ASSUME Shape, [Next]_vars
  PROVE  Shape' /\ (DOMAIN bgs' = DOMAIN bgs \/ \E c \in Procs : CreateBattleground(c))
<1>1. ASSUME NEW c \in Procs, Step(c) PROVE Goes \/ (Shape' /\ CreateBattleground(c))
  BY <1>1, AddLinksGoes, AddQueuedGroupGoes, ReadBattlegroundsGoes, NextBattlegroundGoes, PickGroupsGoes,
     SaveInvitesGoes, InviteFailsGoes, RelinkGoes, DequeueGoes, PickTeamsGoes, CreateBattlegroundGoes, CreateFailsGoes
     DEF Step
<1>2. ASSUME NEW c \in Procs, NEW g \in Parties, Enqueue(c, g) PROVE Goes
  BY <1>2, EnqueueGoes
<1>3. CASE Outside
  BY <1>3, OutsideIsFewer DEF Fewer, Goes
<1>4. CASE UNCHANGED vars
  BY <1>4 DEF vars, queueVars, Shape
<1> QED
  BY <1>1, <1>2, <1>3, <1>4 DEF Next, Outside, Goes

\* findBestGroups, balancedGroups and CreateBattleground, for any groups, limits
\* and number of requests: a battleground starts with both teams within the
\* limits of its template.
THEOREM BattlegroundsStartWithinLimits == Spec => StartsWithinLimits
<1> DEFINE Fit == \A i \in DOMAIN bgs' \ DOMAIN bgs, t \in Teams :
                    Len(bgs'[i].invited[t]) \in MinPlayers .. MaxPlayers
<1>1. Init => Shape
  BY ShapeInit
<1>2. Shape /\ [Next]_vars => Shape'
  BY ShapeStep
<1>3. Shape /\ [Next]_vars => [Fit]_vars
  <2> SUFFICES ASSUME Shape, [Next]_vars PROVE Fit
    OBVIOUS
  <2>1. CASE DOMAIN bgs' = DOMAIN bgs
    BY <2>1
  <2>2. ASSUME NEW c \in Procs, CreateBattleground(c) PROVE Fit
    BY <2>2, CreateBattlegroundGoes
  <2> QED
    BY <2>1, <2>2, ShapeStep
<1> QED
  BY <1>1, <1>2, <1>3, PTL DEF Spec, StartsWithinLimits

-----------------------------------------------------------------------------
(* The links to the queue, with one request at a time.                     *)

Disjoint(q) == \A g, h \in q : g = h \/ PlayersOf(g) \cap PlayersOf(h) = {}

\* Those who have a link and are not queued yet, and those who are queued and
\* have no link any more.
Coming(o) == IF o.kind = "enqueue" THEN PlayersOf(o.group) ELSE {}
Gone(o) == IF o.kind = "dequeue" THEN PlayersIn(o.groups) ELSE {}

\* A queued group that shares a player with the chosen ones is one of them.
Chosen(q, groups) ==
  \A h \in q : PlayersOf(h) \cap PlayersIn(groups) # {} => \E i \in DOMAIN groups : h = groups[i]

Exact(q, ls, o) ==
  /\ Disjoint(q) /\ LinksOK(ls)
  /\ Linked(ls) = (In(q) \ Gone(o)) \cup Coming(o)
  /\ o.kind \in {"link", "enqueue"} => In(q) \cap PlayersOf(o.group) = {}
  /\ o.kind \in {"save", "relink", "dequeue"} => Chosen(q, o.groups)
  /\ o.kind = "start" => Chosen(q, o.teams.alliance) /\ Chosen(q, o.teams.horde)

Clear(q, ls) == Disjoint(q) /\ LinksOK(ls) /\ Linked(ls) = In(q)

LEMMA ExactIsClear ==
  ASSUME NEW q, NEW ls, NEW o, Exact(q, ls, o), o.kind \notin {"enqueue", "dequeue"}
  PROVE  Clear(q, ls)
BY DEF Exact, Clear, Gone, Coming

LEMMA ClearIsExact ==
  ASSUME NEW q, NEW ls, Clear(q, ls), NEW o, o.kind \in {"idle", "read", "next", "pick"}
  PROVE  Exact(q, ls, o)
BY DEF Exact, Clear, Gone, Coming

LEMMA NextTeamIsExact ==
  ASSUME NEW q, NEW ls, Clear(q, ls), NEW o
  PROVE  Exact(q, ls, NextTeam(o))
<1>1. NextTeam(o).kind \in {"next", "pick"}
  BY DEF NextTeam
<1> QED
  BY <1>1, ClearIsExact

LEMMA ChosenFrom ==
  ASSUME NEW q, Disjoint(q), NEW groups \in Seq(q)
  PROVE  Chosen(q, groups)
<1>1. \A i \in DOMAIN groups : groups[i] \in q
  OBVIOUS
<1> QED
  BY <1>1 DEF Chosen, Disjoint, PlayersIn

LEMMA ChosenBoth ==
  ASSUME NEW q, NEW a \in Seq(Parties), NEW b \in Seq(Parties), Chosen(q, a), Chosen(q, b)
  PROVE  Chosen(q, a \o b)
<1> DEFINE s == a \o b
<1>1. /\ DOMAIN a = 1 .. Len(a) /\ DOMAIN b = 1 .. Len(b) /\ Len(a) \in Nat /\ Len(b) \in Nat
      /\ DOMAIN s = 1 .. (Len(a) + Len(b))
  OBVIOUS
<1>2. \A i \in 1 .. (Len(a) + Len(b)) : s[i] = IF i <= Len(a) THEN a[i] ELSE b[i - Len(a)]
  BY ConcatProperties
<1> HIDE DEF s
<1>3. \A i \in DOMAIN s : (\E j \in DOMAIN a : s[i] = a[j]) \/ (\E j \in DOMAIN b : s[i] = b[j])
  <2> SUFFICES ASSUME NEW i \in 1 .. (Len(a) + Len(b))
               PROVE  (\E j \in DOMAIN a : s[i] = a[j]) \/ (\E j \in DOMAIN b : s[i] = b[j])
    BY <1>1
  <2>1. CASE i <= Len(a)
    <3>1. i \in DOMAIN a
      BY <1>1, <2>1
    <3> QED
      BY <1>2, <2>1, <3>1
  <2>2. CASE ~(i <= Len(a))
    <3>1. i - Len(a) \in DOMAIN b
      BY <1>1, <2>2
    <3> QED
      BY <1>2, <2>2, <3>1
  <2> QED
    BY <2>1, <2>2
<1>4. \A j \in DOMAIN a : \E i \in DOMAIN s : s[i] = a[j]
  <2> SUFFICES ASSUME NEW j \in DOMAIN a PROVE \E i \in DOMAIN s : s[i] = a[j]
    OBVIOUS
  <2>1. j \in 1 .. (Len(a) + Len(b)) /\ j <= Len(a)
    BY <1>1
  <2> QED
    BY <1>1, <1>2, <2>1
<1>5. \A j \in DOMAIN b : \E i \in DOMAIN s : s[i] = b[j]
  <2> SUFFICES ASSUME NEW j \in DOMAIN b PROVE \E i \in DOMAIN s : s[i] = b[j]
    OBVIOUS
  <2>1. Len(a) + j \in 1 .. (Len(a) + Len(b)) /\ ~(Len(a) + j <= Len(a)) /\ (Len(a) + j) - Len(a) = j
    BY <1>1
  <2> QED
    BY <1>1, <1>2, <2>1
<1>6. PlayersIn(s) = PlayersIn(a) \cup PlayersIn(b)
  BY <1>3, <1>4, <1>5 DEF PlayersIn
<1>7. Chosen(q, s)
  <2> SUFFICES ASSUME NEW h \in q, PlayersOf(h) \cap PlayersIn(s) # {} PROVE \E i \in DOMAIN s : h = s[i]
    BY DEF Chosen
  <2>1. PlayersOf(h) \cap PlayersIn(a) # {} \/ PlayersOf(h) \cap PlayersIn(b) # {}
    BY <1>6
  <2>2. (\E j \in DOMAIN a : h = a[j]) \/ (\E j \in DOMAIN b : h = b[j])
    BY <2>1 DEF Chosen
  <2> QED
    BY <1>4, <1>5, <2>2
<1> QED
  BY <1>7 DEF s

\* Groups and players leave in the middle of a request.
LEMMA FewerIsExact ==
  ASSUME Shape, NEW c \in Procs, Exact(queued, links, op[c]), Fewer
  PROVE  Exact(queued', links', op'[c])
<1> DEFINE o == op[c]
           q == queued'
           ls == links'
<1>1. op'[c] = o /\ q \subseteq queued /\ LinksOK(ls) /\ Linked(ls) = Linked(links) \ In(queued \ q)
  BY DEF Fewer, Exact
<1> HIDE DEF q, ls, o
<1>2. Exact(queued, links, o)
  BY DEF o
<1>3. Disjoint(q)
  BY <1>1, <1>2 DEF Exact, Disjoint
<1>4. In(q) = In(queued) \ In(queued \ q)
  BY <1>1, <1>2 DEF Exact, Disjoint, In
<1>5. Coming(o) \cap In(queued) = {}
  BY <1>2 DEF Exact, Coming
<1>6. In(queued \ q) \subseteq In(queued)
  BY DEF In
<1>7. Linked(ls) = (In(q) \ Gone(o)) \cup Coming(o)
  BY <1>1, <1>2, <1>4, <1>5, <1>6 DEF Exact
<1>8. \A groups : Chosen(queued, groups) => Chosen(q, groups)
  BY <1>1 DEF Chosen
<1>9. o.kind \in {"link", "enqueue"} => In(q) \cap PlayersOf(o.group) = {}
  BY <1>2, <1>4 DEF Exact
<1>10. Exact(q, ls, o)
  BY <1>1, <1>2, <1>3, <1>7, <1>8, <1>9 DEF Exact
<1> QED
  BY <1>1, <1>10 DEF q, ls

LEMMA Continues ==
  ASSUME Shape, NEW c \in Procs, NEW next, Continue(c, next)
  PROVE  op'[c] = next /\ OpOK(op[c])
BY DEF Continue, Shape, OpsOK

LEMMA EnqueueIsExact ==
  ASSUME Shape, NEW c \in Procs, Exact(queued, links, op[c]), NEW g \in Parties, Enqueue(c, g)
  PROVE  Exact(queued', links', op'[c])
<1> DEFINE n == [kind |-> "link", group |-> g]
<1>1. Clear(queued, links)
  BY ExactIsClear DEF Enqueue, Idle
<1>2. op'[c] = n /\ UNCHANGED <<queued, links>>
  BY Continues DEF Enqueue, queueVars
<1>3. PlayersOf(g) \cap Linked(links) = {}
  BY DEF Enqueue, Linked, Marked
<1>4. In(queued) \cap PlayersOf(g) = {}
  BY <1>1, <1>3 DEF Clear
<1>5. Exact(queued, links, n)
  BY <1>1, <1>4 DEF Exact, Clear, Gone, Coming
<1> QED
  BY <1>2, <1>5

LEMMA AddLinksIsExact ==
  ASSUME Shape, NEW c \in Procs, Exact(queued, links, op[c]), AddLinks(c)
  PROVE  Exact(queued', links', op'[c])
<1> DEFINE o == op[c]
           n == [o EXCEPT !.kind = "enqueue"]
           players == PlayersOf(o.group)
           ls == LinkAdded(links, players, QueueLink)
<1>1. o.kind = "link" /\ op'[c] = n /\ OpOK(o) /\ UNCHANGED queued /\ links' = ls
  BY Continues DEF AddLinks, At, queueVars
<1>2. Clear(queued, links) /\ In(queued) \cap players = {}
  BY <1>1, ExactIsClear DEF Exact
<1>3. n.kind = "enqueue" /\ n.group = o.group /\ o.group \in Parties
  BY <1>1 DEF OpOK, HasOwner
<1>4. players \subseteq Players
  BY <1>3, PartyIs
<1>5. LinksOK(ls) /\ Linked(ls) = Linked(links) \cup (players \cap Players)
  <2>1. LinksOK(links) /\ QueueLink \in Nat /\ Linked(links) \cap players = {}
    BY <1>2 DEF Clear, QueueLink
  <2> QED
    BY <2>1, AddedLinks
<1> HIDE DEF n, ls
<1>6. Exact(queued, ls, n)
  BY <1>2, <1>3, <1>4, <1>5 DEF Exact, Clear, Gone, Coming
<1> QED
  BY <1>1, <1>6

LEMMA AddQueuedGroupIsExact ==
  ASSUME Shape, NEW c \in Procs, Exact(queued, links, op[c]), AddQueuedGroup(c)
  PROVE  Exact(queued', links', op'[c])
<1> DEFINE o == op[c]
           g == o.group
           n == [o EXCEPT !.kind = "read"]
<1>1. /\ o.kind = "enqueue" /\ op'[c] = n /\ OpOK(o) /\ UNCHANGED links
      /\ queued' = {h \in queued : h.leader # g.leader} \cup {g}
  BY Continues DEF AddQueuedGroup, At
<1>2. /\ In(queued) \cap PlayersOf(g) = {} /\ Disjoint(queued)
      /\ LinksOK(links) /\ Linked(links) = In(queued) \cup PlayersOf(g)
  BY <1>1 DEF Exact, Gone, Coming
<1>3. n.kind = "read" /\ g \in Parties
  BY <1>1 DEF OpOK, HasOwner
<1>4. \A h \in queued : h.leader \in PlayersOf(h) /\ h.leader \in In(queued)
  BY DEF PlayersOf, In
<1>5. g.leader \in PlayersOf(g)
  BY DEF PlayersOf
<1> HIDE DEF g, n
<1>6. queued' = queued \cup {g}
  BY <1>1, <1>2, <1>4, <1>5
<1>7. Disjoint(queued \cup {g}) /\ In(queued \cup {g}) = In(queued) \cup PlayersOf(g)
  BY <1>2 DEF Disjoint, In
<1>8. Clear(queued', links)
  BY <1>2, <1>6, <1>7 DEF Clear
<1> QED
  BY <1>1, <1>3, <1>8, ClearIsExact

LEMMA ReadIsExact ==
  ASSUME Shape, NEW c \in Procs, Exact(queued, links, op[c]), ReadBattlegrounds(c) \/ NextBattleground(c)
  PROVE  Exact(queued', links', op'[c])
<1>1. op[c].kind \in {"read", "next"} /\ UNCHANGED <<queued, links>>
  BY DEF ReadBattlegrounds, NextBattleground, At, queueVars
<1>2. op'[c].kind \in {"next", "pick"}
  <2>1. CASE ReadBattlegrounds(c)
    <3>1. PICK copies : Continue(c, [kind |-> "next", group |-> op[c].group, copies |-> copies])
      BY <2>1 DEF ReadBattlegrounds
    <3> QED
      BY <3>1, Continues
  <2>2. CASE NextBattleground(c)
    <3>1. PICK i, copy, copies :
            Continue(c, [kind |-> "pick", group |-> op[c].group, at |-> i, team |-> "alliance", saved |-> FALSE,
                         copy |-> copy, copies |-> copies])
      BY <2>2 DEF NextBattleground
    <3> QED
      BY <3>1, Continues
  <2> QED
    BY <2>1, <2>2
<1>3. Clear(queued, links)
  BY <1>1, ExactIsClear
<1> QED
  BY <1>1, <1>2, <1>3, ClearIsExact

LEMMA PickGroupsIsExact ==
  ASSUME Shape, NEW c \in Procs, Exact(queued, links, op[c]), PickGroups(c)
  PROVE  Exact(queued', links', op'[c])
<1>1. op[c].kind = "pick" /\ UNCHANGED <<queued, links>>
  BY DEF PickGroups, At, queueVars
<1>2. Clear(queued, links)
  BY <1>1, ExactIsClear
<1>3. op = [d \in Procs |-> op[d]]
  BY DEF Shape, OpsOK
<1>4. CASE op' = [op EXCEPT ![c] = NextTeam(op[c])]
  <2>1. op'[c] = NextTeam(op[c])
    BY <1>3, <1>4
  <2> QED
    BY <1>1, <1>2, <2>1, NextTeamIsExact
<1>5. ASSUME NEW groups \in Seq(queued),
             op' = [op EXCEPT ![c] = [kind |-> "save", group |-> op[c].group, at |-> op[c].at, team |-> op[c].team,
                                      saved |-> op[c].saved, copy |-> op[c].copy, copies |-> op[c].copies,
                                      groups |-> groups]]
      PROVE  Exact(queued', links', op'[c])
  <2>1. op'[c].kind = "save" /\ op'[c].groups = groups
    BY <1>3, <1>5
  <2>2. Chosen(queued, groups)
    BY <1>2, ChosenFrom DEF Clear
  <2>3. Exact(queued, links, op'[c])
    BY <1>2, <2>1, <2>2 DEF Exact, Clear, Gone, Coming
  <2> QED
    BY <1>1, <2>3
<1> QED
  BY <1>4, <1>5, PickGroupsGoes

LEMMA SaveInvitesIsExact ==
  ASSUME Shape, NEW c \in Procs, Exact(queued, links, op[c]), SaveInvites(c)
  PROVE  Exact(queued', links', op'[c])
<1> DEFINE o == op[c]
           n == [o EXCEPT !.kind = "relink", !.saved = TRUE]
<1>1. o.kind = "save" /\ op'[c] = n /\ OpOK(o) /\ UNCHANGED <<queued, links>>
  BY Continues DEF SaveInvites, At, queueVars
<1>2. n.kind = "relink" /\ n.groups = o.groups
  BY <1>1 DEF OpOK, HasGroups
<1>3. Clear(queued, links) /\ Chosen(queued, o.groups)
  BY <1>1, ExactIsClear DEF Exact
<1> HIDE DEF n
<1>4. Exact(queued, links, n)
  BY <1>2, <1>3 DEF Exact, Clear, Gone, Coming
<1> QED
  BY <1>1, <1>4

LEMMA RelinkIsExact ==
  ASSUME Shape, NEW c \in Procs, Exact(queued, links, op[c]), Relink(c)
  PROVE  Exact(queued', links', op'[c])
<1> DEFINE o == op[c]
           n == [o EXCEPT !.kind = "dequeue"]
           players == PlayersIn(o.groups)
           without == LinkRemoved(links, players, QueueLink)
           ls == LinkAdded(without, players, o.at)
<1>1. o.kind = "relink" /\ op'[c] = n /\ OpOK(o) /\ UNCHANGED queued /\ links' = ls
  BY Continues DEF Relink, Relinked, At, queueVars
<1>2. n.kind = "dequeue" /\ n.groups = o.groups /\ o.at \in Nat /\ o.at # QueueLink
  BY <1>1 DEF OpOK, HasGroups, HasPlace, QueueLink
<1>3. Clear(queued, links) /\ Chosen(queued, o.groups)
  BY <1>1, ExactIsClear DEF Exact
<1>4. LinksOK(without) /\ Linked(without) = In(queued) \ players
  BY <1>3, RemovedLinks DEF Clear
<1> HIDE DEF n, without
<1>5. LinksOK(ls) /\ Linked(ls) = Linked(without)
  BY <1>2, <1>4, AddedLinks
<1> HIDE DEF ls
<1>6. Exact(queued, ls, n)
  BY <1>2, <1>3, <1>4, <1>5 DEF Exact, Clear, Gone, Coming
<1> QED
  BY <1>1, <1>6

LEMMA DequeueIsExact ==
  ASSUME Shape, NEW c \in Procs, Exact(queued, links, op[c]), Dequeue(c)
  PROVE  Exact(queued', links', op'[c])
<1> DEFINE o == op[c]
           players == PlayersIn(o.groups)
           leaders == {o.groups[i].leader : i \in DOMAIN o.groups}
           n == IF o.team = "both" THEN Idle ELSE NextTeam(o)
           q == {g \in queued : g.leader \notin leaders}
<1>1. o.kind = "dequeue" /\ op'[c] = n /\ UNCHANGED links /\ queued' = q
  BY Continues DEF Dequeue, Dequeued, At
<1>2. Disjoint(queued) /\ LinksOK(links) /\ Linked(links) = In(queued) \ players /\ Chosen(queued, o.groups)
  BY <1>1 DEF Exact, Gone, Coming
<1>3. leaders \subseteq players
  BY DEF PlayersIn, PlayersOf
<1>4. \A g \in queued : g.leader \in PlayersOf(g)
  BY DEF PlayersOf
<1>5. ASSUME NEW g \in queued, g.leader \notin leaders PROVE PlayersOf(g) \cap players = {}
  BY <1>2, <1>5 DEF Chosen
<1>6. ASSUME NEW g \in queued, g.leader \in leaders PROVE PlayersOf(g) \subseteq players
  <2>1. PlayersOf(g) \cap players # {}
    BY <1>3, <1>4, <1>6
  <2>2. PICK i \in DOMAIN o.groups : g = o.groups[i]
    BY <1>2, <2>1 DEF Chosen
  <2> QED
    BY <2>2 DEF PlayersIn
<1> HIDE DEF players, leaders
<1>7. In(q) = In(queued) \ players
  BY <1>5, <1>6 DEF In
<1>8. Disjoint(q)
  BY <1>2 DEF Disjoint
<1> HIDE DEF q
<1>9. Clear(q, links)
  BY <1>2, <1>7, <1>8 DEF Clear
<1>10. Exact(q, links, n)
  <2>1. CASE o.team = "both"
    BY <1>9, <2>1, ClearIsExact DEF Idle
  <2>2. CASE o.team # "both"
    BY <1>9, <2>2, NextTeamIsExact
  <2> QED
    BY <2>1, <2>2
<1> HIDE DEF n
<1> QED
  BY <1>1, <1>10

LEMMA PickTeamsIsExact ==
  ASSUME Shape, NEW c \in Procs, Exact(queued, links, op[c]), PickTeams(c)
  PROVE  Exact(queued', links', op'[c])
<1>1. op[c].kind = "next" /\ UNCHANGED <<queued, links>>
  BY DEF PickTeams, At, queueVars
<1>2. Clear(queued, links)
  BY <1>1, ExactIsClear
<1>3. op = [d \in Procs |-> op[d]]
  BY DEF Shape, OpsOK
<1>4. CASE op' = [op EXCEPT ![c] = Idle]
  <2>1. op'[c] = Idle /\ Idle.kind = "idle"
    BY <1>3, <1>4 DEF Idle
  <2> QED
    BY <1>1, <1>2, <2>1, ClearIsExact
<1>5. ASSUME NEW teams, teams.alliance \in Seq(queued), teams.horde \in Seq(queued),
             op' = [op EXCEPT ![c] = [kind |-> "start", group |-> op[c].group, teams |-> teams]]
      PROVE  Exact(queued', links', op'[c])
  <2>1. op'[c].kind = "start" /\ op'[c].teams = teams
    BY <1>3, <1>5
  <2>2. Chosen(queued, teams.alliance) /\ Chosen(queued, teams.horde)
    BY <1>2, <1>5, ChosenFrom DEF Clear
  <2>3. Exact(queued, links, op'[c])
    BY <1>2, <2>1, <2>2 DEF Exact, Clear, Gone, Coming
  <2> QED
    BY <1>1, <2>3
<1> QED
  BY <1>4, <1>5, PickTeamsGoes

LEMMA CreateBattlegroundIsExact ==
  ASSUME Shape, NEW c \in Procs, Exact(queued, links, op[c]), CreateBattleground(c)
  PROVE  Exact(queued', links', op'[c])
<1> DEFINE o == op[c]
           groups == o.teams.horde \o o.teams.alliance
           n == [kind |-> "relink", at |-> lastBg + 1, team |-> "both", saved |-> TRUE, groups |-> groups]
<1>1. o.kind = "start" /\ op'[c] = n /\ OpOK(o) /\ UNCHANGED <<queued, links>>
  BY Continues DEF CreateBattleground, At, queueVars
<1>2. o.teams.horde \in Seq(Parties) /\ o.teams.alliance \in Seq(Parties)
  BY <1>1 DEF OpOK, TeamFits
<1>3. Clear(queued, links) /\ Chosen(queued, o.teams.alliance) /\ Chosen(queued, o.teams.horde)
  BY <1>1, ExactIsClear DEF Exact
<1>4. Chosen(queued, groups)
  BY <1>2, <1>3, ChosenBoth
<1>5. n.kind = "relink" /\ n.groups = groups
  OBVIOUS
<1> HIDE DEF groups, n
<1>6. Exact(queued, links, n)
  BY <1>3, <1>4, <1>5 DEF Exact, Clear, Gone, Coming
<1> QED
  BY <1>1, <1>6

-----------------------------------------------------------------------------
LinksInv(c) == Shape /\ failures \in Nat /\ (failures = 0 => Exact(queued, links, op[c]))

LEMMA LinksInit ==
  ASSUME NEW c \in Procs, Init PROVE LinksInv(c)
<1>1. Shape
  BY ShapeInit
<1>2. queued = {} /\ op[c] = Idle /\ Idle.kind = "idle" /\ failures = 0 /\ links = [p \in Players |-> <<>>]
  BY DEF Init, Idle
<1>3. \A p \in Players : links[p] \in Seq(Nat) /\ Single(links[p]) /\ ~Marked(links[p])
  BY <1>2 DEF Single, Marked
<1>4. LinksOK(links) /\ Linked(links) = {}
  BY <1>1, <1>3 DEF LinksOK, Linked, Shape
<1>5. Disjoint(queued) /\ In(queued) = {}
  BY <1>2 DEF Disjoint, In
<1>6. Clear(queued, links)
  BY <1>4, <1>5 DEF Clear
<1>7. Exact(queued, links, op[c])
  BY <1>2, <1>6, ClearIsExact
<1> QED
  BY <1>1, <1>2, <1>7 DEF LinksInv

LEMMA LinksStep ==
  ASSUME NEW c, Procs = {c}, LinksInv(c), [Next]_vars PROVE LinksInv(c)'
<1>1. Shape /\ Shape' /\ failures \in Nat /\ c \in Procs
  BY ShapeStep DEF LinksInv
<1>2. failures' \in Nat /\ (failures' = 0 => failures = 0)
  <2>1. ASSUME Step(c) PROVE failures' = failures \/ failures' = failures + 1
    BY <2>1 DEF Step, AddLinks, AddQueuedGroup, ReadBattlegrounds, NextBattleground, PickGroups, SaveInvites,
       InviteFails, Relink, Dequeue, PickTeams, CreateBattleground, CreateFails
  <2>2. ASSUME NEW g \in Parties, Enqueue(c, g) PROVE failures' = failures
    BY <2>2 DEF Enqueue
  <2>3. ASSUME Outside PROVE failures' = failures
    BY <1>1, <2>3, OutsideIsFewer DEF Fewer
  <2>4. ASSUME UNCHANGED vars PROVE failures' = failures
    BY <2>4 DEF vars
  <2>5. failures' = failures \/ failures' = failures + 1
    BY <2>1, <2>2, <2>3, <2>4 DEF Next, Outside
  <2> QED
    BY <1>1, <2>5
<1>3. SUFFICES ASSUME failures' = 0 PROVE Exact(queued', links', op'[c])
  BY <1>1, <1>2 DEF LinksInv
<1>4. Exact(queued, links, op[c])
  BY <1>2, <1>3 DEF LinksInv
<1>5. CASE Step(c)
  <2>1. ~InviteFails(c) /\ ~CreateFails(c)
    BY <1>1, <1>3 DEF InviteFails, CreateFails
  <2> QED
    BY <1>1, <1>4, <1>5, <2>1, AddLinksIsExact, AddQueuedGroupIsExact, ReadIsExact, PickGroupsIsExact,
       SaveInvitesIsExact, RelinkIsExact, DequeueIsExact, PickTeamsIsExact, CreateBattlegroundIsExact DEF Step
<1>6. ASSUME NEW g \in Parties, Enqueue(c, g) PROVE Exact(queued', links', op'[c])
  BY <1>1, <1>4, <1>6, EnqueueIsExact
<1>7. CASE Outside
  BY <1>1, <1>4, <1>7, OutsideIsFewer, FewerIsExact
<1>8. CASE UNCHANGED vars
  BY <1>4, <1>8 DEF vars, queueVars
<1> QED
  BY <1>5, <1>6, <1>7, <1>8 DEF Next, Outside

LEMMA LinksInvIsExact ==
  ASSUME NEW c, Procs = {c}, LinksInv(c) PROVE QueueLinksAreExact
<1> SUFFICES ASSUME Quiet, failures = 0, NEW p \in Players
             PROVE  Cardinality({j \in DOMAIN links[p] : links[p][j] = QueueLink}) = IF p \in InQueue THEN 1 ELSE 0
  BY DEF QueueLinksAreExact
<1>1. op[c] = Idle /\ Idle.kind = "idle" /\ Exact(queued, links, op[c])
  BY DEF Quiet, Idle, LinksInv
<1>2. Clear(queued, links)
  BY <1>1, ExactIsClear
<1>3. links[p] \in Seq(Nat) /\ Single(links[p]) /\ (Marked(links[p]) <=> p \in InQueue)
  BY <1>2 DEF Clear, LinksOK, Linked, In, InQueue
<1> QED
  BY <1>3, LinksOf

\* AddGroupToQueue, process, RemovePlayerFromQueue, the expiry of invites and the
\* end of battlegrounds, for any groups and limits: when the one request is done,
\* and nothing has failed, a player has one link to the queue if queued, and
\* none otherwise.
THEOREM LinksFollowTheQueue ==
  ASSUME NEW c, Procs = {c}
  PROVE  Spec => []QueueLinksAreExact
<1>1. Init => LinksInv(c)
  BY LinksInit
<1>2. LinksInv(c) /\ [Next]_vars => LinksInv(c)'
  BY LinksStep
<1>3. LinksInv(c) => QueueLinksAreExact
  BY LinksInvIsExact
<1> QED
  BY <1>1, <1>2, <1>3, PTL DEF Spec
=============================================================================
