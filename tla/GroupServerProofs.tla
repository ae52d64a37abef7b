------------------------- MODULE GroupServerProofs -------------------------
(***************************************************************************)
(* Proofs about the group server, for any number of players, groups,       *)
(* requests, logins, failing statements and restarts, one request at a     *)
(* time.                                                                   *)
(***************************************************************************)
EXTENDS GroupServer, FiniteSums

-----------------------------------------------------------------------------
(* Slices.                                                                 *)

Slots    == [guid : Players, online : BOOLEAN]
Pointers == [group : Nat \ {0}, cap : Nat, index : Nat]

\* The players in the first n slots, and that none is there twice.
Guids(slots, n) == {slots[i].guid : i \in 1 .. n}
OneSlotEach(slots, n) == \A i, j \in 1 .. n : slots[i].guid = slots[j].guid => i = j

\* The array that the slice of a group lies in.
ArrayOf(g) == arrays[g][object[g].cap]

GroupOK(ob, ar) ==
  /\ ob = [settings |-> ob.settings, cap |-> ob.cap, len |-> ob.len]
  /\ ob.cap \in Nat /\ ob.len \in Nat
  /\ ob.cap \in DOMAIN ar
  /\ ar[ob.cap] \in Seq(Slots)
  /\ ob.len <= Len(ar[ob.cap]) /\ Len(ar[ob.cap]) <= ob.cap

LEMMA FunctionIsSeq ==
  ASSUME NEW S, NEW n \in Nat, NEW q \in [1 .. n -> S]
  PROVE  q \in Seq(S) /\ Len(q) = n
OBVIOUS

LEMMA MembersAre ==
  ASSUME NEW g, GroupOK(object[g], arrays[g])
  PROVE  /\ MemberSet(g) = Guids(ArrayOf(g), object[g].len)
         /\ MemberSet(g) \subseteq Players
<1> DEFINE a == ArrayOf(g)
           n == object[g].len
<1>1. a \in Seq(Slots) /\ n \in Nat /\ n <= Len(a)
  BY DEF GroupOK, ArrayOf
<1>2. Members(g) = SubSeq(a, 1, n)
  BY DEF Members, ArrayOf
<1> HIDE DEF a, n
<1>3. \A i \in 1 .. n : SubSeq(a, 1, n)[i] = a[i] /\ a[i] \in Slots
  BY <1>1
<1>4. MemberSet(g) = Guids(a, n)
  BY <1>2, <1>3 DEF MemberSet, Guids, n
<1>5. Guids(a, n) \subseteq Players
  BY <1>3 DEF Guids, Slots
<1> QED
  BY <1>4, <1>5 DEF a, n

\* IndexOf is the place of a member, 0 for others.
LEMMA IndexIs ==
  ASSUME NEW g, GroupOK(object[g], arrays[g]), NEW p
  PROVE  /\ IndexOf(g, p) > 0 <=> p \in MemberSet(g)
         /\ p \in MemberSet(g) => IndexOf(g, p) \in 1 .. object[g].len /\ ArrayOf(g)[IndexOf(g, p)].guid = p
<1> DEFINE a == ArrayOf(g)
           n == object[g].len
           s == Members(g)
           I == {i \in 1 .. Len(s) : s[i].guid = p}
<1>1. a \in Seq(Slots) /\ n \in Nat /\ n <= Len(a)
  BY DEF GroupOK, ArrayOf
<1>2. s = SubSeq(a, 1, n)
  BY DEF Members, ArrayOf
<1>3. IndexOf(g, p) = IF I # {} THEN Min(I) ELSE 0
  BY DEF IndexOf, SelectInSeq
<1>4. MemberSet(g) = Guids(a, n)
  BY MembersAre
<1> HIDE DEF a, n, s
<1>5. Len(s) = n /\ \A i \in 1 .. n : s[i] = a[i]
  BY <1>1, <1>2
<1>6. I = {i \in 1 .. n : a[i].guid = p}
  BY <1>5
<1>7. I # {} => Min(I) \in I
  <2>1. I \subseteq Nat
    BY <1>1, <1>6
  <2>2. I # {} => \E k \in I : \A j \in I : k <= j
    BY <2>1, LeastOf
  <2> HIDE DEF I
  <2> QED
    BY <2>2 DEF Min
<1>8. I # {} <=> p \in Guids(a, n)
  BY <1>6 DEF Guids
<1> HIDE DEF I
<1>9. I # {} => Min(I) \in 1 .. n /\ a[Min(I)].guid = p
  BY <1>6, <1>7
<1> QED
  BY <1>1, <1>3, <1>4, <1>8, <1>9 DEF a, n

\* append adds one player at the end.
LEMMA AppendAdds ==
  ASSUME NEW g, GroupOK(object[g], arrays[g]), NEW slot \in Slots,
         NEW new, new = Appended(g, slot),
         NEW ob, ob = [settings |-> object[g].settings, cap |-> new.cap, len |-> object[g].len + 1],
         NEW ar, ar = With(arrays[g], new.cap, new.slots)
  PROVE  /\ GroupOK(ob, ar) /\ ob.len = object[g].len + 1
         /\ Guids(ar[ob.cap], ob.len) = MemberSet(g) \cup {slot.guid}
         /\ OneSlotEach(ArrayOf(g), object[g].len) /\ slot.guid \notin MemberSet(g)
              => OneSlotEach(ar[ob.cap], ob.len)
         /\ ob.settings = object[g].settings
<1> DEFINE a == ArrayOf(g)
           n == object[g].len
           c == object[g].cap
           b == IF n < Len(a) THEN [a EXCEPT ![n + 1] = slot] ELSE Append(a, slot)
<1>1. a \in Seq(Slots) /\ n \in Nat /\ n <= Len(a) /\ Len(a) <= c /\ c \in Nat
  BY DEF GroupOK, ArrayOf
<1>2. new.cap = Grown(n, c) /\ new.slots = b
  BY DEF Appended, ArrayOf
<1>3. ob.cap = new.cap /\ ob.len = n + 1 /\ ob.settings = object[g].settings
      /\ ob = [settings |-> ob.settings, cap |-> ob.cap, len |-> ob.len]
  BY DEF GroupOK
<1>4. ar[new.cap] = new.slots /\ new.cap \in DOMAIN ar
  BY DEF With
<1>5. MemberSet(g) = Guids(a, n)
  BY MembersAre
<1> HIDE DEF a, n, c
<1>6. b \in Seq(Slots) /\ n + 1 <= Len(b) /\ Len(b) = (IF n < Len(a) THEN Len(a) ELSE n + 1)
  BY <1>1
<1>7. b[n + 1] = slot /\ \A i \in 1 .. n : b[i] = a[i]
  BY <1>1
<1>8. Grown(n, c) \in Nat /\ Len(b) <= Grown(n, c)
  BY <1>1, <1>6 DEF Grown
<1> HIDE DEF b
<1>9. GroupOK(ob, ar)
  BY <1>1, <1>2, <1>3, <1>4, <1>6, <1>8 DEF GroupOK
<1>10. Guids(b, n + 1) = Guids(a, n) \cup {slot.guid}
  <2>1. 1 .. n + 1 = (1 .. n) \cup {n + 1}
    BY <1>1
  <2> QED
    BY <1>7, <2>1 DEF Guids
<1>11. OneSlotEach(a, n) /\ slot.guid \notin Guids(a, n) => OneSlotEach(b, n + 1)
  <2> SUFFICES ASSUME OneSlotEach(a, n), slot.guid \notin Guids(a, n), NEW i \in 1 .. n + 1, NEW j \in 1 .. n + 1,
                      b[i].guid = b[j].guid
               PROVE  i = j
    BY DEF OneSlotEach
  <2>1. \A k \in 1 .. n : b[k].guid # slot.guid
    BY <1>7 DEF Guids
  <2>2. \A k \in 1 .. n + 1 : k \in 1 .. n \/ k = n + 1
    BY <1>1
  <2>3. CASE i \in 1 .. n /\ j \in 1 .. n
    BY <1>7, <2>3 DEF OneSlotEach
  <2> QED
    BY <1>7, <2>1, <2>2, <2>3
<1> QED
  BY <1>2, <1>3, <1>4, <1>5, <1>9, <1>10, <1>11 DEF a, n

\* Removing one slot takes nobody else out, and its player if it was there once.
LEMMA ShiftRemoves ==
  ASSUME NEW g, GroupOK(object[g], arrays[g]), NEW p \in MemberSet(g),
         NEW ob, ob = [object[g] EXCEPT !.len = @ - 1],
         NEW ar, ar = [arrays[g] EXCEPT ![object[g].cap] = ShiftedDown(@, IndexOf(g, p), object[g].len)]
  PROVE  /\ GroupOK(ob, ar) /\ ob.settings = object[g].settings
         /\ MemberSet(g) \ {p} \subseteq Guids(ar[ob.cap], ob.len)
         /\ OneSlotEach(ArrayOf(g), object[g].len)
              => /\ Guids(ar[ob.cap], ob.len) = MemberSet(g) \ {p}
                 /\ OneSlotEach(ar[ob.cap], ob.len)
<1> DEFINE a == ArrayOf(g)
           n == object[g].len
           c == object[g].cap
           i == IndexOf(g, p)
           b == ShiftedDown(a, i, n)
<1>1. a \in Seq(Slots) /\ n \in Nat /\ n <= Len(a) /\ Len(a) <= c /\ c \in Nat
  BY DEF GroupOK, ArrayOf
<1>2. ob.cap = c /\ ob.len = n - 1 /\ ob.settings = object[g].settings
      /\ ob = [settings |-> ob.settings, cap |-> ob.cap, len |-> ob.len]
  BY DEF GroupOK
<1>3. ar[c] = b /\ c \in DOMAIN ar
  BY DEF GroupOK, ArrayOf
<1>4. MemberSet(g) = Guids(a, n) /\ i \in 1 .. n /\ a[i].guid = p
  BY MembersAre, IndexIs
<1> HIDE DEF a, n, c, i
<1>5. b \in Seq(Slots) /\ Len(b) = Len(a)
  <2>1. b = [j \in 1 .. Len(a) |-> IF j \in i .. (n - 1) THEN a[j + 1] ELSE a[j]]
    BY <1>1 DEF ShiftedDown
  <2>2. \A j \in 1 .. Len(a) : (IF j \in i .. (n - 1) THEN a[j + 1] ELSE a[j]) \in Slots
    BY <1>1, <1>4
  <2> HIDE DEF b
  <2>3. Len(a) \in Nat
    BY <1>1
  <2>4. b \in [1 .. Len(a) -> Slots]
    BY <2>1, <2>2
  <2> QED
    BY <2>3, <2>4
<1>6. /\ \A j \in 1 .. n - 1 : j < i => b[j] = a[j]
      /\ \A j \in 1 .. n - 1 : j >= i => b[j] = a[j + 1]
  BY <1>1, <1>4 DEF ShiftedDown
<1> HIDE DEF b
<1>7. GroupOK(ob, ar)
  BY <1>1, <1>2, <1>3, <1>4, <1>5 DEF GroupOK
<1>8. Guids(a, n) \ {p} \subseteq Guids(b, n - 1)
  <2> SUFFICES ASSUME NEW k \in 1 .. n, a[k].guid # p PROVE a[k].guid \in Guids(b, n - 1)
    BY DEF Guids
  <2>1. CASE k < i
    BY <1>1, <1>4, <1>6, <2>1 DEF Guids
  <2>2. CASE k > i
    <3>1. k - 1 \in 1 .. n - 1 /\ k - 1 >= i /\ (k - 1) + 1 = k
      BY <1>1, <1>4, <2>2
    <3>2. b[k - 1] = a[k]
      BY <1>6, <3>1
    <3> QED
      BY <3>1, <3>2 DEF Guids
  <2>3. k # i /\ k \in Nat /\ i \in Nat
    BY <1>1, <1>4
  <2> QED
    BY <2>1, <2>2, <2>3
<1>9. ASSUME OneSlotEach(a, n) PROVE Guids(b, n - 1) = Guids(a, n) \ {p} /\ OneSlotEach(b, n - 1)
  <2> DEFINE from(j) == IF j < i THEN j ELSE j + 1
  <2>1. ASSUME NEW j \in 1 .. n - 1 PROVE from(j) \in 1 .. n /\ from(j) # i /\ b[j] = a[from(j)]
    <3>1. from(j) \in 1 .. n /\ from(j) # i
      BY <1>1, <1>4
    <3>2. j < i \/ j >= i
      BY <1>1, <1>4
    <3>3. b[j] = a[from(j)]
      BY <1>6, <3>2
    <3> QED
      BY <3>1, <3>3
  <2>2. \A j, k \in 1 .. n - 1 : from(j) = from(k) => j = k
    BY <1>1, <1>4
  <2> HIDE DEF from
  <2>3. \A j \in 1 .. n - 1 : b[j].guid \in Guids(a, n) /\ b[j].guid # p
    BY <1>4, <1>9, <2>1 DEF Guids, OneSlotEach
  <2>4. OneSlotEach(b, n - 1)
    BY <1>9, <2>1, <2>2 DEF OneSlotEach
  <2> QED
    BY <1>8, <2>3, <2>4 DEF Guids
<1> QED
  BY <1>2, <1>3, <1>4, <1>7, <1>8, <1>9 DEF a, n, c

-----------------------------------------------------------------------------
(* Types.                                                                  *)

Invites == [inviter : Players, group : Nat]

InviteOps  == [kind : {"invite"}, inviter : Players, invited : Players, group : Nat]
CreateOps  == [kind : {"insertGroup"}, inviter : Players, invited : Players]
FounderOps == [kind : {"insertFounder"}, group : Nat, left : 0 .. 2, founders : Players \X Players]
JoinOps    == [kind : {"insertMember", "cacheMember"}, group : Nat, player : Players]
PartOps    == [kind : {"deleteMember", "uncacheMember"}, player : Players]
DisbandOps == [kind : {"deleteMembers", "deleteGroup", "uncacheGroup"}, group : Nat]
UpdateOps  == [kind : {"update", "cacheUpdate"}, group : Nat, leaving : Players \cup {Nobody}]
AskOps     == [kind : {"askCharacters"}, group : Nat]
OpStates   == {Idle} \cup InviteOps \cup CreateOps \cup FounderOps \cup JoinOps \cup PartOps
                \cup DisbandOps \cup UpdateOps \cup AskOps

\* Requests that work on a group of the cache.
OnGroup == {"deleteMembers", "deleteGroup", "uncacheGroup", "update", "cacheUpdate", "askCharacters"}

LEMMA OpParts ==
  ASSUME NEW o \in OpStates
  PROVE  /\ o.kind \in {"idle", "invite", "insertGroup", "insertFounder", "insertMember", "cacheMember",
                        "deleteMember", "uncacheMember"} \cup OnGroup
         /\ o.kind = "idle" <=> o = Idle
         /\ o.kind = "invite" => o \in InviteOps
         /\ o.kind = "insertGroup" => o \in CreateOps
         /\ o.kind = "insertFounder" => o \in FounderOps
         /\ o.kind \in {"insertMember", "cacheMember"} => o \in JoinOps
         /\ o.kind \in {"deleteMember", "uncacheMember"} => o \in PartOps
         /\ o.kind \in {"deleteMembers", "deleteGroup", "uncacheGroup"} => o \in DisbandOps
         /\ o.kind \in {"update", "cacheUpdate"} => o \in UpdateOps
         /\ o.kind = "askCharacters" => o \in AskOps
BY DEF OpStates, Idle, InviteOps, CreateOps, FounderOps, JoinOps, PartOps, DisbandOps, UpdateOps, AskOps, OnGroup

LEMMA OpKinds ==
  /\ Idle \in OpStates
  /\ InviteOps \cup CreateOps \cup FounderOps \cup JoinOps \cup PartOps
       \cup DisbandOps \cup UpdateOps \cup AskOps \subseteq OpStates
BY DEF OpStates

\* A step of a request changes its kind only.
LEMMA OpMoves ==
  /\ \A o \in FounderOps : o.left > 0 => [o EXCEPT !.left = @ - 1] \in FounderOps
  /\ \A o \in JoinOps : [o EXCEPT !.kind = "cacheMember"] \in JoinOps
  /\ \A o \in PartOps : [o EXCEPT !.kind = "uncacheMember"] \in PartOps
  /\ \A o \in DisbandOps : /\ [o EXCEPT !.kind = "deleteGroup"] \in DisbandOps
                           /\ [o EXCEPT !.kind = "uncacheGroup"] \in DisbandOps
  /\ \A o \in UpdateOps : [o EXCEPT !.kind = "cacheUpdate"] \in UpdateOps
BY DEF FounderOps, JoinOps, PartOps, DisbandOps, UpdateOps

DbShape ==
  /\ lastId \in Nat /\ failures \in Nat
  /\ memberOf \in [Players -> Nat] /\ \A p \in Players : memberOf[p] <= lastId
  /\ DOMAIN rows \subseteq 1 .. lastId
  /\ invites \in [Players -> Invites \cup {NoInvite}]
  /\ \A p \in Players : invites[p].group <= lastId

CacheShape ==
  /\ DOMAIN arrays = DOMAIN object /\ DOMAIN object \subseteq 1 .. lastId /\ cached \subseteq DOMAIN object
  /\ \A g \in DOMAIN object : GroupOK(object[g], arrays[g])
  /\ ptr \in [Players -> Pointers \cup {NoPtr}]
  /\ \A p \in Players : GroupIDByPlayer(p) <= lastId

OpShape(c) ==
  /\ op \in [Procs -> OpStates]
  /\ events \in Seq([player : Players, on : BOOLEAN])
  /\ op[c].kind \in {"invite", "insertMember", "cacheMember"} => op[c].group <= lastId
  /\ op[c].kind = "insertMember" => op[c].group # 0
  /\ op[c].kind = "cacheMember" => op[c].group # 0 /\ memberOf[op[c].player] = op[c].group
  /\ op[c].kind = "uncacheMember" => memberOf[op[c].player] = 0
  /\ op[c].kind \in OnGroup => op[c].group \in cached
  /\ op[c].kind = "insertFounder" =>
       /\ op[c].group = lastId /\ lastId \notin DOMAIN object /\ lastId # 0
       /\ \A p \in Players : memberOf[p] = lastId <=> \E i \in 1 .. 2 - op[c].left : p = op[c].founders[i]
       /\ op[c].left = 0 => op[c].founders[1] # op[c].founders[2]
       /\ lastId \in DOMAIN rows /\ rows[lastId] = NewSettings(op[c].founders[1])

Shape(c) == DbShape /\ CacheShape /\ OpShape(c)

\* Of every cached group the members MySQL has are in the slice.
Kept(c) ==
  \A g \in cached, p \in Players :
    memberOf[p] = g => p \in MemberSet(g) \/ (op[c].kind = "cacheMember" /\ op[c].player = p)

\* Until a statement fails: each member once; the group's row and its settings;
\* the pointers lead to the groups, both ways; nobody else is in the slice.
Single == \A g \in cached : OneSlotEach(ArrayOf(g), object[g].len)
Stored(c) ==
  \A g \in cached :
    /\ ~(op[c].kind = "uncacheGroup" /\ op[c].group = g) => g \in DOMAIN rows
    /\ ~(op[c].kind \in {"uncacheGroup", "update"} /\ op[c].group = g) => object[g].settings = rows[g]
Led == \A p \in Players : \A g : g \in cached /\ p \in MemberSet(g) <=> ptr[p] # NoPtr /\ ptr[p].group = g
Known(c) ==
  \A g \in cached : \A p \in MemberSet(g) :
    \/ memberOf[p] = g
    \/ op[c].kind = "uncacheMember" /\ op[c].player = p
    \/ op[c].kind \in {"deleteGroup", "uncacheGroup"} /\ op[c].group = g
NotYet(c) == op[c].kind = "cacheMember" => \A g \in cached : op[c].player \notin MemberSet(g)

Exact(c) == failures = 0 => Single /\ Stored(c) /\ Led /\ Known(c) /\ NotYet(c)

CacheInv(c) == Shape(c) /\ Kept(c) /\ Exact(c)

\* What a step that leaves the slices alone leaves alone.
SameLists ==
  /\ \A g : MemberSet(g)' = MemberSet(g)
  /\ \A g : OneSlotEach(ArrayOf(g), object[g].len)' <=> OneSlotEach(ArrayOf(g), object[g].len)

LEMMA ListsStay == UNCHANGED <<object, arrays>> => SameLists
BY DEF SameLists, MemberSet, Members, ArrayOf, OneSlotEach

LEMMA ShapeStays == UNCHANGED <<object, arrays, cached, ptr, lastId>> /\ CacheShape => CacheShape'
BY DEF CacheShape, GroupOK, GroupIDByPlayer

LEMMA SameSingleLed ==
  ASSUME SameLists, UNCHANGED <<cached, ptr>>
  PROVE  (Single <=> Single') /\ (Led <=> Led')
BY DEF SameLists, Single, Led

LEMMA InitKeeps ==
  ASSUME NEW c, Procs = {c}, Init
  PROVE  CacheInv(c)
<1>1. op \in [Procs -> OpStates] /\ op[c].kind = "idle"
  BY OpKinds DEF Init, Idle
<1>2. DOMAIN rows = {} /\ DOMAIN object = {} /\ DOMAIN arrays = {} /\ cached = {}
  BY DEF Init
<1>3. events \in Seq([player : Players, on : BOOLEAN])
  BY DEF Init
<1>4. DbShape
  BY <1>2 DEF Init, DbShape, NoInvite
<1>5. CacheShape
  BY <1>2 DEF Init, CacheShape, GroupIDByPlayer
<1>6. OpShape(c)
  BY <1>1, <1>3 DEF OpShape, OnGroup
<1>7. \A p \in Players : ptr[p] = NoPtr
  BY DEF Init
<1> QED
  BY <1>1, <1>2, <1>4, <1>5, <1>6, <1>7 DEF CacheInv, Shape, Kept, Exact, Single, Stored, Led, Known, NotYet

-----------------------------------------------------------------------------
(* Requests.                                                               *)

\* A request that has only been checked.
Begun(o) ==
  /\ o \in OpStates
  /\ o.kind \in {"invite", "insertGroup", "insertMember", "deleteMembers", "deleteMember", "askCharacters"}
  /\ o.kind \in {"invite", "insertMember"} => o.group <= lastId
  /\ o.kind = "insertMember" => o.group # 0
  /\ o.kind \in {"deleteMembers", "askCharacters"} => o.group \in cached

LEMMA BeginKeeps ==
  ASSUME NEW c, Procs = {c}, CacheInv(c), NEW o, Begun(o), op[c] = Idle,
         op' = [op EXCEPT ![c] = o], UNCHANGED <<dbVars, cacheVars, events, failures>>
  PROVE  CacheInv(c)'
<1> USE DEF dbVars, cacheVars
<1>1. op[c].kind = "idle" /\ op'[c] = o
  BY DEF Idle, CacheInv, Shape, OpShape
<1>2. SameLists
  BY ListsStay
<1>3. CacheShape' /\ DbShape'
  BY ShapeStays DEF CacheInv, Shape, DbShape
<1>4. OpShape(c)'
  BY <1>1 DEF CacheInv, Shape, OpShape, Begun, OnGroup
<1>5. Kept(c)'
  BY <1>1, <1>2 DEF CacheInv, Kept, SameLists
<1>6. Exact(c)'
  <2> SUFFICES ASSUME failures = 0 PROVE (Single /\ Stored(c) /\ Led /\ Known(c) /\ NotYet(c))'
    BY DEF Exact
  <2>1. Single' /\ Led'
    BY <1>2, SameSingleLed DEF CacheInv, Exact
  <2>2. Stored(c)'
    BY <1>1 DEF CacheInv, Exact, Stored, Begun
  <2>3. Known(c)' /\ NotYet(c)'
    BY <1>1, <1>2 DEF CacheInv, Exact, Known, NotYet, Begun, SameLists
  <2> QED
    BY <2>1, <2>2, <2>3
<1> QED
  BY <1>3, <1>4, <1>5, <1>6 DEF CacheInv, Shape

\* A setting changes in the object, and the request goes on to Update.
LEMMA SetKeeps ==
  ASSUME NEW c, Procs = {c}, CacheInv(c), op[c].kind \in {"idle", "askCharacters"},
         NEW g \in cached, NEW field, NEW value, Set(g, field, value),
         NEW leaving \in Players \cup {Nobody},
         op' = [op EXCEPT ![c] = [kind |-> "update", group |-> g, leaving |-> leaving]],
         UNCHANGED <<dbVars, cached, arrays, ptr, events, failures>>
  PROVE  CacheInv(c)'
<1> USE DEF dbVars
<1> DEFINE o == [kind |-> "update", group |-> g, leaving |-> leaving]
<1>1. op'[c] = o /\ o \in OpStates /\ o.kind = "update" /\ o.group = g /\ op' \in [Procs -> OpStates]
  <2>1. g \in Nat
    BY DEF CacheInv, Shape, CacheShape, DbShape
  <2>2. o \in UpdateOps
    BY <2>1 DEF UpdateOps
  <2>3. o \in OpStates
    BY <2>2, OpKinds
  <2> QED
    BY <2>3 DEF CacheInv, Shape, OpShape
<1> HIDE DEF o
<1>2. /\ DOMAIN object' = DOMAIN object
      /\ \A h \in DOMAIN object : /\ object'[h].cap = object[h].cap /\ object'[h].len = object[h].len
                                  /\ h # g => object'[h] = object[h]
                                  /\ GroupOK(object'[h], arrays[h])
  <2>1. g \in DOMAIN object /\ GroupOK(object[g], arrays[g])
    BY DEF CacheInv, Shape, CacheShape
  <2>2. object' = [object EXCEPT ![g] = [object[g] EXCEPT !.settings = [object[g].settings EXCEPT ![field] = value]]]
    BY DEF Set
  <2>3. GroupOK(object'[g], arrays[g]) /\ object'[g].cap = object[g].cap /\ object'[g].len = object[g].len
    BY <2>1, <2>2 DEF GroupOK
  <2> QED
    BY <2>1, <2>2, <2>3 DEF CacheInv, Shape, CacheShape
<1>3. CacheShape'
  BY <1>2 DEF CacheInv, Shape, CacheShape, GroupIDByPlayer
<1>4. \A h \in cached : /\ MemberSet(h)' = MemberSet(h)
                        /\ ArrayOf(h)' = ArrayOf(h) /\ object'[h].len = object[h].len
  <2> SUFFICES ASSUME NEW h \in cached
               PROVE  MemberSet(h)' = MemberSet(h) /\ ArrayOf(h)' = ArrayOf(h) /\ object'[h].len = object[h].len
    OBVIOUS
  <2>1. object'[h].cap = object[h].cap /\ object'[h].len = object[h].len /\ arrays' = arrays
    BY <1>2 DEF CacheInv, Shape, CacheShape
  <2>2. Members(h)' = Members(h) /\ ArrayOf(h)' = ArrayOf(h)
    BY <2>1 DEF Members, ArrayOf
  <2> QED
    BY <2>1, <2>2 DEF MemberSet
<1>5. DbShape' /\ OpShape(c)'
  BY <1>1, <1>2 DEF CacheInv, Shape, DbShape, OpShape, OnGroup
<1>6. Kept(c)'
  BY <1>1, <1>4 DEF CacheInv, Kept
<1>7. Exact(c)'
  <2> SUFFICES ASSUME failures = 0 PROVE (Single /\ Stored(c) /\ Led /\ Known(c) /\ NotYet(c))'
    BY DEF Exact
  <2>1. Single'
    BY <1>4 DEF CacheInv, Exact, Single, OneSlotEach
  <2>2. Stored(c)'
    <3>1. cached \subseteq DOMAIN object
      BY DEF CacheInv, Shape, CacheShape
    <3> QED
      BY <1>1, <1>2, <3>1 DEF CacheInv, Exact, Stored
  <2>3. Led'
    BY <1>4 DEF CacheInv, Exact, Led
  <2>4. Known(c)' /\ NotYet(c)'
    BY <1>1, <1>4 DEF CacheInv, Exact, Known, NotYet
  <2> QED
    BY <2>1, <2>2, <2>3, <2>4
<1> QED
  BY <1>3, <1>5, <1>6, <1>7 DEF CacheInv, Shape

LEMMA PointerGroups ==
  ASSUME CacheShape, NEW p \in Players
  PROVE  /\ GroupIDByPlayer(p) \in Nat
         /\ ptr[p] # NoPtr <=> GroupIDByPlayer(p) # 0
         /\ ptr[p] # NoPtr => ptr[p] \in Pointers /\ GroupIDByPlayer(p) = ptr[p].group
BY DEF CacheShape, GroupIDByPlayer, Pointers

LEMMA StartKeeps ==
  ASSUME NEW c, Procs = {c}, CacheInv(c), NEW o, Begun(o), Start(c, o),
         UNCHANGED <<dbVars, cacheVars, events>>
  PROVE  CacheInv(c)'
<1>1. op[c] = Idle /\ op' = [op EXCEPT ![c] = o] /\ UNCHANGED failures
  BY DEF Start
<1> QED
  BY <1>1, BeginKeeps DEF dbVars, cacheVars

LEMMA CachedGroups ==
  ASSUME DbShape, CacheShape, NEW g \in cached
  PROVE  g \in Nat /\ g # 0 /\ g <= lastId /\ g \in DOMAIN object /\ GroupOK(object[g], arrays[g])
BY DEF DbShape, CacheShape

LEMMA RemoveIsBegun ==
  ASSUME DbShape, CacheShape, NEW g \in cached, NEW p \in Players
  PROVE  Begun(RemoveOrDisband(g, p))
<1>1. g \in Nat
  BY CachedGroups
<1>2. [kind |-> "deleteMembers", group |-> g] \in DisbandOps /\ [kind |-> "deleteMember", player |-> p] \in PartOps
  BY <1>1 DEF DisbandOps, PartOps
<1> QED
  BY <1>2, OpKinds DEF RemoveOrDisband, Begun

LEMMA UpdateRequestKeeps ==
  ASSUME NEW c, Procs = {c}, CacheInv(c), NEW g \in cached, NEW field, NEW value,
         UpdateRequest(c, g, field, value)
  PROVE  CacheInv(c)'
<1>1. /\ Set(g, field, value)
      /\ op[c].kind = "idle"
      /\ op' = [op EXCEPT ![c] = [kind |-> "update", group |-> g, leaving |-> Nobody]]
      /\ UNCHANGED <<dbVars, cached, arrays, ptr, events, failures>>
  BY DEF UpdateRequest, Start, Idle
<1> QED
  BY <1>1, SetKeeps

LEMMA RequestKeeps ==
  ASSUME NEW c, Procs = {c}, CacheInv(c), Request(c)
  PROVE  CacheInv(c)'
<1>0. DbShape /\ CacheShape /\ op[c] \in OpStates
  BY DEF CacheInv, Shape, OpShape
<1>1. ASSUME NEW p \in Players, AcceptInvite(c, p) PROVE CacheInv(c)'
  <2>1. invites[p] \in Invites /\ invites[p].group <= lastId
    BY <1>0, <1>1 DEF AcceptInvite, DbShape
  <2>2. CASE invites[p].group = 0
    <3> DEFINE o == [kind |-> "insertGroup", inviter |-> invites[p].inviter, invited |-> p]
    <3>1. o \in CreateOps
      BY <2>1 DEF Invites, CreateOps
    <3>2. Begun(o)
      BY <3>1, OpKinds DEF Begun
    <3>3. Start(c, o) /\ UNCHANGED <<dbVars, cacheVars, events>>
      BY <1>1, <2>2 DEF AcceptInvite, Quietly
    <3> QED
      BY <3>2, <3>3, StartKeeps
  <2>3. CASE invites[p].group # 0
    <3> DEFINE o == [kind |-> "insertMember", group |-> invites[p].group, player |-> p]
    <3>1. o \in JoinOps
      BY <2>1 DEF Invites, JoinOps
    <3>2. Begun(o)
      BY <2>1, <2>3, <3>1, OpKinds DEF Begun
    <3>3. Start(c, o) /\ UNCHANGED <<dbVars, cacheVars, events>>
      BY <1>1, <2>3 DEF AcceptInvite, Quietly
    <3> QED
      BY <3>2, <3>3, StartKeeps
  <2> QED
    BY <2>2, <2>3
<1>2. ASSUME NEW p \in Players, Leave(c, p) PROVE CacheInv(c)'
  <2> DEFINE g == GroupIDByPlayer(p)
  <2>1. g \in cached
    BY <1>2 DEF Leave
  <2> HIDE DEF g
  <2>2. CASE object[g].len > 2 /\ object[g].settings.leader = p
    <3>1. /\ Set(g, "leader", Successor(g, p))
          /\ op[c].kind = "idle"
          /\ op' = [op EXCEPT ![c] = [kind |-> "update", group |-> g, leaving |-> p]]
          /\ UNCHANGED <<dbVars, cached, arrays, ptr, events, failures>>
      BY <1>2, <2>2 DEF Leave, Start, Idle, g
    <3> QED
      BY <2>1, <3>1, SetKeeps
  <2>3. CASE ~(object[g].len > 2 /\ object[g].settings.leader = p)
    <3>1. Start(c, RemoveOrDisband(g, p)) /\ UNCHANGED <<dbVars, cacheVars, events>>
      BY <1>2, <2>3 DEF Leave, g, cacheVars
    <3> QED
      BY <1>0, <2>1, <3>1, RemoveIsBegun, StartKeeps
  <2> QED
    BY <2>2, <2>3
<1>3. ASSUME NEW p \in Players, NEW q \in Players, Invite(c, p, q) PROVE CacheInv(c)'
  <2> DEFINE g == GroupIDByPlayer(p)
             o == [kind |-> "invite", inviter |-> p, invited |-> q, group |-> g]
  <2>1. g \in Nat /\ g <= lastId
    BY <1>0, PointerGroups DEF CacheShape
  <2>2. Start(c, o) /\ UNCHANGED <<dbVars, cacheVars, events>>
    BY <1>3 DEF Invite, Quietly
  <2> HIDE DEF g
  <2>3. o \in InviteOps
    BY <2>1 DEF InviteOps
  <2>4. Begun(o)
    BY <2>1, <2>3, OpKinds DEF Begun
  <2> QED
    BY <2>2, <2>4, StartKeeps
<1>4. ASSUME NEW p \in Players, NEW q \in Players, Uninvite(c, p, q) PROVE CacheInv(c)'
  <2>1. PICK g \in cached : Start(c, RemoveOrDisband(g, q)) /\ UNCHANGED <<dbVars, cacheVars, events>>
    BY <1>4 DEF Uninvite, Quietly
  <2> QED
    BY <1>0, <2>1, RemoveIsBegun, StartKeeps
<1>5. ASSUME NEW p \in Players, SetDifficulty(c, p) PROVE CacheInv(c)'
  <2>1. PICK g \in cached : Start(c, [kind |-> "askCharacters", group |-> g])
    BY <1>5 DEF SetDifficulty, LeadsGroup
  <2>2. UNCHANGED <<dbVars, cacheVars, events>>
    BY <1>5 DEF SetDifficulty, Quietly
  <2>3. [kind |-> "askCharacters", group |-> g] \in AskOps
    BY <1>0, <2>1, CachedGroups DEF AskOps
  <2>4. Begun([kind |-> "askCharacters", group |-> g])
    BY <2>1, <2>3, OpKinds DEF Begun
  <2> QED
    BY <2>1, <2>2, <2>4, StartKeeps
<1>6. ASSUME NEW p \in Players, NEW q \in Players, ChangeLeader(c, p, q) PROVE CacheInv(c)'
  BY <1>6, UpdateRequestKeeps DEF ChangeLeader, LeadsGroup
<1>7. ASSUME NEW p \in Players, ConvertToRaid(c, p) PROVE CacheInv(c)'
  BY <1>7, UpdateRequestKeeps DEF ConvertToRaid, LeadsGroup
<1>8. ASSUME NEW p \in Players, SetLootMethod(c, p) PROVE CacheInv(c)'
  BY <1>8, UpdateRequestKeeps DEF SetLootMethod, LeadsGroup
<1>9. ASSUME NEW p \in Players, NEW i \in Icons, NEW t \in Targets \cup {Nobody}, SetTargetIcon(c, p, i, t)
      PROVE  CacheInv(c)'
  BY <1>9, UpdateRequestKeeps DEF SetTargetIcon
<1> QED
  BY <1>1, <1>2, <1>3, <1>4, <1>5, <1>6, <1>7, <1>8, <1>9 DEF Request

-----------------------------------------------------------------------------
(* Statements: MySQL and the request change, the cache does not.           *)

\* What has to be shown of a statement once the cache is known to stay.
LEMMA StatementKeeps ==
  ASSUME NEW c, Procs = {c}, CacheInv(c), UNCHANGED cacheVars, failures' = failures,
         DbShape', OpShape(c)', lastId <= lastId', Kept(c)',
         failures = 0 => Stored(c)' /\ Known(c)' /\ NotYet(c)'
  PROVE  CacheInv(c)'
<1> USE DEF cacheVars
<1>1. SameLists
  BY ListsStay
<1>2. CacheShape'
  <2>1. lastId \in Nat /\ lastId' \in Nat /\ CacheShape
    BY DEF CacheInv, Shape, DbShape
  <2>2. 1 .. lastId \subseteq 1 .. lastId'
    BY <2>1
  <2>3. \A p \in Players : GroupIDByPlayer(p)' = GroupIDByPlayer(p) /\ GroupIDByPlayer(p) \in Nat
    BY <2>1, PointerGroups DEF GroupIDByPlayer
  <2>4. \A p \in Players : GroupIDByPlayer(p)' <= lastId'
    BY <2>1, <2>3 DEF CacheShape
  <2> QED
    BY <2>1, <2>2, <2>4 DEF CacheShape, GroupOK
<1>3. failures = 0 => Single' /\ Led'
  BY <1>1, SameSingleLed DEF CacheInv, Exact
<1> QED
  BY <1>2, <1>3 DEF CacheInv, Shape, Exact

LEMMA Continued ==
  ASSUME NEW c, Procs = {c}, CacheInv(c), NEW o \in OpStates, Continue(c, o)
  PROVE  op' \in [Procs -> OpStates] /\ op'[c] = o
BY DEF CacheInv, Shape, OpShape, Continue

LEMMA Finished ==
  ASSUME NEW c, Procs = {c}, CacheInv(c), Finish(c)
  PROVE  op' \in [Procs -> OpStates] /\ op'[c] = Idle /\ op'[c].kind = "idle"
BY Continued, OpKinds DEF Finish, Idle

LEMMA WriteInviteKeeps ==
  ASSUME NEW c, Procs = {c}, CacheInv(c), WriteInvite(c)
  PROVE  CacheInv(c)'
<1>1. /\ op[c].kind = "invite" /\ op[c] \in InviteOps /\ op[c].group <= lastId
      /\ UNCHANGED <<rows, memberOf, lastId, cacheVars, events, failures>>
  BY OpParts DEF WriteInvite, At, boundVars, CacheInv, Shape, OpShape
<1>2. op' \in [Procs -> OpStates] /\ op'[c].kind = "idle"
  BY Finished DEF WriteInvite
<1>3. DbShape'
  <2> DEFINE v == [inviter |-> op[c].inviter, group |-> op[c].group]
  <2>1. v \in Invites /\ v.group <= lastId
    BY <1>1 DEF Invites, InviteOps
  <2>2. invites' = [invites EXCEPT ![op[c].invited] = v]
    BY DEF WriteInvite
  <2> HIDE DEF v
  <2> QED
    BY <1>1, <2>1, <2>2 DEF CacheInv, Shape, DbShape
<1>4. OpShape(c)'
  BY <1>1, <1>2 DEF CacheInv, Shape, OpShape, OnGroup
<1>5. SameLists
  BY <1>1, ListsStay DEF cacheVars
<1>6. Kept(c)'
  BY <1>1, <1>2, <1>5 DEF CacheInv, Kept, SameLists, cacheVars
<1>7. failures = 0 => Stored(c)' /\ Known(c)' /\ NotYet(c)'
  BY <1>1, <1>2, <1>5 DEF CacheInv, Exact, Stored, Known, NotYet, SameLists, cacheVars
<1>8. lastId <= lastId'
  BY <1>1 DEF CacheInv, Shape, DbShape
<1> QED
  BY <1>1, <1>3, <1>4, <1>6, <1>7, <1>8, StatementKeeps

LEMMA InsertGroupKeeps ==
  ASSUME NEW c, Procs = {c}, CacheInv(c), InsertGroup(c)
  PROVE  CacheInv(c)'
<1> DEFINE o == [kind |-> "insertFounder", group |-> lastId + 1, left |-> 2,
                 founders |-> <<op[c].inviter, op[c].invited>>]
<1>1. /\ op[c].kind = "insertGroup" /\ op[c] \in CreateOps
      /\ UNCHANGED <<memberOf, invites, cacheVars, events, failures>>
      /\ lastId' = lastId + 1 /\ Continue(c, o)
      /\ rows' = With(rows, lastId + 1, NewSettings(op[c].inviter))
  BY OpParts DEF InsertGroup, At, boundVars, CacheInv, Shape, OpShape
<1>2. lastId \in Nat /\ DbShape /\ CacheShape
  BY DEF CacheInv, Shape, DbShape
<1>3. o \in FounderOps
  BY <1>1, <1>2 DEF CreateOps, FounderOps
<1>4. op' \in [Procs -> OpStates] /\ op'[c] = o
  BY <1>1, <1>3, OpKinds, Continued
<1>5. DbShape'
  <2>1. DOMAIN rows' = DOMAIN rows \cup {lastId + 1}
    BY <1>1 DEF With
  <2>2. \A p \in Players : invites[p].group \in Nat
    BY <1>2 DEF DbShape, Invites, NoInvite
  <2> QED
    BY <1>1, <1>2, <2>1, <2>2 DEF DbShape
<1>6. OpShape(c)'
  <2>1. lastId' \notin DOMAIN object /\ lastId' # 0
    BY <1>1, <1>2 DEF CacheShape
  <2>2. \A p \in Players : memberOf'[p] # lastId'
    BY <1>1, <1>2 DEF DbShape
  <2>3. 1 .. 2 - o.left = {}
    OBVIOUS
  <2>4. o.kind = "insertFounder" /\ o.group = lastId' /\ o.left = 2
    BY <1>1
  <2>6. lastId' \in DOMAIN rows' /\ rows'[lastId'] = NewSettings(o.founders[1])
    BY <1>1 DEF With
  <2>5. DOMAIN object' = DOMAIN object /\ events' \in Seq([player : Players, on : BOOLEAN])
    BY <1>1 DEF cacheVars, CacheInv, Shape, OpShape
  <2> HIDE DEF o
  <2> QED
    BY <1>4, <2>1, <2>2, <2>3, <2>4, <2>5, <2>6 DEF OpShape, OnGroup
<1>7. SameLists
  BY <1>1, ListsStay DEF cacheVars
<1>8. Kept(c)'
  BY <1>1, <1>4, <1>7 DEF CacheInv, Kept, SameLists, cacheVars
<1>9. failures = 0 => Stored(c)' /\ Known(c)' /\ NotYet(c)'
  <2> SUFFICES ASSUME failures = 0 PROVE Stored(c)' /\ Known(c)' /\ NotYet(c)'
    OBVIOUS
  <2>1. \A g \in cached : g # lastId + 1
    BY <1>2, CachedGroups
  <2>2. \A g \in DOMAIN rows : g # lastId + 1 => g \in DOMAIN rows' /\ rows'[g] = rows[g]
    BY <1>1 DEF With
  <2>3. Stored(c)'
    BY <1>1, <1>4, <2>1, <2>2 DEF CacheInv, Exact, Stored, cacheVars
  <2> QED
    BY <1>1, <1>4, <1>7, <2>3 DEF CacheInv, Exact, Known, NotYet, SameLists, cacheVars
<1>10. lastId <= lastId'
  BY <1>1, <1>2
<1> QED
  BY <1>1, <1>5, <1>6, <1>8, <1>9, <1>10, StatementKeeps

LEMMA InsertFounderKeeps ==
  ASSUME NEW c, Procs = {c}, CacheInv(c), InsertFounder(c)
  PROVE  CacheInv(c)'
<1> DEFINE l == op[c].left
           f == op[c].founders
           p == f[3 - l]
<1>1. /\ op[c].kind = "insertFounder" /\ op[c] \in FounderOps /\ l > 0
      /\ UNCHANGED <<rows, invites, lastId, cacheVars, events, failures>>
      /\ IF memberOf[p] = 0
         THEN /\ memberOf' = [memberOf EXCEPT ![p] = op[c].group]
              /\ Continue(c, [op[c] EXCEPT !.left = @ - 1])
         ELSE Finish(c) /\ UNCHANGED memberOf
  BY OpParts DEF InsertFounder, At, boundVars, CacheInv, Shape, OpShape
<1>2. /\ op[c].group = lastId /\ lastId \notin DOMAIN object /\ lastId # 0
      /\ \A q \in Players : memberOf[q] = lastId <=> \E i \in 1 .. 2 - l : q = f[i]
      /\ lastId \in Nat /\ DbShape /\ CacheShape /\ cached \subseteq DOMAIN object
      /\ lastId \in DOMAIN rows /\ rows[lastId] = NewSettings(f[1])
      /\ events \in Seq([player : Players, on : BOOLEAN])
  BY <1>1 DEF CacheInv, Shape, DbShape, CacheShape, OpShape
<1>3. l \in {1, 2} /\ f[1] \in Players /\ f[2] \in Players /\ p \in Players
  BY <1>1 DEF FounderOps
<1>4. SameLists /\ lastId <= lastId'
  BY <1>1, <1>2, ListsStay DEF cacheVars
<1>5. CASE memberOf[p] = 0
  <2> DEFINE o == [op[c] EXCEPT !.left = @ - 1]
  <2>1. o \in FounderOps /\ o.kind = "insertFounder" /\ o.group = lastId /\ o.left = l - 1 /\ o.founders = f
    BY <1>1, <1>2, <1>3 DEF FounderOps
  <2>2. op' \in [Procs -> OpStates] /\ op'[c] = o /\ memberOf' = [memberOf EXCEPT ![p] = lastId]
    BY <1>1, <1>2, <1>5, <2>1, OpKinds, Continued
  <2> HIDE DEF o, l, f
  <2>3. DbShape'
    BY <1>1, <1>2, <1>3, <2>2 DEF DbShape
  <2>4. \A q \in Players : memberOf'[q] = lastId <=> memberOf[q] = lastId \/ q = p
    BY <1>2, <1>3, <2>2 DEF DbShape
  <2>5. \A q \in Players : (\E i \in 1 .. 2 - (l - 1) : q = f[i]) <=> (\E i \in 1 .. 2 - l : q = f[i]) \/ q = p
    <3>1. CASE l = 2
      BY <3>1
    <3>2. CASE l = 1
      BY <3>2
    <3> QED
      BY <1>3, <3>1, <3>2
  <2>6. l - 1 = 0 => f[1] # f[2]
    <3> SUFFICES ASSUME l = 1, f[1] = f[2] PROVE FALSE
      BY <1>3
    <3>1. p = f[2] /\ memberOf[f[2]] = 0
      BY <1>5
    <3>2. memberOf[f[1]] = lastId
      BY <1>2, <1>3
    <3> QED
      BY <1>2, <3>1, <3>2
  <2>7. OpShape(c)'
    BY <1>1, <1>2, <2>1, <2>2, <2>4, <2>5, <2>6 DEF OpShape, OnGroup, cacheVars
  <2>8. Kept(c)'
    BY <1>1, <1>2, <1>4, <2>1, <2>2, <2>4 DEF CacheInv, Kept, SameLists, cacheVars, DbShape
  <2>9. failures = 0 => Stored(c)' /\ Known(c)' /\ NotYet(c)'
    <3> SUFFICES ASSUME failures = 0 PROVE Stored(c)' /\ Known(c)' /\ NotYet(c)'
      OBVIOUS
    <3>1. Stored(c)' /\ NotYet(c)'
      BY <1>1, <2>1, <2>2 DEF CacheInv, Exact, Stored, NotYet, cacheVars
    <3>2. ASSUME NEW g \in cached, NEW q \in MemberSet(g) PROVE memberOf'[q] = g
      <4>1. q \in Players /\ g # 0
        BY <1>2, CachedGroups, MembersAre
      <4>2. memberOf[q] = g
        BY <1>1 DEF CacheInv, Exact, Known
      <4>3. q # p
        BY <1>5, <4>1, <4>2
      <4> QED
        BY <2>2, <4>1, <4>2, <4>3
    <3> QED
      BY <1>1, <1>4, <3>1, <3>2 DEF Known, SameLists, cacheVars
  <2> QED
    BY <1>1, <1>4, <2>3, <2>7, <2>8, <2>9, StatementKeeps
<1>6. CASE memberOf[p] # 0
  <2>1. op' \in [Procs -> OpStates] /\ op'[c].kind = "idle" /\ UNCHANGED memberOf
    BY <1>1, <1>6, Finished
  <2>2. DbShape' /\ OpShape(c)'
    BY <1>1, <1>2, <2>1 DEF DbShape, OpShape, OnGroup
  <2>3. Kept(c)'
    BY <1>1, <1>4, <2>1 DEF CacheInv, Kept, SameLists, cacheVars
  <2>4. failures = 0 => Stored(c)' /\ Known(c)' /\ NotYet(c)'
    BY <1>1, <1>4, <2>1 DEF CacheInv, Exact, Stored, Known, NotYet, SameLists, cacheVars
  <2> QED
    BY <1>1, <1>4, <2>2, <2>3, <2>4, StatementKeeps
<1> QED
  BY <1>5, <1>6

LEMMA InsertMemberKeeps ==
  ASSUME NEW c, Procs = {c}, CacheInv(c), InsertMember(c)
  PROVE  CacheInv(c)'
<1> DEFINE p == op[c].player
           h == op[c].group
<1>1. /\ op[c].kind = "insertMember" /\ op[c] \in JoinOps
      /\ UNCHANGED <<rows, invites, lastId, cacheVars, events, failures>>
      /\ IF memberOf[p] = 0
         THEN /\ memberOf' = [memberOf EXCEPT ![p] = h]
              /\ Continue(c, [op[c] EXCEPT !.kind = "cacheMember"])
         ELSE Finish(c) /\ UNCHANGED memberOf
  BY OpParts DEF InsertMember, At, boundVars, CacheInv, Shape, OpShape
<1>2. /\ h \in Nat /\ h <= lastId /\ h # 0 /\ p \in Players
      /\ lastId \in Nat /\ DbShape /\ CacheShape
      /\ events \in Seq([player : Players, on : BOOLEAN])
  BY <1>1 DEF CacheInv, Shape, DbShape, OpShape, JoinOps
<1>3. SameLists /\ lastId <= lastId'
  BY <1>1, <1>2, ListsStay DEF cacheVars
<1>4. CASE memberOf[p] = 0
  <2> DEFINE o == [op[c] EXCEPT !.kind = "cacheMember"]
  <2>1. o \in JoinOps /\ o.kind = "cacheMember" /\ o.group = h /\ o.player = p
    BY <1>1 DEF JoinOps
  <2>2. op' \in [Procs -> OpStates] /\ op'[c] = o /\ memberOf' = [memberOf EXCEPT ![p] = h]
    BY <1>1, <1>4, <2>1, OpKinds, Continued
  <2> HIDE DEF o, p, h
  <2>3. DbShape'
    BY <1>1, <1>2, <2>2 DEF DbShape
  <2>4. OpShape(c)'
    BY <1>1, <1>2, <2>1, <2>2 DEF OpShape, OnGroup, DbShape
  <2>5. Kept(c)'
    BY <1>1, <1>2, <1>3, <2>1, <2>2 DEF CacheInv, Kept, SameLists, cacheVars, DbShape
  <2>6. failures = 0 => Stored(c)' /\ Known(c)' /\ NotYet(c)'
    <3> SUFFICES ASSUME failures = 0 PROVE Stored(c)' /\ Known(c)' /\ NotYet(c)'
      OBVIOUS
    <3>1. Stored(c)'
      BY <1>1, <2>1, <2>2 DEF CacheInv, Exact, Stored, cacheVars
    <3>2. ASSUME NEW g \in cached, NEW q \in MemberSet(g) PROVE q # p /\ memberOf'[q] = g
      <4>1. q \in Players /\ g # 0
        BY <1>2, CachedGroups, MembersAre
      <4>2. memberOf[q] = g
        BY <1>1 DEF CacheInv, Exact, Known
      <4>3. q # p
        BY <1>4, <4>1, <4>2 DEF p
      <4> QED
        BY <1>2, <2>2, <4>1, <4>2, <4>3 DEF DbShape
    <3> QED
      BY <1>1, <1>3, <2>1, <2>2, <3>1, <3>2 DEF Known, NotYet, SameLists, cacheVars
  <2> QED
    BY <1>1, <1>3, <2>3, <2>4, <2>5, <2>6, StatementKeeps
<1>5. CASE memberOf[p] # 0
  <2>1. op' \in [Procs -> OpStates] /\ op'[c].kind = "idle" /\ UNCHANGED memberOf
    BY <1>1, <1>5, Finished
  <2>2. DbShape' /\ OpShape(c)'
    BY <1>1, <1>2, <2>1 DEF DbShape, OpShape, OnGroup
  <2>3. Kept(c)'
    BY <1>1, <1>3, <2>1 DEF CacheInv, Kept, SameLists, cacheVars
  <2>4. failures = 0 => Stored(c)' /\ Known(c)' /\ NotYet(c)'
    BY <1>1, <1>3, <2>1 DEF CacheInv, Exact, Stored, Known, NotYet, SameLists, cacheVars
  <2> QED
    BY <1>1, <1>3, <2>2, <2>3, <2>4, StatementKeeps
<1> QED
  BY <1>4, <1>5

LEMMA DeleteMemberKeeps ==
  ASSUME NEW c, Procs = {c}, CacheInv(c), DeleteMember(c)
  PROVE  CacheInv(c)'
<1> DEFINE p == op[c].player
           o == [op[c] EXCEPT !.kind = "uncacheMember"]
<1>1. /\ op[c].kind = "deleteMember" /\ op[c] \in PartOps
      /\ UNCHANGED <<rows, invites, lastId, cacheVars, events, failures>>
      /\ memberOf' = [memberOf EXCEPT ![p] = 0] /\ Continue(c, o)
  BY OpParts DEF DeleteMember, At, boundVars, CacheInv, Shape, OpShape
<1>2. /\ p \in Players /\ lastId \in Nat /\ DbShape /\ CacheShape
      /\ events \in Seq([player : Players, on : BOOLEAN])
  BY <1>1 DEF CacheInv, Shape, DbShape, OpShape, PartOps
<1>3. SameLists /\ lastId <= lastId'
  BY <1>1, <1>2, ListsStay DEF cacheVars
<1>4. o \in PartOps /\ o.kind = "uncacheMember" /\ o.player = p
  BY <1>1 DEF PartOps
<1>5. op' \in [Procs -> OpStates] /\ op'[c] = o
  BY <1>1, <1>4, OpKinds, Continued
<1> HIDE DEF o, p
<1>6. \A q \in Players : memberOf'[q] = IF q = p THEN 0 ELSE memberOf[q]
  BY <1>1, <1>2 DEF DbShape
<1>7. DbShape' /\ OpShape(c)'
  BY <1>1, <1>2, <1>4, <1>5, <1>6 DEF DbShape, OpShape, OnGroup
<1>8. \A g \in cached : g # 0 /\ MemberSet(g) \subseteq Players
  BY <1>2, CachedGroups, MembersAre
<1>9. Kept(c)'
  BY <1>1, <1>3, <1>4, <1>5, <1>6, <1>8 DEF CacheInv, Kept, SameLists, cacheVars
<1>10. failures = 0 => Stored(c)' /\ Known(c)' /\ NotYet(c)'
  BY <1>1, <1>3, <1>4, <1>5, <1>6, <1>8 DEF CacheInv, Exact, Stored, Known, NotYet, SameLists, cacheVars
<1> QED
  BY <1>1, <1>3, <1>7, <1>9, <1>10, StatementKeeps

LEMMA DeleteMembersKeeps ==
  ASSUME NEW c, Procs = {c}, CacheInv(c), DeleteMembers(c)
  PROVE  CacheInv(c)'
<1> DEFINE h == op[c].group
           o == [op[c] EXCEPT !.kind = "deleteGroup"]
<1>1. /\ op[c].kind = "deleteMembers" /\ op[c] \in DisbandOps
      /\ UNCHANGED <<rows, invites, lastId, cacheVars, events, failures>>
      /\ memberOf' = [p \in Players |-> IF memberOf[p] = h THEN 0 ELSE memberOf[p]] /\ Continue(c, o)
  BY OpParts DEF DeleteMembers, At, boundVars, CacheInv, Shape, OpShape
<1>2. /\ h \in cached /\ lastId \in Nat /\ DbShape /\ CacheShape
      /\ events \in Seq([player : Players, on : BOOLEAN])
  BY <1>1 DEF CacheInv, Shape, DbShape, OpShape, OnGroup
<1>3. SameLists /\ lastId <= lastId'
  BY <1>1, <1>2, ListsStay DEF cacheVars
<1>4. o \in DisbandOps /\ o.kind = "deleteGroup" /\ o.group = h
  BY <1>1 DEF DisbandOps
<1>5. op' \in [Procs -> OpStates] /\ op'[c] = o
  BY <1>1, <1>4, OpKinds, Continued
<1> HIDE DEF o, h
<1>6. DbShape' /\ OpShape(c)'
  BY <1>1, <1>2, <1>4, <1>5 DEF DbShape, OpShape, OnGroup, cacheVars
<1>7. \A g \in cached : g # 0 /\ MemberSet(g) \subseteq Players
  BY <1>2, CachedGroups, MembersAre
<1>8. Kept(c)'
  BY <1>1, <1>3, <1>4, <1>5, <1>7 DEF CacheInv, Kept, SameLists, cacheVars
<1>9. failures = 0 => Stored(c)' /\ Known(c)' /\ NotYet(c)'
  BY <1>1, <1>3, <1>4, <1>5, <1>7 DEF CacheInv, Exact, Stored, Known, NotYet, SameLists, cacheVars
<1> QED
  BY <1>1, <1>3, <1>6, <1>8, <1>9, StatementKeeps

LEMMA DeleteGroupKeeps ==
  ASSUME NEW c, Procs = {c}, CacheInv(c), DeleteGroup(c)
  PROVE  CacheInv(c)'
<1> DEFINE h == op[c].group
           o == [op[c] EXCEPT !.kind = "uncacheGroup"]
<1>1. /\ op[c].kind = "deleteGroup" /\ op[c] \in DisbandOps
      /\ UNCHANGED <<memberOf, invites, lastId, cacheVars, events, failures>>
      /\ rows' = [g \in DOMAIN rows \ {h} |-> rows[g]] /\ Continue(c, o)
  BY OpParts DEF DeleteGroup, At, boundVars, CacheInv, Shape, OpShape
<1>2. /\ h \in cached /\ lastId \in Nat /\ DbShape /\ CacheShape
      /\ events \in Seq([player : Players, on : BOOLEAN])
  BY <1>1 DEF CacheInv, Shape, DbShape, OpShape, OnGroup
<1>3. SameLists /\ lastId <= lastId'
  BY <1>1, <1>2, ListsStay DEF cacheVars
<1>4. o \in DisbandOps /\ o.kind = "uncacheGroup" /\ o.group = h
  BY <1>1 DEF DisbandOps
<1>5. op' \in [Procs -> OpStates] /\ op'[c] = o
  BY <1>1, <1>4, OpKinds, Continued
<1>d. op[c].group = h
  OBVIOUS
<1> HIDE DEF o, h
<1>6. DbShape' /\ OpShape(c)'
  BY <1>1, <1>2, <1>4, <1>5 DEF DbShape, OpShape, OnGroup, cacheVars
<1>7. Kept(c)'
  BY <1>1, <1>3, <1>4, <1>5 DEF CacheInv, Kept, SameLists, cacheVars
<1>8. failures = 0 => Stored(c)' /\ Known(c)' /\ NotYet(c)'
  BY <1>1, <1>3, <1>4, <1>5, <1>d DEF CacheInv, Exact, Stored, Known, NotYet, SameLists, cacheVars
<1> QED
  BY <1>1, <1>3, <1>6, <1>7, <1>8, StatementKeeps

LEMMA UpdateGroupKeeps ==
  ASSUME NEW c, Procs = {c}, CacheInv(c), UpdateGroup(c)
  PROVE  CacheInv(c)'
<1> DEFINE h == op[c].group
           o == [op[c] EXCEPT !.kind = "cacheUpdate"]
<1>1. /\ op[c].kind = "update" /\ op[c] \in UpdateOps
      /\ UNCHANGED <<memberOf, invites, lastId, cacheVars, events, failures>>
      /\ rows' = [g \in DOMAIN rows |-> IF g = h THEN object[h].settings ELSE rows[g]] /\ Continue(c, o)
  BY OpParts DEF UpdateGroup, At, boundVars, CacheInv, Shape, OpShape
<1>2. /\ h \in cached /\ lastId \in Nat /\ DbShape /\ CacheShape
      /\ events \in Seq([player : Players, on : BOOLEAN])
  BY <1>1 DEF CacheInv, Shape, DbShape, OpShape, OnGroup
<1>3. SameLists /\ lastId <= lastId'
  BY <1>1, <1>2, ListsStay DEF cacheVars
<1>4. o \in UpdateOps /\ o.kind = "cacheUpdate" /\ o.group = h
  BY <1>1 DEF UpdateOps
<1>5. op' \in [Procs -> OpStates] /\ op'[c] = o
  BY <1>1, <1>4, OpKinds, Continued
<1>d. op[c].group = h
  OBVIOUS
<1> HIDE DEF o, h
<1>6. DbShape' /\ OpShape(c)'
  BY <1>1, <1>2, <1>4, <1>5 DEF DbShape, OpShape, OnGroup, cacheVars
<1>7. Kept(c)'
  BY <1>1, <1>3, <1>4, <1>5 DEF CacheInv, Kept, SameLists, cacheVars
<1>8. failures = 0 => Stored(c)' /\ Known(c)' /\ NotYet(c)'
  BY <1>1, <1>3, <1>4, <1>5, <1>d DEF CacheInv, Exact, Stored, Known, NotYet, SameLists, cacheVars
<1> QED
  BY <1>1, <1>3, <1>6, <1>7, <1>8, StatementKeeps

LEMMA StatementFailsKeeps ==
  ASSUME NEW c, Procs = {c}, CacheInv(c), StatementFails(c)
  PROVE  CacheInv(c)'
<1>1. /\ op[c].kind \in Statements /\ failures' = failures + 1
      /\ UNCHANGED <<dbVars, cacheVars, events>>
  BY DEF StatementFails
<1>2. op' \in [Procs -> OpStates] /\ op'[c].kind = "idle"
  BY Finished DEF StatementFails
<1>3. failures' \in Nat /\ failures' # 0
  BY <1>1 DEF CacheInv, Shape, DbShape
<1>4. DbShape' /\ OpShape(c)' /\ CacheShape'
  BY <1>1, <1>2, <1>3, ShapeStays DEF CacheInv, Shape, DbShape, OpShape, OnGroup, dbVars, cacheVars
<1>5. SameLists
  BY <1>1, ListsStay DEF cacheVars
<1>6. Kept(c)'
  BY <1>1, <1>2, <1>5 DEF CacheInv, Kept, SameLists, dbVars, cacheVars, Statements
<1> QED
  BY <1>3, <1>4, <1>6 DEF CacheInv, Shape, Exact

-----------------------------------------------------------------------------
(* Steps of the cache.                                                     *)

LEMMA CacheUpdateKeeps ==
  ASSUME NEW c, Procs = {c}, CacheInv(c), CacheUpdate(c)
  PROVE  CacheInv(c)'
<1>1. /\ op[c].kind = "cacheUpdate" /\ op[c] \in UpdateOps /\ op[c].group \in cached
      /\ cached' = cached \cup {op[c].group}
      /\ UNCHANGED <<dbVars, object, arrays, ptr, events, failures>>
  BY OpParts DEF CacheUpdate, At, boundVars, CacheInv, Shape, OpShape, OnGroup
<1>2. UNCHANGED cacheVars
  BY <1>1 DEF cacheVars
<1>3. op' \in [Procs -> OpStates] /\ op'[c].kind \in {"idle", "deleteMember"}
  <2>1. CASE op[c].leaving = Nobody
    BY <2>1, Finished DEF CacheUpdate
  <2>2. CASE op[c].leaving # Nobody
    <3> DEFINE o == [kind |-> "deleteMember", player |-> op[c].leaving]
    <3>1. o \in PartOps
      BY <1>1, <2>2 DEF UpdateOps, PartOps
    <3>2. Continue(c, o)
      BY <2>2 DEF CacheUpdate
    <3> QED
      BY <3>1, <3>2, OpKinds, Continued
  <2> QED
    BY <2>1, <2>2
<1>4. SameLists /\ lastId <= lastId'
  BY <1>1, ListsStay DEF CacheInv, Shape, DbShape, dbVars
<1>5. DbShape' /\ OpShape(c)'
  BY <1>1, <1>3 DEF CacheInv, Shape, DbShape, OpShape, OnGroup, dbVars
<1>6. Kept(c)'
  BY <1>1, <1>2, <1>3, <1>4 DEF CacheInv, Kept, SameLists, cacheVars, dbVars
<1>7. failures = 0 => Stored(c)' /\ Known(c)' /\ NotYet(c)'
  BY <1>1, <1>2, <1>3, <1>4 DEF CacheInv, Exact, Stored, Known, NotYet, SameLists, cacheVars, dbVars
<1> QED
  BY <1>1, <1>2, <1>4, <1>5, <1>6, <1>7, StatementKeeps

\* MembersAre for the next state.
LEMMA MembersAreNext ==
  ASSUME NEW g, GroupOK(object'[g], arrays'[g])
  PROVE  /\ MemberSet(g)' = Guids(arrays'[g][object'[g].cap], object'[g].len)
         /\ ArrayOf(g)' = arrays'[g][object'[g].cap]
<1> DEFINE a == arrays'[g][object'[g].cap]
           n == object'[g].len
<1>1. a \in Seq(Slots) /\ n \in Nat /\ n <= Len(a)
  BY DEF GroupOK
<1>2. MemberSet(g)' = {SubSeq(a, 1, n)[i].guid : i \in 1 .. n} /\ ArrayOf(g)' = a
  BY DEF MemberSet, Members, ArrayOf
<1> HIDE DEF a, n
<1>3. \A i \in 1 .. n : SubSeq(a, 1, n)[i] = a[i]
  BY <1>1
<1>4. {SubSeq(a, 1, n)[i].guid : i \in 1 .. n} = {a[i].guid : i \in 1 .. n}
  BY <1>3
<1>5. MemberSet(g)' = Guids(a, n)
  BY <1>2, <1>4 DEF Guids
<1> QED
  BY <1>2, <1>5 DEF a, n

LEMMA OtherListStays ==
  ASSUME NEW h, object'[h] = object[h], arrays'[h] = arrays[h]
  PROVE  MemberSet(h)' = MemberSet(h) /\ ArrayOf(h)' = ArrayOf(h)
BY DEF MemberSet, Members, ArrayOf

LEMMA PointerFields ==
  ASSUME NEW g \in Nat \ {0}, NEW cap \in Nat, NEW slots, Len(slots) \in Nat, NEW p
  PROVE  PointerTo(g, cap, slots, p) \in Pointers /\ PointerTo(g, cap, slots, p).group = g
<1> DEFINE I == {i \in 1 .. Len(slots) : slots[i].guid = p}
           k == IF I # {} THEN Min(I) ELSE 0
<1>1. PointerTo(g, cap, slots, p) = [group |-> g, cap |-> cap, index |-> k]
  BY DEF PointerTo, SelectInSeq
<1>2. I \subseteq Nat
  OBVIOUS
<1>3. I # {} => \E m \in I : \A j \in I : m <= j
  BY <1>2, LeastOf
<1> HIDE DEF I
<1>4. I # {} => Min(I) \in I
  BY <1>3 DEF Min
<1>5. k \in Nat
  BY <1>2, <1>4
<1> HIDE DEF k
<1> QED
  BY <1>1, <1>5 DEF Pointers

LEMMA CacheGroupKeeps ==
  ASSUME NEW c, Procs = {c}, CacheInv(c), CacheGroup(c)
  PROVE  CacheInv(c)'
<1>g. PICK g : g = op[c].group
  OBVIOUS
<1>f. PICK f : f = op[c].founders
  OBVIOUS
<1> DEFINE slots == [i \in 1 .. 2 |-> Slot(f[i], TRUE)]
           settings == NewSettings(f[1])
<1>1. /\ op[c].kind = "insertFounder" /\ op[c] \in FounderOps /\ op[c].left = 0
      /\ UNCHANGED <<dbVars, events, failures>>
      /\ cached' = cached \cup {g}
      /\ object' = With(object, g, NewObject(settings, 2, slots))
      /\ arrays' = With(arrays, g, NewArray(2, slots))
      /\ ptr' = [p \in Players |-> IF p \in ToSet(f) THEN PointerTo(g, 2, slots, p) ELSE ptr[p]]
  BY <1>g, <1>f, OpParts DEF CacheGroup, At, boundVars, CacheInv, Shape, OpShape
<1>2. op' \in [Procs -> OpStates] /\ op'[c].kind = "idle"
  BY Finished DEF CacheGroup
<1>3. /\ DbShape /\ CacheShape /\ events \in Seq([player : Players, on : BOOLEAN])
      /\ g = lastId /\ lastId \notin DOMAIN object /\ lastId # 0 /\ lastId \in Nat
      /\ f[1] # f[2] /\ f[1] \in Players /\ f[2] \in Players /\ ToSet(f) = {f[1], f[2]}
      /\ \A p \in Players : memberOf[p] = lastId <=> p \in {f[1], f[2]}
      /\ lastId \in DOMAIN rows /\ rows[lastId] = settings
  <2>1. f \in Players \X Players
    BY <1>1, <1>f DEF FounderOps
  <2>2. DOMAIN f = 1 .. 2
    BY <2>1
  <2>3. ToSet(f) = {f[1], f[2]}
    BY <2>2 DEF ToSet
  <2>4. 1 .. 2 - op[c].left = {1, 2}
    BY <1>1
  <2> QED
    BY <1>1, <1>g, <1>f, <2>1, <2>3, <2>4 DEF settings, CacheInv, Shape, OpShape, DbShape
<1>4. /\ slots \in Seq(Slots) /\ Len(slots) = 2 /\ slots[1].guid = f[1] /\ slots[2].guid = f[2]
  <2>1. Slot(f[1], TRUE) \in Slots /\ Slot(f[2], TRUE) \in Slots
    BY <1>3 DEF Slot, Slots
  <2>2. 1 .. 2 = {1, 2}
    OBVIOUS
  <2>3. slots[1] = Slot(f[1], TRUE) /\ slots[2] = Slot(f[2], TRUE) /\ slots = [i \in 1 .. 2 |-> slots[i]]
    OBVIOUS
  <2> HIDE DEF slots
  <2>4. slots \in [1 .. 2 -> Slots]
    BY <2>1, <2>2, <2>3
  <2>5. slots \in Seq(Slots) /\ Len(slots) = 2
    BY <2>4, FunctionIsSeq
  <2> QED
    BY <2>3, <2>5 DEF Slot
<1> HIDE DEF slots, settings
<1>5. /\ DOMAIN object' = DOMAIN object \cup {g} /\ DOMAIN arrays' = DOMAIN arrays \cup {g}
      /\ object'[g] = [settings |-> settings, cap |-> 2, len |-> 2]
      /\ arrays'[g] = [k \in {2} |-> slots]
      /\ \A h \in DOMAIN object : object'[h] = object[h] /\ arrays'[h] = arrays[h]
  BY <1>1, <1>3, <1>4 DEF With, NewObject, NewArray, CacheShape
<1>6. GroupOK(object'[g], arrays'[g]) /\ arrays'[g][object'[g].cap] = slots
  BY <1>4, <1>5 DEF GroupOK
<1>7. /\ MemberSet(g)' = {f[1], f[2]} /\ OneSlotEach(ArrayOf(g), object[g].len)'
  <2>1. MemberSet(g)' = Guids(slots, 2) /\ ArrayOf(g)' = slots /\ object'[g].len = 2
    BY <1>5, <1>6, MembersAreNext
  <2>2. 1 .. 2 = {1, 2}
    OBVIOUS
  <2>3. Guids(slots, 2) = {f[1], f[2]}
    BY <1>4, <2>2 DEF Guids
  <2>4. OneSlotEach(slots, 2)
    BY <1>3, <1>4, <2>2 DEF OneSlotEach
  <2> QED
    BY <2>1, <2>3, <2>4 DEF OneSlotEach
<1>8. \A h \in cached : /\ h \in DOMAIN object /\ h # g /\ h # 0
                        /\ MemberSet(h)' = MemberSet(h) /\ MemberSet(h) \subseteq Players
                        /\ ArrayOf(h)' = ArrayOf(h) /\ object'[h] = object[h]
  BY <1>3, <1>5, OtherListStays, CachedGroups, MembersAre
<1>9. \A p \in Players : /\ p \in {f[1], f[2]} => ptr'[p] \in Pointers /\ ptr'[p].group = g /\ ptr'[p] # NoPtr
                         /\ p \notin {f[1], f[2]} => ptr'[p] = ptr[p]
  <2>1. ASSUME NEW p \in Players
        PROVE  PointerTo(g, 2, slots, p) \in Pointers /\ PointerTo(g, 2, slots, p).group = g
    BY <1>3, <1>4, PointerFields
  <2>2. NoPtr \notin Pointers
    BY DEF NoPtr, Pointers
  <2> QED
    BY <1>1, <1>3, <2>1, <2>2
<1>10. CacheShape'
  <2>1. lastId' = lastId
    BY <1>1 DEF dbVars
  <2>2. \A p \in Players : GroupIDByPlayer(p)' <= lastId
    <3> SUFFICES ASSUME NEW p \in Players PROVE GroupIDByPlayer(p)' <= lastId
      OBVIOUS
    <3>1. CASE p \in {f[1], f[2]}
      BY <1>3, <1>9, <3>1 DEF GroupIDByPlayer
    <3>2. CASE p \notin {f[1], f[2]}
      BY <1>3, <1>9, <3>2 DEF GroupIDByPlayer, CacheShape
    <3> QED
      BY <3>1, <3>2
  <2>3. ptr' \in [Players -> Pointers \cup {NoPtr}]
    BY <1>1, <1>3, <1>9 DEF CacheShape
  <2>4. DOMAIN object' \subseteq 1 .. lastId
    BY <1>3, <1>5 DEF CacheShape
  <2>5. \A h \in DOMAIN object' : GroupOK(object'[h], arrays'[h])
    BY <1>3, <1>5, <1>6 DEF CacheShape
  <2> QED
    BY <1>1, <1>3, <1>5, <2>1, <2>2, <2>3, <2>4, <2>5 DEF CacheShape
<1>11. DbShape' /\ OpShape(c)'
  BY <1>1, <1>2, <1>3 DEF DbShape, OpShape, OnGroup, dbVars
<1>12. Kept(c)'
  BY <1>1, <1>2, <1>3, <1>7, <1>8 DEF CacheInv, Kept, dbVars
<1>13. Exact(c)'
  <2> SUFFICES ASSUME failures = 0 PROVE (Single /\ Stored(c) /\ Led /\ Known(c) /\ NotYet(c))'
    BY <1>1 DEF Exact
  <2>1. Single'
    BY <1>1, <1>7, <1>8 DEF CacheInv, Exact, Single
  <2>2. Stored(c)'
    BY <1>1, <1>2, <1>3, <1>5, <1>8 DEF CacheInv, Exact, Stored, dbVars
  <2>3. \A h \in cached : \A p \in MemberSet(h) : memberOf[p] = h
    BY <1>1 DEF CacheInv, Exact, Known
  <2>4. Led'
    BY <1>1, <1>3, <1>7, <1>8, <1>9, <2>3 DEF CacheInv, Exact, Led
  <2>5. Known(c)' /\ NotYet(c)'
    BY <1>1, <1>2, <1>3, <1>7, <1>8, <2>3 DEF Known, NotYet, dbVars
  <2> QED
    BY <2>1, <2>2, <2>4, <2>5
<1> QED
  BY <1>10, <1>11, <1>12, <1>13 DEF CacheInv, Shape

LEMMA CacheMemberKeeps ==
  ASSUME NEW c, Procs = {c}, CacheInv(c), CacheMember(c)
  PROVE  CacheInv(c)'
<1>g. PICK g : g = op[c].group
  OBVIOUS
<1>p. PICK p : p = op[c].player
  OBVIOUS
<1>n. PICK new : new = Appended(g, Slot(p, TRUE))
  OBVIOUS
<1>1. /\ op[c].kind = "cacheMember" /\ op[c] \in JoinOps /\ g \in cached
      /\ UNCHANGED <<dbVars, cached, events, failures>>
      /\ arrays' = [arrays EXCEPT ![g] = With(@, new.cap, new.slots)]
      /\ object' = [object EXCEPT ![g].cap = new.cap, ![g].len = @ + 1]
      /\ ptr' = [ptr EXCEPT ![p] = [group |-> g, cap |-> new.cap, index |-> object[g].len + 1]]
  BY <1>g, <1>p, <1>n, OpParts DEF CacheMember, At, boundVars, CacheInv, Shape, OpShape
<1>2. op' \in [Procs -> OpStates] /\ op'[c].kind = "idle"
  BY Finished DEF CacheMember
<1>3. /\ DbShape /\ CacheShape /\ events \in Seq([player : Players, on : BOOLEAN])
      /\ p \in Players /\ memberOf[p] = g
  BY <1>1, <1>g, <1>p DEF CacheInv, Shape, OpShape, JoinOps
<1>4. g \in Nat /\ g # 0 /\ g <= lastId /\ g \in DOMAIN object /\ g \in DOMAIN arrays /\ GroupOK(object[g], arrays[g])
  BY <1>1, <1>3, CachedGroups DEF CacheShape
<1>5. /\ DOMAIN object' = DOMAIN object /\ DOMAIN arrays' = DOMAIN arrays
      /\ object'[g] = [object[g] EXCEPT !.cap = new.cap, !.len = @ + 1]
      /\ arrays'[g] = With(arrays[g], new.cap, new.slots)
      /\ \A h \in DOMAIN object : h # g => object'[h] = object[h] /\ arrays'[h] = arrays[h]
  BY <1>1, <1>3, <1>4 DEF CacheShape
<1>6. /\ GroupOK(object'[g], arrays'[g]) /\ object'[g].settings = object[g].settings
      /\ Guids(arrays'[g][object'[g].cap], object'[g].len) = MemberSet(g) \cup {p}
      /\ OneSlotEach(ArrayOf(g), object[g].len) /\ p \notin MemberSet(g)
           => OneSlotEach(arrays'[g][object'[g].cap], object'[g].len)
  <2>1. Slot(p, TRUE) \in Slots /\ Slot(p, TRUE).guid = p
    BY <1>3 DEF Slot, Slots
  <2>2. PICK slot \in Slots : slot = Slot(p, TRUE) /\ slot.guid = p
    BY <2>1
  <2>3. PICK ob : ob = object'[g]
    OBVIOUS
  <2>4. PICK ar : ar = arrays'[g]
    OBVIOUS
  <2>5. /\ new = Appended(g, slot) /\ ar = With(arrays[g], new.cap, new.slots)
        /\ ob = [settings |-> object[g].settings, cap |-> new.cap, len |-> object[g].len + 1]
    BY <1>4, <1>5, <1>n, <2>2, <2>3, <2>4 DEF GroupOK
  <2>6. /\ GroupOK(ob, ar) /\ ob.settings = object[g].settings
        /\ Guids(ar[ob.cap], ob.len) = MemberSet(g) \cup {slot.guid}
        /\ OneSlotEach(ArrayOf(g), object[g].len) /\ slot.guid \notin MemberSet(g)
             => OneSlotEach(ar[ob.cap], ob.len)
    BY <1>4, <2>5, AppendAdds
  <2> QED
    BY <2>2, <2>3, <2>4, <2>6
<1>7. /\ MemberSet(g)' = MemberSet(g) \cup {p}
      /\ OneSlotEach(ArrayOf(g), object[g].len) /\ p \notin MemberSet(g) => OneSlotEach(ArrayOf(g), object[g].len)'
  BY <1>6, MembersAreNext DEF OneSlotEach
<1>8. \A h \in cached : /\ h \in DOMAIN object /\ MemberSet(h) \subseteq Players
                        /\ h # g => /\ MemberSet(h)' = MemberSet(h)
                                    /\ ArrayOf(h)' = ArrayOf(h) /\ object'[h] = object[h]
  BY <1>3, <1>5, OtherListStays, CachedGroups, MembersAre
<1>9. /\ ptr'[p] \in Pointers /\ ptr'[p].group = g /\ ptr'[p] # NoPtr
      /\ ptr' \in [Players -> Pointers \cup {NoPtr}]
      /\ \A q \in Players : q # p => ptr'[q] = ptr[q]
  <2>1. new.cap \in Nat /\ object[g].len + 1 \in Nat
    <3>1. object'[g].cap = new.cap
      BY <1>4, <1>5 DEF GroupOK
    <3> QED
      BY <1>4, <1>6, <3>1 DEF GroupOK
  <2>2. [group |-> g, cap |-> new.cap, index |-> object[g].len + 1] \in Pointers
    BY <1>4, <2>1 DEF Pointers
  <2>3. NoPtr \notin Pointers
    BY DEF NoPtr, Pointers
  <2> QED
    BY <1>1, <1>3, <2>2, <2>3 DEF CacheShape
<1>10. CacheShape'
  <2>1. lastId' = lastId
    BY <1>1 DEF dbVars
  <2>2. \A q \in Players : GroupIDByPlayer(q)' <= lastId
    <3> SUFFICES ASSUME NEW q \in Players PROVE GroupIDByPlayer(q)' <= lastId
      OBVIOUS
    <3>1. CASE q = p
      BY <1>4, <1>9, <3>1 DEF GroupIDByPlayer
    <3>2. CASE q # p
      BY <1>3, <1>9, <3>2 DEF GroupIDByPlayer, CacheShape
    <3> QED
      BY <3>1, <3>2
  <2>3. \A h \in DOMAIN object' : GroupOK(object'[h], arrays'[h])
    BY <1>3, <1>5, <1>6 DEF CacheShape
  <2> QED
    BY <1>1, <1>3, <1>5, <1>9, <2>1, <2>2, <2>3 DEF CacheShape
<1>11. DbShape' /\ OpShape(c)'
  BY <1>1, <1>2, <1>3 DEF DbShape, OpShape, OnGroup, dbVars
<1>12. Kept(c)'
  <2> SUFFICES ASSUME NEW h \in cached, NEW q \in Players, memberOf[q] = h PROVE q \in MemberSet(h)'
    BY <1>1 DEF Kept, dbVars
  <2>1. q \in MemberSet(h) \/ q = p
    BY <1>p DEF CacheInv, Kept
  <2> QED
    BY <1>3, <1>7, <1>8, <2>1
<1>13. Exact(c)'
  <2> SUFFICES ASSUME failures = 0 PROVE (Single /\ Stored(c) /\ Led /\ Known(c) /\ NotYet(c))'
    BY <1>1 DEF Exact
  <2>0. \A h \in cached : p \notin MemberSet(h)
    BY <1>1, <1>p DEF CacheInv, Exact, NotYet
  <2>1. Single'
    BY <1>1, <1>7, <1>8, <2>0 DEF CacheInv, Exact, Single
  <2>2. Stored(c)'
    BY <1>1, <1>2, <1>6, <1>8 DEF CacheInv, Exact, Stored, dbVars
  <2>3. \A h \in cached : \A q \in MemberSet(h) : memberOf[q] = h
    BY <1>1 DEF CacheInv, Exact, Known
  <2>4. Led'
    <3> SUFFICES ASSUME NEW q \in Players, NEW h
                 PROVE  h \in cached /\ q \in MemberSet(h)' <=> ptr'[q] # NoPtr /\ ptr'[q].group = h
      BY <1>1 DEF Led
    <3>1. h \in cached /\ q \in MemberSet(h) <=> ptr[q] # NoPtr /\ ptr[q].group = h
      BY DEF CacheInv, Exact, Led
    <3>2. CASE q = p
      BY <1>1, <1>7, <1>8, <1>9, <2>0, <3>2
    <3>3. CASE q # p
      BY <1>7, <1>8, <1>9, <3>1, <3>3
    <3> QED
      BY <3>2, <3>3
  <2>5. Known(c)' /\ NotYet(c)'
    BY <1>1, <1>2, <1>3, <1>7, <1>8, <2>3 DEF Known, NotYet, dbVars
  <2> QED
    BY <2>1, <2>2, <2>4, <2>5
<1> QED
  BY <1>10, <1>11, <1>12, <1>13 DEF CacheInv, Shape

LEMMA UncacheMemberKeeps ==
  ASSUME NEW c, Procs = {c}, CacheInv(c), UncacheMember(c)
  PROVE  CacheInv(c)'
<1>p. PICK p : p = op[c].player
  OBVIOUS
<1>g. PICK g : g = GroupIDByPlayer(p)
  OBVIOUS
<1>1. /\ op[c].kind = "uncacheMember" /\ op[c] \in PartOps /\ g \in cached
      /\ UNCHANGED <<dbVars, cached, events, failures>>
      /\ IF IndexOf(g, p) > 0
         THEN /\ arrays' = [arrays EXCEPT ![g][object[g].cap] = ShiftedDown(@, IndexOf(g, p), object[g].len)]
              /\ object' = [object EXCEPT ![g].len = @ - 1]
              /\ ptr' = [ptr EXCEPT ![p] = NoPtr]
         ELSE UNCHANGED <<arrays, object, ptr>>
  BY <1>g, <1>p, OpParts DEF UncacheMember, PointersWithout, At, boundVars, CacheInv, Shape, OpShape
<1>2. op' \in [Procs -> OpStates] /\ op'[c].kind = "idle"
  BY Finished DEF UncacheMember
<1>3. /\ DbShape /\ CacheShape /\ events \in Seq([player : Players, on : BOOLEAN])
      /\ p \in Players /\ memberOf[p] = 0
  BY <1>1, <1>p DEF CacheInv, Shape, OpShape, PartOps
<1>4. g \in Nat /\ g # 0 /\ g \in DOMAIN object /\ g \in DOMAIN arrays /\ GroupOK(object[g], arrays[g])
  BY <1>1, <1>3, CachedGroups DEF CacheShape
<1>5. DbShape' /\ OpShape(c)'
  BY <1>1, <1>2, <1>3 DEF DbShape, OpShape, OnGroup, dbVars
<1>6. failures = 0 => p \in MemberSet(g)
  BY <1>1, <1>3, <1>4, <1>g, PointerGroups DEF CacheInv, Exact, Led
<1>7. CASE IndexOf(g, p) > 0
  <2>1. p \in MemberSet(g)
    BY <1>4, <1>7, IndexIs
  <2>2. /\ DOMAIN object' = DOMAIN object /\ DOMAIN arrays' = DOMAIN arrays
        /\ object'[g] = [object[g] EXCEPT !.len = @ - 1]
        /\ arrays'[g] = [arrays[g] EXCEPT ![object[g].cap] = ShiftedDown(@, IndexOf(g, p), object[g].len)]
        /\ \A h \in DOMAIN object : h # g => object'[h] = object[h] /\ arrays'[h] = arrays[h]
    BY <1>1, <1>3, <1>4, <1>7 DEF CacheShape
  <2>3. /\ GroupOK(object'[g], arrays'[g]) /\ object'[g].settings = object[g].settings
        /\ MemberSet(g) \ {p} \subseteq Guids(arrays'[g][object'[g].cap], object'[g].len)
        /\ OneSlotEach(ArrayOf(g), object[g].len)
              => /\ Guids(arrays'[g][object'[g].cap], object'[g].len) = MemberSet(g) \ {p}
                 /\ OneSlotEach(arrays'[g][object'[g].cap], object'[g].len)
    BY <1>4, <2>1, <2>2, ShiftRemoves
  <2>4. /\ MemberSet(g) \ {p} \subseteq MemberSet(g)'
        /\ OneSlotEach(ArrayOf(g), object[g].len)
              => MemberSet(g)' = MemberSet(g) \ {p} /\ OneSlotEach(ArrayOf(g), object[g].len)'
    BY <2>3, MembersAreNext DEF OneSlotEach
  <2>5. \A h \in cached : /\ h \in DOMAIN object /\ MemberSet(h) \subseteq Players /\ h # 0
                          /\ h # g => /\ MemberSet(h)' = MemberSet(h)
                                      /\ ArrayOf(h)' = ArrayOf(h) /\ object'[h] = object[h]
    BY <1>3, <2>2, OtherListStays, CachedGroups, MembersAre
  <2>6. /\ ptr' \in [Players -> Pointers \cup {NoPtr}] /\ ptr'[p] = NoPtr
        /\ \A q \in Players : q # p => ptr'[q] = ptr[q]
    BY <1>1, <1>3, <1>7 DEF CacheShape
  <2>7. CacheShape'
    <3>1. lastId' = lastId /\ lastId \in Nat
      BY <1>1, <1>3 DEF dbVars, DbShape
    <3>2. \A q \in Players : GroupIDByPlayer(q)' <= lastId
      <4> SUFFICES ASSUME NEW q \in Players PROVE GroupIDByPlayer(q)' <= lastId
        OBVIOUS
      <4>1. CASE q = p
        BY <2>6, <3>1, <4>1 DEF GroupIDByPlayer
      <4>2. CASE q # p
        BY <1>3, <2>6, <4>2 DEF GroupIDByPlayer, CacheShape
      <4> QED
        BY <4>1, <4>2
    <3>3. \A h \in DOMAIN object' : GroupOK(object'[h], arrays'[h])
      BY <1>3, <2>2, <2>3 DEF CacheShape
    <3> QED
      BY <1>1, <1>3, <2>2, <2>6, <3>1, <3>2, <3>3 DEF CacheShape
  <2>8. Kept(c)'
    <3> SUFFICES ASSUME NEW h \in cached, NEW q \in Players, memberOf[q] = h PROVE q \in MemberSet(h)'
      BY <1>1 DEF Kept, dbVars
    <3>1. q \in MemberSet(h) /\ q # p
      BY <1>1, <1>3, <2>5 DEF CacheInv, Kept
    <3> QED
      BY <2>4, <2>5, <3>1
  <2>9. Exact(c)'
    <3> SUFFICES ASSUME failures = 0 PROVE (Single /\ Stored(c) /\ Led /\ Known(c) /\ NotYet(c))'
      BY <1>1 DEF Exact
    <3>1. MemberSet(g)' = MemberSet(g) \ {p} /\ OneSlotEach(ArrayOf(g), object[g].len)'
      BY <1>1, <2>4 DEF CacheInv, Exact, Single
    <3>2. Single'
      BY <1>1, <2>5, <3>1 DEF CacheInv, Exact, Single
    <3>3. Stored(c)'
      BY <1>1, <1>2, <2>3, <2>5 DEF CacheInv, Exact, Stored, dbVars
    <3>4. Led'
      <4> SUFFICES ASSUME NEW q \in Players, NEW h
                   PROVE  h \in cached /\ q \in MemberSet(h)' <=> ptr'[q] # NoPtr /\ ptr'[q].group = h
        BY <1>1 DEF Led
      <4>1. h \in cached /\ q \in MemberSet(h) <=> ptr[q] # NoPtr /\ ptr[q].group = h
        BY DEF CacheInv, Exact, Led
      <4>2. CASE q = p
        <5>1. ptr[p] # NoPtr /\ ptr[p].group = g
          BY <1>1, <1>3, <2>1 DEF CacheInv, Exact, Led
        <5>2. h \in cached => q \notin MemberSet(h)'
          BY <2>5, <3>1, <4>1, <4>2, <5>1
        <5> QED
          BY <2>6, <4>2, <5>2
      <4>3. CASE q # p
        BY <2>5, <2>6, <3>1, <4>1, <4>3
      <4> QED
        BY <4>2, <4>3
    <3>5. Known(c)' /\ NotYet(c)'
      <4> SUFFICES ASSUME NEW h \in cached, NEW q \in MemberSet(h)' PROVE memberOf[q] = h
        BY <1>1, <1>2 DEF Known, NotYet, dbVars
      <4>1. q \in MemberSet(h)
        BY <2>5, <3>1
      <4>2. q \in Players /\ ptr'[q] # NoPtr
        BY <1>1, <2>5, <3>4, <4>1 DEF Led
      <4>3. q # p
        BY <2>6, <4>2
      <4> QED
        BY <1>1, <1>p, <4>1, <4>3 DEF CacheInv, Exact, Known
    <3> QED
      BY <3>2, <3>3, <3>4, <3>5
  <2> QED
    BY <1>5, <2>7, <2>8, <2>9 DEF CacheInv, Shape
<1>8. CASE ~(IndexOf(g, p) > 0)
  <2>1. failures # 0 /\ UNCHANGED <<object, arrays, ptr>>
    BY <1>1, <1>4, <1>6, <1>8, IndexIs
  <2>2. SameLists
    BY <2>1, ListsStay
  <2>3. Kept(c)'
    BY <1>1, <1>2, <2>2 DEF CacheInv, Kept, SameLists, dbVars
  <2>4. CacheShape'
    BY <1>1, <1>3, <2>1, ShapeStays DEF dbVars
  <2> QED
    BY <1>1, <1>5, <2>1, <2>3, <2>4 DEF CacheInv, Shape, Exact
<1> QED
  BY <1>7, <1>8

LEMMA UncacheGroupKeeps ==
  ASSUME NEW c, Procs = {c}, CacheInv(c), UncacheGroup(c)
  PROVE  CacheInv(c)'
<1>g. PICK g : g = op[c].group
  OBVIOUS
<1>1. /\ op[c].kind = "uncacheGroup" /\ g \in cached
      /\ UNCHANGED <<dbVars, object, arrays, events, failures>>
      /\ ptr' = [p \in Players |-> IF p \in MemberSet(g) THEN NoPtr ELSE ptr[p]]
      /\ cached' = cached \ {g}
  BY <1>g DEF UncacheGroup, At, boundVars
<1>2. op' \in [Procs -> OpStates] /\ op'[c].kind = "idle"
  BY Finished DEF UncacheGroup
<1>3. DbShape /\ CacheShape /\ events \in Seq([player : Players, on : BOOLEAN])
  BY DEF CacheInv, Shape, OpShape
<1>4. SameLists
  BY <1>1, ListsStay
<1>5. DbShape' /\ OpShape(c)'
  BY <1>1, <1>2, <1>3 DEF DbShape, OpShape, OnGroup, dbVars
<1>6. CacheShape'
  <2>1. lastId' = lastId /\ lastId \in Nat
    BY <1>1, <1>3 DEF dbVars, DbShape
  <2>2. ptr' \in [Players -> Pointers \cup {NoPtr}]
    BY <1>1, <1>3 DEF CacheShape
  <2>3. \A q \in Players : GroupIDByPlayer(q)' <= lastId
    <3> SUFFICES ASSUME NEW q \in Players PROVE GroupIDByPlayer(q)' <= lastId
      OBVIOUS
    <3>1. CASE q \in MemberSet(g)
      BY <1>1, <2>1, <3>1 DEF GroupIDByPlayer
    <3>2. CASE q \notin MemberSet(g)
      BY <1>1, <1>3, <3>2 DEF GroupIDByPlayer, CacheShape
    <3> QED
      BY <3>1, <3>2
  <2> QED
    BY <1>1, <1>3, <2>1, <2>2, <2>3 DEF CacheShape
<1>7. Kept(c)'
  BY <1>1, <1>2, <1>4 DEF CacheInv, Kept, SameLists, dbVars
<1>8. Exact(c)'
  <2> SUFFICES ASSUME failures = 0 PROVE (Single /\ Stored(c) /\ Led /\ Known(c) /\ NotYet(c))'
    BY <1>1 DEF Exact
  <2>1. Single'
    BY <1>1, <1>4 DEF CacheInv, Exact, Single, SameLists
  <2>2. Stored(c)'
    BY <1>1, <1>2, <1>g DEF CacheInv, Exact, Stored, dbVars
  <2>3. Led'
    <3> SUFFICES ASSUME NEW q \in Players, NEW h
                 PROVE  h \in cached \ {g} /\ q \in MemberSet(h) <=> ptr'[q] # NoPtr /\ ptr'[q].group = h
      BY <1>1, <1>4 DEF Led, SameLists
    <3>1. \A k : k \in cached /\ q \in MemberSet(k) <=> ptr[q] # NoPtr /\ ptr[q].group = k
      BY DEF CacheInv, Exact, Led
    <3>2. ptr'[q] = IF q \in MemberSet(g) THEN NoPtr ELSE ptr[q]
      BY <1>1
    <3> QED
      BY <1>1, <3>1, <3>2
  <2>4. Known(c)' /\ NotYet(c)'
    BY <1>1, <1>2, <1>4, <1>g DEF CacheInv, Exact, Known, NotYet, SameLists, dbVars
  <2> QED
    BY <2>1, <2>2, <2>3, <2>4
<1> QED
  BY <1>5, <1>6, <1>7, <1>8 DEF CacheInv, Shape

LEMMA AskCharactersKeeps ==
  ASSUME NEW c, Procs = {c}, CacheInv(c), AskCharacters(c)
  PROVE  CacheInv(c)'
<1>g. PICK g : g = op[c].group
  OBVIOUS
<1>1. /\ op[c].kind = "askCharacters" /\ g \in cached
      /\ UNCHANGED <<dbVars, cached, arrays, ptr, events, failures>>
  BY <1>g DEF AskCharacters, At, boundVars, CacheInv, Shape, OpShape, OnGroup
<1>2. CASE /\ Set(g, "difficulty", 1 - object[g].settings.difficulty)
           /\ op' = [op EXCEPT ![c] = [kind |-> "update", group |-> g, leaving |-> Nobody]]
  BY <1>1, <1>2, SetKeeps
<1>3. CASE UNCHANGED object /\ Finish(c)
  <2>1. op' \in [Procs -> OpStates] /\ op'[c].kind = "idle"
    BY <1>3, Finished
  <2>2. SameLists /\ UNCHANGED cacheVars /\ lastId <= lastId'
    BY <1>1, <1>3, ListsStay DEF cacheVars, dbVars, CacheInv, Shape, DbShape
  <2>3. DbShape' /\ OpShape(c)'
    BY <1>1, <2>1 DEF CacheInv, Shape, DbShape, OpShape, OnGroup, dbVars
  <2>4. Kept(c)'
    BY <1>1, <2>1, <2>2 DEF CacheInv, Kept, SameLists, dbVars
  <2>5. failures = 0 => Stored(c)' /\ Known(c)' /\ NotYet(c)'
    BY <1>1, <1>3, <2>1, <2>2 DEF CacheInv, Exact, Stored, Known, NotYet, SameLists, dbVars
  <2> QED
    BY <1>1, <2>2, <2>3, <2>4, <2>5, StatementKeeps
<1> QED
  BY <1>2, <1>3, <1>g DEF AskCharacters, Continue

LEMMA StepKeeps ==
  ASSUME NEW c, Procs = {c}, CacheInv(c), Step(c)
  PROVE  CacheInv(c)'
BY WriteInviteKeeps, InsertGroupKeeps, InsertFounderKeeps, CacheGroupKeeps, InsertMemberKeeps,
   CacheMemberKeeps, DeleteMemberKeeps, UncacheMemberKeeps, DeleteMembersKeeps, DeleteGroupKeeps,
   UncacheGroupKeeps, AskCharactersKeeps, UpdateGroupKeeps, CacheUpdateKeeps, StatementFailsKeeps
   DEF Step

-----------------------------------------------------------------------------
(* Sessions and restarts.                                                  *)

\* A step that concerns nobody's membership and no request.
LEMMA OtherKeeps ==
  ASSUME NEW c, Procs = {c}, CacheInv(c), UNCHANGED <<dbVars, cacheVars, op, failures>>,
         events' \in Seq([player : Players, on : BOOLEAN])
  PROVE  CacheInv(c)'
<1> USE DEF dbVars, cacheVars
<1>1. SameLists
  BY ListsStay
<1>2. CacheShape' /\ DbShape'
  BY ShapeStays DEF CacheInv, Shape, DbShape
<1>3. OpShape(c)'
  BY DEF CacheInv, Shape, OpShape
<1>4. Kept(c)'
  BY <1>1 DEF CacheInv, Kept, SameLists
<1>5. Exact(c)'
  BY <1>1, SameSingleLed DEF CacheInv, Exact, Stored, Known, NotYet, SameLists
<1> QED
  BY <1>2, <1>3, <1>4, <1>5 DEF CacheInv, Shape

LEMMA LogInOutKeeps ==
  ASSUME NEW c, Procs = {c}, CacheInv(c), NEW p \in Players, LogInOut(p)
  PROVE  CacheInv(c)'
<1> DEFINE on == p \notin online
<1>1. UNCHANGED <<dbVars, cacheVars, op, failures>> /\ events' = Append(events, [player |-> p, on |-> on])
  BY DEF LogInOut
<1>2. on \in BOOLEAN
  OBVIOUS
<1> HIDE DEF on
<1>3. [player |-> p, on |-> on] \in [player : Players, on : BOOLEAN]
  BY <1>2
<1>4. events' \in Seq([player : Players, on : BOOLEAN])
  BY <1>1, <1>3 DEF CacheInv, Shape, OpShape
<1> QED
  BY <1>1, <1>4, OtherKeeps

\* Writing through a pointer changes at most whether somebody is online.
LEMMA HandleLogInOutKeeps ==
  ASSUME NEW c, Procs = {c}, CacheInv(c), HandleLogInOut
  PROVE  CacheInv(c)'
<1>e. PICK e : e = Head(events)
  OBVIOUS
<1>a. PICK at : at = ptr[e.player]
  OBVIOUS
<1>1. /\ events # <<>> /\ events' = Tail(events)
      /\ arrays' = IF at = NoPtr THEN arrays ELSE [arrays EXCEPT ![at.group][at.cap][at.index].online = e.on]
      /\ UNCHANGED <<dbVars, cached, object, ptr, op, failures>>
  BY <1>e, <1>a DEF HandleLogInOut, boundVars
<1>2. DbShape /\ CacheShape /\ events \in Seq([player : Players, on : BOOLEAN])
  BY DEF CacheInv, Shape, OpShape
<1>3. e.on \in BOOLEAN /\ events' \in Seq([player : Players, on : BOOLEAN])
  <2> DEFINE E == [player : Players, on : BOOLEAN]
  <2>1. events \in Seq(E) /\ events # <<>> /\ events' = Tail(events)
    BY <1>1, <1>2
  <2> HIDE DEF E
  <2>2. e \in E /\ events' \in Seq(E)
    BY <2>1, <1>e
  <2> QED
    BY <2>2 DEF E
<1>4. CASE at = NoPtr
  BY <1>1, <1>3, <1>4, OtherKeeps DEF cacheVars
<1>5. CASE at # NoPtr
  <2>1. /\ DOMAIN arrays' = DOMAIN arrays
        /\ arrays' = [arrays EXCEPT ![at.group] =
                        [arrays[at.group] EXCEPT ![at.cap] =
                           [arrays[at.group][at.cap] EXCEPT ![at.index] =
                              [arrays[at.group][at.cap][at.index] EXCEPT !.online = e.on]]]]
    BY <1>1, <1>5
  <2>2. ASSUME NEW h \in DOMAIN object
        PROVE  /\ GroupOK(object[h], arrays'[h])
               /\ \A i \in 1 .. object[h].len :
                    arrays'[h][object[h].cap][i].guid = arrays[h][object[h].cap][i].guid
    <3> DEFINE k == object[h].cap
               s == arrays[h][k]
               t == arrays'[h][k]
    <3>1. /\ object[h] = [settings |-> object[h].settings, cap |-> object[h].cap, len |-> object[h].len]
          /\ k \in Nat /\ object[h].len \in Nat /\ s \in Seq(Slots) /\ k \in DOMAIN arrays[h] /\ h \in DOMAIN arrays
          /\ object[h].len <= Len(s) /\ Len(s) <= k
      BY <1>2 DEF CacheShape, GroupOK
    <3>2. k \in DOMAIN arrays'[h]
      BY <2>1, <3>1
    <3>3. t = s \/ t = [s EXCEPT ![at.index] = [s[at.index] EXCEPT !.online = e.on]]
      BY <2>1, <3>1
    <3> HIDE DEF k, s, t
    <3>4. ASSUME NEW x \in Slots PROVE [x EXCEPT !.online = e.on] \in Slots /\ [x EXCEPT !.online = e.on].guid = x.guid
      BY <1>3 DEF Slots
    <3>5. t \in Seq(Slots) /\ Len(t) = Len(s) /\ \A i \in 1 .. Len(s) : t[i].guid = s[i].guid
      <4>1. CASE t = s
        BY <3>1, <4>1
      <4>2. CASE t = [s EXCEPT ![at.index] = [s[at.index] EXCEPT !.online = e.on]] /\ at.index \in 1 .. Len(s)
        <5>1. s[at.index] \in Slots
          BY <3>1, <4>2
        <5>2. PICK x \in Slots : x = [s[at.index] EXCEPT !.online = e.on] /\ x.guid = s[at.index].guid
          BY <3>4, <5>1
        <5>3. t = [s EXCEPT ![at.index] = x]
          BY <4>2, <5>2
        <5> QED
          BY <3>1, <4>2, <5>2, <5>3
      <4>3. CASE t = [s EXCEPT ![at.index] = [s[at.index] EXCEPT !.online = e.on]] /\ at.index \notin 1 .. Len(s)
        <5>1. t = s
          BY <3>1, <4>3
        <5> QED
          BY <3>1, <5>1
      <4> QED
        BY <3>3, <4>1, <4>2, <4>3
    <3>6. \A i \in 1 .. object[h].len : i \in 1 .. Len(s)
      BY <3>1
    <3>7. GroupOK(object[h], arrays'[h])
      BY <3>1, <3>2, <3>5 DEF GroupOK, k, s, t
    <3> QED
      BY <3>5, <3>6, <3>7 DEF k, s, t
  <2>3. \A h \in cached : h \in DOMAIN object
    BY <1>2 DEF CacheShape
  <2>4. ASSUME NEW h \in DOMAIN object
        PROVE  /\ MemberSet(h)' = MemberSet(h)
               /\ OneSlotEach(ArrayOf(h), object[h].len)' <=> OneSlotEach(ArrayOf(h), object[h].len)
    <3>1. MemberSet(h) = Guids(ArrayOf(h), object[h].len)
      BY <1>2, MembersAre DEF CacheShape
    <3>2. MemberSet(h)' = Guids(arrays'[h][object[h].cap], object[h].len) /\ ArrayOf(h)' = arrays'[h][object[h].cap]
      BY <1>1, <2>2, MembersAreNext
    <3>3. \A i \in 1 .. object[h].len : arrays'[h][object[h].cap][i].guid = ArrayOf(h)[i].guid
      BY <2>2 DEF ArrayOf
    <3>4. Guids(arrays'[h][object[h].cap], object[h].len) = Guids(ArrayOf(h), object[h].len)
      BY <3>3 DEF Guids
    <3>5. OneSlotEach(ArrayOf(h)', object[h].len) <=> OneSlotEach(ArrayOf(h), object[h].len)
      BY <3>2, <3>3 DEF OneSlotEach
    <3> QED
      BY <1>1, <3>1, <3>2, <3>4, <3>5 DEF OneSlotEach
  <2>5. CacheShape'
    <3>1. lastId' = lastId
      BY <1>1 DEF dbVars
    <3> QED
      BY <1>1, <1>2, <2>1, <2>2, <3>1 DEF CacheShape, GroupIDByPlayer
  <2>6. DbShape' /\ OpShape(c)'
    BY <1>1, <1>3 DEF CacheInv, Shape, DbShape, OpShape, dbVars
  <2>7. Kept(c)'
    BY <1>1, <2>3, <2>4 DEF CacheInv, Kept, dbVars
  <2>8. Exact(c)'
    <3> SUFFICES ASSUME failures = 0 PROVE (Single /\ Stored(c) /\ Led /\ Known(c) /\ NotYet(c))'
      BY <1>1 DEF Exact
    <3>1. Single'
      BY <1>1, <2>3, <2>4 DEF CacheInv, Exact, Single
    <3>2. Stored(c)'
      BY <1>1 DEF CacheInv, Exact, Stored, dbVars
    <3>3. Led'
      BY <1>1, <2>3, <2>4 DEF CacheInv, Exact, Led
    <3>4. Known(c)' /\ NotYet(c)'
      BY <1>1, <2>3, <2>4 DEF CacheInv, Exact, Known, NotYet, dbVars
    <3> QED
      BY <3>1, <3>2, <3>3, <3>4
  <2> QED
    BY <2>5, <2>6, <2>7, <2>8 DEF CacheInv, Shape
<1> QED
  BY <1>4, <1>5

\* CapFor is defined, and the capacity is enough.
LEMMA CapForExists ==
  ASSUME NEW n \in Nat
  PROVE  \E h : h = [k \in 0 .. n |-> IF k = 0 THEN 0 ELSE Grown(k - 1, h[k - 1])]
<1> DEFINE UpTo(h, m) == h = [k \in 0 .. m |-> IF k = 0 THEN 0 ELSE Grown(k - 1, h[k - 1])]
           T == {m \in Nat : \E h : UpTo(h, m)}
<1>1. 0 \in T
  <2> DEFINE h == [k \in 0 .. 0 |-> 0]
  <2>1. \A k \in 0 .. 0 : k = 0
    OBVIOUS
  <2>2. UpTo(h, 0)
    BY <2>1
  <2> QED
    BY <2>2
<1>2. ASSUME NEW m \in Nat, m \in T PROVE m + 1 \in T
  <2>1. PICK h : UpTo(h, m)
    BY <1>2
  <2> DEFINE j == [k \in 0 .. m + 1 |-> IF k = 0 THEN 0 ELSE Grown(k - 1, h[k - 1])]
  <2>2. ASSUME NEW k \in 0 .. m + 1, k # 0 PROVE j[k - 1] = h[k - 1]
    <3>1. k - 1 \in 0 .. m /\ k - 1 \in 0 .. m + 1
      BY <2>2
    <3>2. h[k - 1] = IF k - 1 = 0 THEN 0 ELSE Grown((k - 1) - 1, h[(k - 1) - 1])
      BY <2>1, <3>1
    <3> QED
      BY <3>1, <3>2
  <2>3. UpTo(j, m + 1)
    <3>1. \A k \in 0 .. m + 1 : k # 0 => Grown(k - 1, h[k - 1]) = Grown(k - 1, j[k - 1])
      BY <2>2
    <3>2. j = [k \in 0 .. m + 1 |-> IF k = 0 THEN 0 ELSE Grown(k - 1, h[k - 1])]
      OBVIOUS
    <3> HIDE DEF j
    <3> QED
      BY <3>1, <3>2
  <2> HIDE DEF UpTo
  <2> QED
    BY <2>3
<1>3. Nat \subseteq T
  <2> HIDE DEF T
  <2> QED
    BY <1>1, <1>2, InductionOnNat
<1> QED
  BY <1>3

LEMMA CapForIsEnough ==
  ASSUME NEW n \in 0 .. Cardinality(Players)
  PROVE  CapFor[n] \in Nat /\ n <= CapFor[n]
<1> DEFINE N == Cardinality(Players)
<1>1. N \in Nat
  BY GroupAssumption, FS_CardinalityType
<1>2. CapFor = [k \in 0 .. N |-> IF k = 0 THEN 0 ELSE Grown(k - 1, CapFor[k - 1])]
  <2>1. \E h : h = [k \in 0 .. N |-> IF k = 0 THEN 0 ELSE Grown(k - 1, h[k - 1])]
    BY <1>1, CapForExists
  <2> QED
    BY <2>1 DEF CapFor
<1> HIDE DEF N
<1> DEFINE T == {k \in Nat : k <= N => CapFor[k] \in Nat /\ k <= CapFor[k]}
<1>3. 0 \in T
  <2>1. CapFor[0] = 0
    BY <1>1, <1>2
  <2> QED
    BY <2>1
<1>4. ASSUME NEW k \in Nat, k \in T PROVE k + 1 \in T
  <2> SUFFICES ASSUME k + 1 <= N PROVE CapFor[k + 1] \in Nat /\ k + 1 <= CapFor[k + 1]
    OBVIOUS
  <2>1. CapFor[k] \in Nat /\ k <= CapFor[k]
    BY <1>1, <1>4
  <2>2. CapFor[k + 1] = Grown(k, CapFor[k])
    <3>1. k + 1 \in 0 .. N /\ k + 1 # 0 /\ (k + 1) - 1 = k
      BY <1>1
    <3> QED
      BY <1>2, <3>1
  <2> QED
    BY <2>1, <2>2 DEF Grown
<1>5. Nat \subseteq T
  <2> HIDE DEF T
  <2> QED
    BY <1>3, <1>4, InductionOnNat
<1> QED
  BY <1>1, <1>5 DEF N

\* Warmup reads back what MySQL has.
LEMMA WarmupKeeps ==
  ASSUME NEW c, Procs = {c}, CacheInv(c), Warmup, UNCHANGED <<dbVars, failures>>
  PROVE  CacheInv(c)'
<1> USE DEF dbVars
<1> DEFINE In(g) == {p \in Players : memberOf[p] = g}
<1>o. PICK order \in [DOMAIN rows -> UNION {SetToSeqs(In(g)) : g \in DOMAIN rows}] :
        /\ \A g \in DOMAIN rows : ToSet(order[g]) = In(g)
        /\ LET slots(g) == [i \in DOMAIN order[g] |-> Slot(order[g][i], order[g][i] \in online)]
               cap(g) == CapFor[Len(order[g])]
           IN  /\ cached' = DOMAIN rows
               /\ object' = [g \in DOMAIN rows |-> NewObject(rows[g], cap(g), slots(g))]
               /\ arrays' = [g \in DOMAIN rows |-> NewArray(cap(g), slots(g))]
               /\ ptr' = [p \in Players |->
                            IF memberOf[p] \in DOMAIN rows
                            THEN PointerTo(memberOf[p], cap(memberOf[p]), slots(memberOf[p]), p)
                            ELSE NoPtr]
        /\ op' = [x \in Procs |-> Idle] /\ events' = <<>>
  BY DEF Warmup
<1> DEFINE slots(g) == [i \in DOMAIN order[g] |-> Slot(order[g][i], order[g][i] \in online)]
           cap(g) == CapFor[Len(order[g])]
<1>0. /\ cached' = DOMAIN rows
      /\ object' = [g \in DOMAIN rows |-> NewObject(rows[g], cap(g), slots(g))]
      /\ arrays' = [g \in DOMAIN rows |-> NewArray(cap(g), slots(g))]
      /\ ptr' = [p \in Players |->
                   IF memberOf[p] \in DOMAIN rows
                   THEN PointerTo(memberOf[p], cap(memberOf[p]), slots(memberOf[p]), p)
                   ELSE NoPtr]
      /\ op' = [x \in Procs |-> Idle] /\ events' = <<>>
  BY <1>o
<1>1. DbShape /\ CacheShape
  BY DEF CacheInv, Shape
<1>2. ASSUME NEW g \in DOMAIN rows
      PROVE  \E n \in Nat : /\ order[g] \in [1 .. n -> Players] /\ n <= Cardinality(Players)
                            /\ \A i, j \in 1 .. n : order[g][i] = order[g][j] => i = j
                            /\ In(g) = {order[g][i] : i \in 1 .. n}
  <2>1. PICK h \in DOMAIN rows : order[g] \in SetToSeqs(In(h))
    <3> HIDE DEF In
    <3>1. order[g] \in UNION {SetToSeqs(In(h)) : h \in DOMAIN rows}
      BY <1>o
    <3> QED
      BY <3>1
  <2> DEFINE n == Cardinality(In(h))
  <2>2. n \in Nat /\ n <= Cardinality(Players)
    <3>1. In(h) \subseteq Players
      OBVIOUS
    <3> HIDE DEF In
    <3> QED
      BY <3>1, GroupAssumption, FS_Subset, FS_CardinalityType
  <2>3. order[g] \in [1 .. n -> In(h)] /\ \A i, j \in 1 .. n : i # j => order[g][i] # order[g][j]
    <3> HIDE DEF In
    <3> QED
      BY <2>1 DEF SetToSeqs
  <2>4. ToSet(order[g]) = In(g)
    BY <1>o
  <2> HIDE DEF n
  <2>5. order[g] \in [1 .. n -> Players]
    BY <2>3
  <2>6. DOMAIN order[g] = 1 .. n
    BY <2>5
  <2>7. In(g) = {order[g][i] : i \in 1 .. n}
    <3> HIDE DEF In
    <3> QED
      BY <2>4, <2>6 DEF ToSet
  <2> HIDE DEF In
  <2> QED
    BY <2>2, <2>3, <2>5, <2>7
<1>3. ASSUME NEW g \in DOMAIN rows
      PROVE  \E n \in Nat :
               /\ slots(g) \in Seq(Slots) /\ Len(slots(g)) = n /\ cap(g) \in Nat /\ n <= cap(g)
               /\ OneSlotEach(slots(g), n) /\ Guids(slots(g), n) = In(g)
  <2>1. PICK n \in Nat : /\ order[g] \in [1 .. n -> Players] /\ n <= Cardinality(Players)
                         /\ \A i, j \in 1 .. n : order[g][i] = order[g][j] => i = j
                         /\ In(g) = {order[g][i] : i \in 1 .. n}
    BY <1>2
  <2> HIDE DEF In
  <2>a. PICK o : o = order[g]
    OBVIOUS
  <2>2. DOMAIN o = 1 .. n /\ Len(o) = n /\ \A i \in 1 .. n : o[i] \in Players
    BY <2>1, <2>a
  <2>3. cap(g) \in Nat /\ n <= cap(g)
    <3>1. n \in 0 .. Cardinality(Players)
      <4>1. Cardinality(Players) \in Nat
        BY GroupAssumption, FS_CardinalityType
      <4> QED
        BY <2>1, <4>1
    <3>2. CapFor[n] \in Nat /\ n <= CapFor[n]
      BY <3>1, CapForIsEnough
    <3> QED
      BY <2>2, <2>a, <3>2
  <2> DEFINE s == [i \in 1 .. n |-> Slot(o[i], o[i] \in online)]
  <2>4. slots(g) = s
    BY <2>2, <2>a
  <2>5. \A x \in Players : Slot(x, x \in online) \in Slots /\ Slot(x, x \in online).guid = x
    <3> SUFFICES ASSUME NEW x \in Players PROVE Slot(x, x \in online) \in Slots /\ Slot(x, x \in online).guid = x
      OBVIOUS
    <3> DEFINE on == x \in online
    <3>1. on \in BOOLEAN
      OBVIOUS
    <3> HIDE DEF on
    <3>2. Slot(x, on) \in Slots /\ Slot(x, on).guid = x
      BY <3>1 DEF Slot, Slots
    <3> QED
      BY <3>2 DEF on
  <2>6. \A i \in 1 .. n : s[i] \in Slots /\ s[i].guid = o[i]
    BY <2>2, <2>5
  <2>7. s \in [1 .. n -> Slots]
    BY <2>6
  <2> HIDE DEF s
  <2>8. s \in Seq(Slots) /\ Len(s) = n
    BY <2>7, FunctionIsSeq
  <2>9. OneSlotEach(s, n)
    BY <2>1, <2>6, <2>a DEF OneSlotEach
  <2>10. Guids(s, n) = In(g)
    BY <2>1, <2>6, <2>a DEF Guids
  <2> HIDE DEF slots, cap
  <2> QED
    BY <2>3, <2>4, <2>8, <2>9, <2>10
<1> HIDE DEF slots, cap
<1>4. ASSUME NEW g \in DOMAIN rows
      PROVE  /\ GroupOK(object'[g], arrays'[g]) /\ object'[g].settings = rows[g]
             /\ MemberSet(g)' = In(g) /\ OneSlotEach(ArrayOf(g)', object'[g].len)
  <2>1. PICK n \in Nat :
          /\ slots(g) \in Seq(Slots) /\ Len(slots(g)) = n /\ cap(g) \in Nat /\ n <= cap(g)
          /\ OneSlotEach(slots(g), n) /\ Guids(slots(g), n) = In(g)
    BY <1>3
  <2> HIDE DEF In
  <2>2. object'[g] = [settings |-> rows[g], cap |-> cap(g), len |-> n]
    BY <1>0, <2>1 DEF NewObject
  <2>3. cap(g) \in DOMAIN arrays'[g] /\ arrays'[g][cap(g)] = slots(g)
    BY <1>0 DEF NewArray
  <2>4. object'[g].settings = rows[g] /\ object'[g].cap = cap(g) /\ object'[g].len = n
    BY <2>2
  <2>5. GroupOK(object'[g], arrays'[g])
    BY <2>1, <2>2, <2>3, <2>4 DEF GroupOK
  <2>6. MemberSet(g)' = Guids(slots(g), n) /\ ArrayOf(g)' = slots(g)
    BY <2>3, <2>4, <2>5, MembersAreNext
  <2> QED
    BY <2>1, <2>4, <2>5, <2>6
<1>5. ASSUME NEW p \in Players
      PROVE  /\ memberOf[p] \in DOMAIN rows => ptr'[p] \in Pointers /\ ptr'[p].group = memberOf[p]
             /\ memberOf[p] \notin DOMAIN rows => ptr'[p] = NoPtr
  <2>1. CASE memberOf[p] \in DOMAIN rows
    <3>1. PICK g \in DOMAIN rows : g = memberOf[p]
      BY <2>1
    <3>2. cap(g) \in Nat /\ Len(slots(g)) \in Nat
      BY <1>3
    <3>3. g \in Nat \ {0}
      BY <1>1, <3>1 DEF DbShape
    <3>4. ptr'[p] = PointerTo(g, cap(g), slots(g), p)
      BY <1>0, <3>1
    <3> QED
      BY <2>1, <3>1, <3>2, <3>3, <3>4, PointerFields
  <2>2. CASE memberOf[p] \notin DOMAIN rows
    BY <1>0, <2>2
  <2> QED
    BY <2>1, <2>2
<1>6. \A x \in Pointers : x # NoPtr
  BY DEF Pointers, NoPtr
<1>7. CacheShape'
  <2>1. /\ DOMAIN arrays' = DOMAIN object' /\ DOMAIN object' = DOMAIN rows /\ cached' = DOMAIN rows
        /\ DOMAIN rows \subseteq 1 .. lastId /\ lastId' = lastId
    BY <1>0, <1>1 DEF DbShape
  <2>2. ptr' \in [Players -> Pointers \cup {NoPtr}]
    <3>1. \A p \in Players : ptr'[p] \in Pointers \cup {NoPtr}
      BY <1>5
    <3>2. DOMAIN ptr' = Players /\ ptr' = [p \in Players |-> ptr'[p]]
      BY <1>0
    <3> QED
      BY <3>1, <3>2
  <2>3. \A p \in Players : GroupIDByPlayer(p)' <= lastId
    BY <1>1, <1>5 DEF GroupIDByPlayer, DbShape
  <2> QED
    BY <1>4, <2>1, <2>2, <2>3 DEF CacheShape
<1>8. op'[c].kind = "idle" /\ op' \in [Procs -> OpStates] /\ events' \in Seq([player : Players, on : BOOLEAN])
  BY <1>0, OpKinds DEF Idle
<1>9. DbShape' /\ OpShape(c)'
  BY <1>1, <1>8 DEF DbShape, OpShape, OnGroup
<1>10. Kept(c)'
  BY <1>0, <1>4 DEF Kept
<1>11. Exact(c)'
  <2>1. Single'
    BY <1>0, <1>4 DEF Single, OneSlotEach
  <2>2. Stored(c)'
    BY <1>0, <1>4, <1>8 DEF Stored
  <2>3. Led'
    <3> SUFFICES ASSUME NEW p \in Players, NEW g
                 PROVE  g \in cached' /\ p \in MemberSet(g)' <=> ptr'[p] # NoPtr /\ ptr'[p].group = g
      BY DEF Led
    <3>1. g \in DOMAIN rows => (p \in MemberSet(g)' <=> memberOf[p] = g)
      BY <1>4
    <3>2. cached' = DOMAIN rows
      BY <1>0
    <3>3. ptr'[p] # NoPtr <=> memberOf[p] \in DOMAIN rows
      BY <1>5, <1>6
    <3>4. memberOf[p] \in DOMAIN rows => ptr'[p].group = memberOf[p]
      BY <1>5
    <3> QED
      BY <3>1, <3>2, <3>3, <3>4
  <2>4. Known(c)'
    BY <1>0, <1>4 DEF Known
  <2>5. NotYet(c)'
    BY <1>8 DEF NotYet
  <2> QED
    BY <2>1, <2>2, <2>3, <2>4, <2>5 DEF Exact
<1> QED
  BY <1>7, <1>9, <1>10, <1>11 DEF CacheInv, Shape

LEMMA NextKeeps ==
  ASSUME NEW c, Procs = {c}, CacheInv(c), [Next]_vars
  PROVE  CacheInv(c)'
<1>1. CASE Request(c)
  BY <1>1, RequestKeeps
<1>2. CASE Step(c)
  BY <1>2, StepKeeps
<1>3. CASE Panic(c)
  BY <1>3, WarmupKeeps DEF Panic, boundVars
<1>4. CASE Restart
  BY <1>4, WarmupKeeps DEF Restart
<1>5. CASE HandleLogInOut
  BY <1>5, HandleLogInOutKeeps
<1>6. ASSUME NEW p \in Players, LogInOut(p) PROVE CacheInv(c)'
  BY <1>6, LogInOutKeeps
<1>7. CASE UNCHANGED vars
  <2>1. UNCHANGED <<dbVars, cacheVars, op, failures>> /\ events' = events
    BY <1>7 DEF vars, boundVars
  <2>2. events' \in Seq([player : Players, on : BOOLEAN])
    BY <2>1 DEF CacheInv, Shape, OpShape
  <2> QED
    BY <2>1, <2>2, OtherKeeps
<1> QED
  BY <1>1, <1>2, <1>3, <1>4, <1>5, <1>6, <1>7 DEF Next

-----------------------------------------------------------------------------
\* As many slots as players, when each player has one.
LEMMA SlotsCount ==
  ASSUME NEW slots, NEW n \in Nat, OneSlotEach(slots, n)
  PROVE  Cardinality(Guids(slots, n)) = n
<1> DEFINE f == [i \in 1 .. n |-> slots[i].guid]
           S == Guids(slots, n)
<1>1. f \in [1 .. n -> S] /\ \A i \in 1 .. n : f[i] = slots[i].guid
  BY DEF Guids
<1>2. \A x \in S : \E i \in 1 .. n : f[i] = x
  BY DEF Guids
<1> HIDE DEF f, S
<1>3. \A i, j \in 1 .. n : f[i] = f[j] => i = j
  BY <1>1 DEF OneSlotEach
<1>4. f \in Bijection(1 .. n, S)
  BY <1>1, <1>2, <1>3 DEF Bijection, Injection, Surjection, IsInjective
<1>5. ExistsBijection(1 .. n, S)
  BY <1>4 DEF ExistsBijection
<1> QED
  BY <1>5, FS_CountingElements DEF S

LEMMA InvGivesCached ==
  ASSUME NEW c, Procs = {c}, CacheInv(c)
  PROVE  CacheAgreesWithDb
<1> SUFFICES ASSUME Quiet, NEW g \in cached
             PROVE  /\ {p \in Players : memberOf[p] = g} \subseteq MemberSet(g)
                    /\ failures = 0 => /\ MemberSet(g) = {p \in Players : memberOf[p] = g}
                                       /\ Cardinality({p \in Players : memberOf[p] = g}) = object[g].len
                                       /\ g \in DOMAIN rows /\ object[g].settings = rows[g]
  BY DEF CacheAgreesWithDb
<1>1. op[c].kind = "idle"
  BY DEF Quiet, Idle
<1>2. GroupOK(object[g], arrays[g])
  BY DEF CacheInv, Shape, CacheShape
<1>3. MemberSet(g) = Guids(ArrayOf(g), object[g].len) /\ MemberSet(g) \subseteq Players
  BY <1>2, MembersAre
<1>4. {p \in Players : memberOf[p] = g} \subseteq MemberSet(g)
  BY <1>1 DEF CacheInv, Kept
<1>5. ASSUME failures = 0
      PROVE  /\ MemberSet(g) = {p \in Players : memberOf[p] = g}
             /\ Cardinality(MemberSet(g)) = object[g].len
             /\ g \in DOMAIN rows /\ object[g].settings = rows[g]
  <2>1. \A p \in MemberSet(g) : memberOf[p] = g
    BY <1>1, <1>5 DEF CacheInv, Exact, Known
  <2>2. Cardinality(MemberSet(g)) = object[g].len
    <3>1. object[g].len \in Nat
      BY <1>2 DEF GroupOK
    <3>2. OneSlotEach(ArrayOf(g), object[g].len)
      BY <1>5 DEF CacheInv, Exact, Single
    <3> QED
      BY <1>3, <3>1, <3>2, SlotsCount
  <2>3. g \in DOMAIN rows /\ object[g].settings = rows[g]
    BY <1>1, <1>5 DEF CacheInv, Exact, Stored
  <2> QED
    BY <1>3, <1>4, <2>1, <2>2, <2>3
<1> QED
  BY <1>4, <1>5

LEMMA InvGivesLookup ==
  ASSUME NEW c, Procs = {c}, CacheInv(c)
  PROVE  LookupFindsGroup
<1> SUFFICES ASSUME failures = 0, NEW p \in Players
             PROVE  IF GroupIDByPlayer(p) = 0 THEN \A g \in cached : p \notin MemberSet(g)
                    ELSE GroupIDByPlayer(p) \in cached /\ p \in MemberSet(GroupIDByPlayer(p))
  BY DEF LookupFindsGroup
<1>1. \A g : g \in cached /\ p \in MemberSet(g) <=> ptr[p] # NoPtr /\ ptr[p].group = g
  BY DEF CacheInv, Exact, Led
<1>2. ptr[p] # NoPtr => ptr[p].group # 0
  BY DEF CacheInv, Shape, CacheShape, Pointers
<1> QED
  BY <1>1, <1>2 DEF GroupIDByPlayer

\* Between requests the cache, an "in mem cached proxy of groups repo"
\* (group-cache_inmem.go:14), has of every cached group each member MySQL has,
\* and until a statement fails exactly these, each once, with the settings of
\* the row: when the server handles one request at a time, however often it
\* panics or is restarted.
THEOREM GroupsAreCached ==
  ASSUME NEW c, Procs = {c}
  PROVE  Spec => []CacheAgreesWithDb
<1>1. Init => CacheInv(c)
  BY InitKeeps
<1>2. CacheInv(c) /\ [Next]_vars => CacheInv(c)'
  BY NextKeeps
<1>3. CacheInv(c) => CacheAgreesWithDb
  BY InvGivesCached
<1> QED
  BY <1>1, <1>2, <1>3, PTL DEF Spec

\* Until a statement fails, the pointer kept for a player leads to the one
\* cached group with the player in it, and players in no group have none
\* (GroupIDByPlayer, group-cache_inmem.go:47), one request at a time.
THEOREM PlayersAreFound ==
  ASSUME NEW c, Procs = {c}
  PROVE  Spec => []LookupFindsGroup
<1>1. Init => CacheInv(c)
  BY InitKeeps
<1>2. CacheInv(c) /\ [Next]_vars => CacheInv(c)'
  BY NextKeeps
<1>3. CacheInv(c) => LookupFindsGroup
  BY InvGivesLookup
<1> QED
  BY <1>1, <1>2, <1>3, PTL DEF Spec
=============================================================================
