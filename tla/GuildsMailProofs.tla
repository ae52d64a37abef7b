-------------------------- MODULE GuildsMailProofs -------------------------
(***************************************************************************)
(* Proofs about the guild server, for any number of characters, guilds,    *)
(* calls and failing statements, and about the mail server, for every set  *)
(* of characters and items, every purse and price and all bounds.          *)
(***************************************************************************)
EXTENDS MailServer, GuildServer, FiniteSums

(***************************************************************************)
(* The guild server                                                        *)
(***************************************************************************)

\* Nothing is no row of guild_member.
NothingIsNoRow == \A g, rank, note : Nothing # [g |-> g, rank |-> rank, note |-> note]

MemberKinds == {"join", "part", "rank", "note"}
OtherKinds  == {"invite", "motd", "rights", "addrank", "droprank"}

IsRow(m) == m = Nothing \/ (m = [g |-> m.g, rank |-> m.rank, note |-> m.note] /\ m.g \in Guilds)
DbOK(d) ==
  /\ d = [member |-> d.member, rights |-> d.rights, invite |-> d.invite, motd |-> d.motd]
  /\ d.member = [c \in GuildChars |-> d.member[c]]
  /\ \A c \in GuildChars : IsRow(d.member[c])
  /\ d.invite \in [GuildChars -> Guilds \cup {Nothing}]
CacheOK ==
  /\ index \in [GuildChars -> Guilds \cup {Nothing}]
  /\ entries = [g \in Guilds |-> [c \in GuildChars |-> entries[g][c]]]
WriteOK(w) ==
  /\ w.k \in MemberKinds \cup OtherKinds
  /\ w.k \in MemberKinds \cup {"invite"} => w.c \in GuildChars
  /\ w.k \in {"join", "invite"} => w.g \in Guilds
CallOK(u, call) ==
  /\ call.at \in {"idle", "decide", "accept", "db", "cache"}
  /\ call.at = "decide" => /\ call.op \in OwnOps \cup TargetOps \cup {"invite"}
                           /\ call.g \in Guilds /\ call.t \in GuildChars
                           /\ call.op \in OwnOps => call.t = u
  /\ call.at = "accept" => call.c = u /\ call.g \in Guilds
  /\ call.at \in {"db", "cache"} => call = [at |-> call.at, w |-> call.w] /\ WriteOK(call.w)
CallsOK == /\ guildCalls = [u \in GuildChars |-> guildCalls[u]]
           /\ \A u \in GuildChars : CallOK(u, guildCalls[u])

\* The row a statement leaves behind.
After(w, old) ==
  CASE w.k = "join" -> [g |-> w.g, rank |-> w.rank, note |-> Nothing]
    [] w.k = "part" -> Nothing
    [] w.k = "rank" -> IF old = Nothing THEN Nothing ELSE [old EXCEPT !.rank = w.rank]
    [] OTHER        -> IF old = Nothing THEN Nothing ELSE [old EXCEPT !.note = w.text]

\* An index i and lists e show the row of c; with rows m they show the row from
\* before the write w, which is still to be applied.
Shown(i, e, c, row) ==
  /\ i[c] = (IF row = Nothing THEN Nothing ELSE row.g)
  /\ \A g \in Guilds : e[g][c] = IF row # Nothing /\ row.g = g
                                 THEN <<[rank |-> row.rank, note |-> row.note]>> ELSE <<>>
Applied(m, i, e, c, w) ==
  \E old : /\ IsRow(old) /\ Shown(i, e, c, old) /\ m[c] = After(w, old)
           /\ w.k = "join" => old = Nothing

\* One call about a character at a time, unless two raced for it: until it has
\* written, the cache shows the row, and then the row it has overwritten.
InOrder(cs, m, i, e, c) ==
  /\ \A u, v \in GuildChars : Subject(cs[u]) = c /\ Subject(cs[v]) = c => u = v
  /\ (\A u \in GuildChars : Subject(cs[u]) = c => cs[u].at # "cache") => Shown(i, e, c, m[c])
  /\ \A u \in GuildChars : Subject(cs[u]) = c /\ cs[u].at = "cache" => Applied(m, i, e, c, cs[u].w)
Orderly(c) == c \notin raced => InOrder(guildCalls, db.member, index, entries, c)

MemberInv == DbOK(db) /\ CacheOK /\ CallsOK /\ \A c \in GuildChars : Orderly(c)

-----------------------------------------------------------------------------
\* Rows.
LEMMA RowUpdated ==
  ASSUME NothingIsNoRow, NEW m, IsRow(m), m # Nothing, NEW x
  PROVE  /\ [m EXCEPT !.rank = x] = [g |-> m.g, rank |-> x, note |-> m.note]
         /\ [m EXCEPT !.note = x] = [g |-> m.g, rank |-> m.rank, note |-> x]
         /\ IsRow([m EXCEPT !.rank = x]) /\ [m EXCEPT !.rank = x] # Nothing
         /\ IsRow([m EXCEPT !.note = x]) /\ [m EXCEPT !.note = x] # Nothing
<1>1. m = [g |-> m.g, rank |-> m.rank, note |-> m.note] /\ m.g \in Guilds
  BY DEF IsRow
<1>2. /\ [m EXCEPT !.rank = x] = [g |-> m.g, rank |-> x, note |-> m.note]
      /\ [m EXCEPT !.note = x] = [g |-> m.g, rank |-> m.rank, note |-> x]
  BY <1>1
<1>3. \A y, z : IsRow([g |-> m.g, rank |-> y, note |-> z]) /\ [g |-> m.g, rank |-> y, note |-> z] # Nothing
  BY <1>1 DEF IsRow, NothingIsNoRow
<1> QED
  BY <1>2, <1>3

LEMMA AfterIsRow ==
  ASSUME NothingIsNoRow, NEW w, WriteOK(w), w.k \in MemberKinds, NEW m, IsRow(m)
  PROVE  IsRow(After(w, m))
<1>1. CASE w.k = "join"
  BY <1>1 DEF After, IsRow, WriteOK
<1>2. CASE w.k = "part"
  BY <1>2 DEF After, IsRow
<1>3. CASE w.k \in {"rank", "note"} /\ m = Nothing
  BY <1>3 DEF After, IsRow
<1>4. CASE w.k \in {"rank", "note"} /\ m # Nothing
  BY <1>4, RowUpdated DEF After
<1> QED
  BY <1>1, <1>2, <1>3, <1>4 DEF MemberKinds

\* What a statement does to the rows of guild_member.
LEMMA StatementDoes ==
  ASSUME NothingIsNoRow, DbOK(db), NEW w, WriteOK(w)
  PROVE  /\ DbOK(Statement(w))
         /\ \A d \in GuildChars : Statement(w).member[d] =
              IF w.k \in MemberKinds /\ w.c = d THEN After(w, db.member[d]) ELSE db.member[d]
<1>1. /\ db = [member |-> db.member, rights |-> db.rights, invite |-> db.invite, motd |-> db.motd]
      /\ db.member = [c \in GuildChars |-> db.member[c]]
      /\ \A c \in GuildChars : IsRow(db.member[c])
      /\ db.invite \in [GuildChars -> Guilds \cup {Nothing}]
  BY DEF DbOK
<1>2. CASE w.k \in MemberKinds
  <2>1. w.c \in GuildChars /\ IsRow(After(w, db.member[w.c]))
    BY <1>1, <1>2, AfterIsRow DEF WriteOK
  <2>2. /\ Statement(w).member = [db.member EXCEPT ![w.c] = After(w, db.member[w.c])]
        /\ Statement(w) = [member |-> Statement(w).member, rights |-> db.rights,
                           invite |-> db.invite, motd |-> db.motd]
    <3>1. \A m : [db EXCEPT !.member = m] =
                   [member |-> m, rights |-> db.rights, invite |-> db.invite, motd |-> db.motd]
      BY <1>1
    <3>2. db.member = [db.member EXCEPT ![w.c] = db.member[w.c]]
      BY <1>1, <2>1
    <3>3. CASE w.k = "join"
      BY <3>1, <3>3 DEF Statement, After
    <3>4. CASE w.k = "part"
      BY <3>1, <3>4 DEF Statement, After
    <3>5. CASE w.k = "rank"
      BY <1>1, <3>1, <3>2, <3>5 DEF Statement, After
    <3>6. CASE w.k = "note"
      BY <1>1, <3>1, <3>2, <3>6 DEF Statement, After
    <3> QED
      BY <1>2, <3>3, <3>4, <3>5, <3>6 DEF MemberKinds
  <2> DEFINE s == Statement(w)
  <2>3. s.rights = db.rights /\ s.invite = db.invite /\ s.motd = db.motd
    BY <2>2
  <2>4. s.member = [c \in GuildChars |-> s.member[c]] /\
        \A d \in GuildChars : s.member[d] = IF w.c = d THEN After(w, db.member[d]) ELSE db.member[d]
    BY <1>1, <2>1, <2>2
  <2> HIDE DEF s
  <2> QED
    BY <1>1, <1>2, <2>1, <2>2, <2>3, <2>4 DEF DbOK, s
<1>3. CASE w.k \in OtherKinds
  <2> DEFINE s == Statement(w)
  <2>1. /\ s = [member |-> s.member, rights |-> s.rights, invite |-> s.invite, motd |-> s.motd]
        /\ s.member = db.member
        /\ s.invite \in [GuildChars -> Guilds \cup {Nothing}]
    <3>1. CASE w.k = "invite"
      <4>1. s = [db EXCEPT !.invite[w.c] = w.g]
        BY <3>1 DEF Statement
      <4>2. w.c \in GuildChars /\ w.g \in Guilds
        BY <3>1 DEF WriteOK
      <4> HIDE DEF s
      <4> QED
        BY <1>1, <4>1, <4>2
    <3>2. CASE w.k = "motd"
      BY <1>1, <3>2 DEF Statement
    <3>3. CASE w.k = "rights"
      BY <1>1, <3>3 DEF Statement
    <3>4. CASE w.k = "addrank"
      BY <1>1, <3>4 DEF Statement
    <3>5. CASE w.k = "droprank"
      BY <1>1, <3>5 DEF Statement
    <3> QED
      BY <1>3, <3>1, <3>2, <3>3, <3>4, <3>5 DEF OtherKinds
  <2> HIDE DEF s
  <2>2. w.k \notin MemberKinds
    BY <1>3 DEF OtherKinds, MemberKinds
  <2> QED
    BY <1>1, <2>1, <2>2 DEF DbOK, s
<1> QED
  BY <1>2, <1>3 DEF WriteOK

-----------------------------------------------------------------------------
\* A call goes on.
LEMMA CallsType ==
  ASSUME CallsOK, NEW u \in GuildChars, NEW r, CallOK(u, r), Proceeds(u, r)
  PROVE  CallsOK' /\ \A v \in GuildChars : guildCalls'[v] = IF v = u THEN r ELSE guildCalls[v]
BY DEF CallsOK, Proceeds

\* What the cache shows of a character, when nothing about it changes.
LEMMA ShownKept ==
  ASSUME NEW c \in GuildChars, NEW m, NEW i, NEW e, NEW n, NEW j, NEW f,
         n[c] = m[c], j[c] = i[c], \A g \in Guilds : f[g][c] = e[g][c]
  PROVE  /\ \A row : Shown(i, e, c, row) => Shown(j, f, c, row)
         /\ \A w : Applied(m, i, e, c, w) => Applied(n, j, f, c, w)
<1>1. \A row : Shown(i, e, c, row) => Shown(j, f, c, row)
  BY DEF Shown
<1> QED
  BY <1>1 DEF Applied

\* A call that is not past its write, before and after, changes no row and
\* nothing in the cache; it may only be about a new character if no other is.
LEMMA CallProceeds ==
  ASSUME MemberInv, NEW u \in GuildChars, NEW r, CallOK(u, r), Proceeds(u, r),
         guildCalls[u].at # "cache", r.at # "cache",
         DbOK(db'), db'.member = db.member, UNCHANGED <<index, entries>>, raced \subseteq raced',
         \A c \in GuildChars : c \notin raced' /\ Subject(r) = c =>
           \A v \in GuildChars : Subject(guildCalls[v]) = c => v = u
  PROVE  MemberInv'
<1>1. CallsOK' /\ \A v \in GuildChars : guildCalls'[v] = IF v = u THEN r ELSE guildCalls[v]
  BY CallsType DEF MemberInv
<1>2. ASSUME NEW c \in GuildChars, c \notin raced' PROVE InOrder(guildCalls', db.member, index, entries, c)
  <2>1. InOrder(guildCalls, db.member, index, entries, c)
    BY <1>2 DEF MemberInv, Orderly
  <2>2. \A x, v \in GuildChars : Subject(guildCalls'[x]) = c /\ Subject(guildCalls'[v]) = c => x = v
    BY <1>1, <1>2, <2>1 DEF InOrder
  <2>3. ASSUME \A v \in GuildChars : Subject(guildCalls'[v]) = c => guildCalls'[v].at # "cache"
        PROVE  \A v \in GuildChars : Subject(guildCalls[v]) = c => guildCalls[v].at # "cache"
    BY <1>1, <2>3
  <2>4. ASSUME NEW v \in GuildChars, Subject(guildCalls'[v]) = c, guildCalls'[v].at = "cache"
        PROVE  Applied(db.member, index, entries, c, guildCalls'[v].w)
    BY <1>1, <2>1, <2>4 DEF InOrder
  <2> QED
    BY <2>1, <2>2, <2>3, <2>4 DEF InOrder
<1>3. \A c \in GuildChars : Orderly(c)'
  BY <1>2 DEF Orderly
<1>4. CacheOK' /\ DbOK(db)'
  BY DEF MemberInv, CacheOK
<1> QED
  BY <1>1, <1>3, <1>4 DEF MemberInv

\* Who a call is about.
LEMMA SubjectOf ==
  /\ Subject(NoCall) = Nothing
  /\ \A op, g, t : Subject([at |-> "decide", op |-> op, g |-> g, t |-> t]) =
       IF op \in {"leave", "kick", "promote", "demote", "note", "offnote"} THEN t ELSE Nothing
  /\ \A c, g : Subject([at |-> "accept", c |-> c, g |-> g]) = c
  /\ \A at, w : at \in {"db", "cache"} =>
       Subject([at |-> at, w |-> w]) = IF w.k \in MemberKinds THEN w.c ELSE Nothing
BY DEF Subject, NoCall, MemberKinds

LEMMA IdleIsCall ==
  ASSUME NEW u
  PROVE  CallOK(u, NoCall) /\ NoCall.at # "cache"
BY DEF CallOK, NoCall

\* The call ends before its write, or goes on to its write.
LEMMA EndsQuietly ==
  ASSUME GuildAssumption, MemberInv, NEW u \in GuildChars, Proceeds(u, NoCall), guildCalls[u].at # "cache",
         UNCHANGED <<db, index, entries, raced>>
  PROVE  MemberInv'
<1>1. \A c \in GuildChars : Subject(NoCall) # c
  BY SubjectOf DEF GuildAssumption
<1>2. DbOK(db') /\ db'.member = db.member
  BY DEF MemberInv
<1> QED
  BY <1>1, <1>2, IdleIsCall, CallProceeds

LEMMA RefuseKeeps ==
  ASSUME GuildAssumption, MemberInv, NEW u \in GuildChars, Refuse(u), guildCalls[u].at # "cache"
  PROVE  MemberInv'
BY EndsQuietly DEF Refuse, cacheVars, guildHistory

LEMMA GoesToWrite ==
  ASSUME GuildAssumption, MemberInv, NEW u \in GuildChars, NEW w, WriteOK(w),
         Proceeds(u, [at |-> "db", w |-> w]), guildCalls[u].at # "cache",
         w.k \in MemberKinds => w.c = Subject(guildCalls[u]),
         DbOK(db'), db'.member = db.member, UNCHANGED <<index, entries, raced>>
  PROVE  MemberInv'
<1> DEFINE r == [at |-> "db", w |-> w]
<1>1. r.at = "db" /\ r.w = w /\ CallOK(u, r)
  BY DEF CallOK
<1>2. Subject(r) = IF w.k \in MemberKinds THEN w.c ELSE Nothing
  BY SubjectOf
<1> HIDE DEF r
<1>3. ASSUME NEW c \in GuildChars, c \notin raced', Subject(r) = c, NEW v \in GuildChars, Subject(guildCalls[v]) = c
      PROVE  v = u
  <2>1. Subject(guildCalls[u]) = c
    BY <1>2, <1>3 DEF GuildAssumption
  <2>2. InOrder(guildCalls, db.member, index, entries, c)
    BY <1>3 DEF MemberInv, Orderly
  <2> QED
    BY <1>3, <2>1, <2>2 DEF InOrder
<1> QED
  BY <1>1, <1>3, CallProceeds DEF r

LEMMA WriteKeeps ==
  ASSUME GuildAssumption, MemberInv, NEW u \in GuildChars, NEW w, WriteOK(w), Write(u, w),
         guildCalls[u].at # "cache", w.k \in MemberKinds => w.c = Subject(guildCalls[u])
  PROVE  MemberInv'
<1>1. DbOK(db') /\ db'.member = db.member /\ UNCHANGED <<index, entries, raced>>
      /\ Proceeds(u, [at |-> "db", w |-> w])
  BY DEF Write, cacheVars, guildHistory, MemberInv
<1> QED
  BY <1>1, GoesToWrite

\* A call begins.
LEMMA BeganKeeps ==
  ASSUME GuildAssumption, MemberInv, NEW u \in GuildChars, NEW r, CallOK(u, r), r.at # "cache", Began(u, r)
  PROVE  MemberInv'
<1>1. /\ guildCalls[u] = NoCall /\ Proceeds(u, r) /\ UNCHANGED <<db, index, entries>>
      /\ raced' = raced \cup {c \in GuildChars : Subject(r) = c /\ \E v \in GuildChars : Subject(guildCalls[v]) = c}
  BY DEF Began, cacheVars
<1>2. DbOK(db') /\ db'.member = db.member /\ guildCalls[u].at # "cache" /\ raced \subseteq raced'
  BY <1>1, IdleIsCall DEF MemberInv
<1>3. \A c \in GuildChars : c \notin raced' /\ Subject(r) = c => \A v \in GuildChars : Subject(guildCalls[v]) = c => v = u
  BY <1>1
<1> QED
  BY <1>1, <1>2, <1>3, CallProceeds

LEMMA BeginKeeps ==
  ASSUME GuildAssumption, MemberInv, NEW u \in GuildChars, Begin(u)
  PROVE  MemberInv'
<1>1. PICK op \in OwnOps \cup TargetOps \cup {"invite"} : \E t \in GuildChars :
        (op \in OwnOps => t = u) /\ Began(u, [at |-> "decide", op |-> op, g |-> index[u], t |-> t])
  BY DEF Begin
<1>2. PICK t \in GuildChars :
        (op \in OwnOps => t = u) /\ Began(u, [at |-> "decide", op |-> op, g |-> index[u], t |-> t])
  BY <1>1
<1>3. index[u] \in Guilds
  BY DEF Begin, MemberInv, CacheOK
<1> DEFINE r == [at |-> "decide", op |-> op, g |-> index[u], t |-> t]
<1>4. CallOK(u, r) /\ r.at # "cache"
  BY <1>2, <1>3 DEF CallOK
<1> HIDE DEF r
<1> QED
  BY <1>2, <1>4, BeganKeeps DEF r

LEMMA InviteAcceptedKeeps ==
  ASSUME GuildAssumption, MemberInv, NEW u \in GuildChars, InviteAccepted(u)
  PROVE  MemberInv'
<1> DEFINE r == [at |-> "accept", c |-> u, g |-> db.invite[u]]
<1>1. db.invite[u] \in Guilds /\ Began(u, r)
  BY DEF InviteAccepted, MemberInv, DbOK
<1>2. CallOK(u, r) /\ r.at # "cache"
  BY <1>1 DEF CallOK
<1> HIDE DEF r
<1> QED
  BY <1>1, <1>2, BeganKeeps

\* The process starts again: the cache is read from the tables.
LEMMA PanicKeeps ==
  ASSUME GuildAssumption, NothingIsNoRow, MemberInv, Panic
  PROVE  MemberInv'
<1>1. /\ db' = db /\ index' = IndexFrom(db.member) /\ entries' = EntriesFrom(db.member)
      /\ guildCalls' = [c \in GuildChars |-> NoCall] /\ raced' = {}
  BY DEF Panic, Warmup
<1>2. DbOK(db)' /\ \A c \in GuildChars : IsRow(db.member[c])
  BY <1>1 DEF MemberInv, DbOK
<1>3. CacheOK'
  <2>1. \A c \in GuildChars : IndexFrom(db.member)[c] \in Guilds \cup {Nothing}
    BY <1>2 DEF IndexFrom, IsRow
  <2>2. index' \in [GuildChars -> Guilds \cup {Nothing}]
    BY <1>1, <2>1 DEF IndexFrom
  <2>3. entries' = [g \in Guilds |-> [c \in GuildChars |-> entries'[g][c]]]
    BY <1>1 DEF EntriesFrom
  <2> QED
    BY <2>2, <2>3 DEF CacheOK
<1>4. CallsOK' /\ \A u \in GuildChars : guildCalls'[u] = NoCall
  BY <1>1, IdleIsCall DEF CallsOK
<1>5. ASSUME NEW c \in GuildChars PROVE InOrder(guildCalls', db.member, index', entries', c)
  <2>1. Shown(index', entries', c, db.member[c])
    BY <1>1 DEF Shown, IndexFrom, EntriesFrom
  <2>2. \A u \in GuildChars : Subject(guildCalls'[u]) # c
    BY <1>4, SubjectOf DEF GuildAssumption
  <2> QED
    BY <2>1, <2>2 DEF InOrder
<1>6. \A c \in GuildChars : Orderly(c)'
  BY <1>1, <1>5 DEF Orderly
<1> QED
  BY <1>2, <1>3, <1>4, <1>6 DEF MemberInv

-----------------------------------------------------------------------------
\* What a call that decides is about.
LEMMA DecidesOn ==
  ASSUME MemberInv, NEW u \in GuildChars, NEW ops, Deciding(u, ops)
  PROVE  /\ guildCalls[u].at = "decide" /\ guildCalls[u].at # "cache" /\ guildCalls[u].op \in ops
         /\ guildCalls[u].g \in Guilds /\ guildCalls[u].t \in GuildChars
         /\ guildCalls[u].op \in OwnOps => guildCalls[u].t = u
         /\ guildCalls[u].op \in {"leave", "kick", "promote", "demote", "note", "offnote"} =>
              Subject(guildCalls[u]) = guildCalls[u].t
<1>1. guildCalls[u].at = "decide" /\ guildCalls[u].op \in ops
  BY DEF Deciding
<1>2. CallOK(u, guildCalls[u])
  BY DEF MemberInv, CallsOK
<1> QED
  BY <1>1, <1>2 DEF CallOK, Subject

\* It panics, refuses, or goes on to a write about that character.
LEMMA DecisionKeeps ==
  ASSUME GuildAssumption, NothingIsNoRow, MemberInv, NEW u \in GuildChars, guildCalls[u].at # "cache",
         \/ Panic
         \/ Refuse(u)
         \/ \E w : WriteOK(w) /\ Write(u, w) /\ (w.k \in MemberKinds => w.c = Subject(guildCalls[u]))
  PROVE  MemberInv'
BY PanicKeeps, RefuseKeeps, WriteKeeps

LEMMA DecideKeeps ==
  ASSUME GuildAssumption, NothingIsNoRow, MemberInv, NEW u \in GuildChars,
         \/ InviteMember(u) \/ Leave(u) \/ Kick(u) \/ UpdateRank(u)
         \/ SetMessageOfTheDay(u) \/ SetMemberNote(u)
         \/ UpdateGuildRank(u) \/ AddGuildRank(u) \/ DeleteLastGuildRank(u)
  PROVE  MemberInv'
<1> USE DEF MemberKinds, OtherKinds, WriteOK
<1>1. CASE InviteMember(u)
  <2> DEFINE w == [k |-> "invite", c |-> guildCalls[u].t, g |-> guildCalls[u].g, by |-> u]
  <2>1. Deciding(u, {"invite"}) /\ (Refuse(u) \/ Write(u, w))
    BY <1>1 DEF InviteMember
  <2>2. WriteOK(w) /\ w.k \notin MemberKinds /\ guildCalls[u].at # "cache"
    BY <2>1, DecidesOn
  <2> HIDE DEF w, MemberKinds, WriteOK
  <2> QED
    BY <2>1, <2>2, DecisionKeeps
<1>2. CASE Leave(u)
  <2> DEFINE w == [k |-> "part", c |-> u]
  <2>1. Deciding(u, {"leave"}) /\ (Panic \/ Refuse(u) \/ Write(u, w))
    BY <1>2 DEF Leave
  <2>2. WriteOK(w) /\ w.c = Subject(guildCalls[u]) /\ guildCalls[u].at # "cache"
    BY <2>1, DecidesOn DEF OwnOps
  <2> HIDE DEF w, MemberKinds, WriteOK
  <2> QED
    BY <2>1, <2>2, DecisionKeeps
<1>3. CASE Kick(u)
  <2> DEFINE w == [k |-> "part", c |-> guildCalls[u].t]
  <2>1. Deciding(u, {"kick"}) /\ (Panic \/ Refuse(u) \/ Write(u, w))
    BY <1>3 DEF Kick
  <2>2. WriteOK(w) /\ w.c = Subject(guildCalls[u]) /\ guildCalls[u].at # "cache"
    BY <2>1, DecidesOn
  <2> HIDE DEF w, MemberKinds, WriteOK
  <2> QED
    BY <2>1, <2>2, DecisionKeeps
<1>4. CASE UpdateRank(u)
  <2>1. Deciding(u, {"promote", "demote"}) /\
        (Panic \/ Refuse(u)
         \/ \E rank, known : Write(u, [k |-> "rank", c |-> guildCalls[u].t, rank |-> rank, known |-> known]))
    BY <1>4 DEF UpdateRank
  <2>2. ASSUME NEW rank, NEW known
        PROVE  LET w == [k |-> "rank", c |-> guildCalls[u].t, rank |-> rank, known |-> known]
               IN  WriteOK(w) /\ w.c = Subject(guildCalls[u])
    BY <2>1, DecidesOn
  <2>3. guildCalls[u].at # "cache"
    BY <2>1, DecidesOn
  <2> HIDE DEF MemberKinds, WriteOK
  <2> QED
    BY <2>1, <2>2, <2>3, DecisionKeeps
<1>5. CASE SetMessageOfTheDay(u)
  <2> DEFINE w == [k |-> "motd", g |-> guildCalls[u].g, text |-> u]
  <2>1. Deciding(u, {"motd"}) /\ (Panic \/ Refuse(u) \/ Write(u, w))
    BY <1>5 DEF SetMessageOfTheDay
  <2>2. WriteOK(w) /\ w.k \notin MemberKinds /\ guildCalls[u].at # "cache"
    BY <2>1, DecidesOn
  <2> HIDE DEF w, MemberKinds, WriteOK
  <2> QED
    BY <2>1, <2>2, DecisionKeeps
<1>6. CASE SetMemberNote(u)
  <2> DEFINE w == [k |-> "note", c |-> guildCalls[u].t, text |-> u, g |-> guildCalls[u].g, by |-> u]
  <2>1. Deciding(u, {"note", "offnote"}) /\ (Panic \/ Refuse(u) \/ Write(u, w))
    BY <1>6 DEF SetMemberNote
  <2>2. WriteOK(w) /\ w.c = Subject(guildCalls[u]) /\ guildCalls[u].at # "cache"
    BY <2>1, DecidesOn
  <2> HIDE DEF w, MemberKinds, WriteOK
  <2> QED
    BY <2>1, <2>2, DecisionKeeps
<1>7. CASE UpdateGuildRank(u)
  <2>1. Deciding(u, {"rights"}) /\
        (Panic \/ Refuse(u)
         \/ \E rid, rights : Write(u, [k |-> "rights", g |-> guildCalls[u].g, rid |-> rid, rights |-> rights]))
    BY <1>7 DEF UpdateGuildRank
  <2>2. ASSUME NEW rid, NEW rights
        PROVE  LET w == [k |-> "rights", g |-> guildCalls[u].g, rid |-> rid, rights |-> rights]
               IN  WriteOK(w) /\ w.k \notin MemberKinds
    OBVIOUS
  <2>3. guildCalls[u].at # "cache"
    BY <2>1, DecidesOn
  <2> HIDE DEF MemberKinds, WriteOK
  <2> QED
    BY <2>1, <2>2, <2>3, DecisionKeeps
<1>8. CASE AddGuildRank(u)
  <2>1. Deciding(u, {"addrank"}) /\
        (Panic \/ Refuse(u) \/ \E rid : Write(u, [k |-> "addrank", g |-> guildCalls[u].g, rid |-> rid]))
    BY <1>8 DEF AddGuildRank
  <2>2. ASSUME NEW rid
        PROVE  LET w == [k |-> "addrank", g |-> guildCalls[u].g, rid |-> rid]
               IN  WriteOK(w) /\ w.k \notin MemberKinds
    OBVIOUS
  <2>3. guildCalls[u].at # "cache"
    BY <2>1, DecidesOn
  <2> HIDE DEF MemberKinds, WriteOK
  <2> QED
    BY <2>1, <2>2, <2>3, DecisionKeeps
<1>9. CASE DeleteLastGuildRank(u)
  <2>1. Deciding(u, {"droprank"}) /\
        (Panic \/ Refuse(u) \/ \E rid : Write(u, [k |-> "droprank", g |-> guildCalls[u].g, rid |-> rid]))
    BY <1>9 DEF DeleteLastGuildRank
  <2>2. ASSUME NEW rid
        PROVE  LET w == [k |-> "droprank", g |-> guildCalls[u].g, rid |-> rid]
               IN  WriteOK(w) /\ w.k \notin MemberKinds
    OBVIOUS
  <2>3. guildCalls[u].at # "cache"
    BY <2>1, DecidesOn
  <2> HIDE DEF MemberKinds, WriteOK
  <2> QED
    BY <2>1, <2>2, <2>3, DecisionKeeps
<1> QED
  BY <1>1, <1>2, <1>3, <1>4, <1>5, <1>6, <1>7, <1>8, <1>9

-----------------------------------------------------------------------------
\* The statement is executed: the cache now shows the row from before it.
LEMMA DbStepKeeps ==
  ASSUME GuildAssumption, NothingIsNoRow, MemberInv, NEW u \in GuildChars, DbStep(u)
  PROVE  MemberInv'
<1> DEFINE w == guildCalls[u].w
           r == [at |-> "cache", w |-> w]
<1>1. guildCalls[u] = [at |-> "db", w |-> w] /\ WriteOK(w)
  BY DEF DbStep, MemberInv, CallsOK, CallOK
<1>2. /\ db' = Statement(w) /\ ~Duplicate(w) /\ Proceeds(u, r) /\ UNCHANGED <<index, entries, raced>>
  <2>1. [guildCalls[u] EXCEPT !.at = "cache"] = r
    BY <1>1
  <2> QED
    BY <2>1 DEF DbStep, cacheVars
<1>3. Subject(guildCalls[u]) = Subject(r) /\ Subject(r) = IF w.k \in MemberKinds THEN w.c ELSE Nothing
  BY <1>1, SubjectOf
<1>4. CallOK(u, r) /\ r.at = "cache" /\ r.w = w
  BY <1>1 DEF CallOK
<1> HIDE DEF r
<1>5. CallsOK' /\ \A v \in GuildChars : guildCalls'[v] = IF v = u THEN r ELSE guildCalls[v]
  BY <1>2, <1>4, CallsType DEF MemberInv
<1>6. guildCalls[u].at = "db"
  BY <1>1
<1>7. ~Duplicate(w) /\ w.k = "join" => db.member[w.c] = Nothing
  BY DEF Duplicate
<1> HIDE DEF w
<1>8. /\ DbOK(db')
      /\ \A d \in GuildChars : db'.member[d] =
           IF w.k \in MemberKinds /\ w.c = d THEN After(w, db.member[d]) ELSE db.member[d]
  BY <1>1, <1>2, StatementDoes DEF MemberInv
<1>9. \A v \in GuildChars : Subject(guildCalls'[v]) = Subject(guildCalls[v])
  BY <1>3, <1>5
<1>10. ASSUME NEW c \in GuildChars, c \notin raced PROVE InOrder(guildCalls', db'.member, index, entries, c)
  <2>1. InOrder(guildCalls, db.member, index, entries, c)
    BY <1>10 DEF MemberInv, Orderly
  <2>2. CASE Subject(guildCalls[u]) = c
    <3>1. \A v \in GuildChars : Subject(guildCalls[v]) = c => v = u
      BY <2>1, <2>2 DEF InOrder
    <3>2. Shown(index, entries, c, db.member[c])
      BY <1>6, <2>1, <3>1 DEF InOrder
    <3>3. w.k \in MemberKinds /\ w.c = c
      BY <1>3, <2>2 DEF GuildAssumption
    <3>4. IsRow(db.member[c])
      BY DEF MemberInv, DbOK
    <3>5. Applied(db'.member, index, entries, c, w)
      BY <1>2, <1>7, <1>8, <3>2, <3>3, <3>4 DEF Applied
    <3> QED
      BY <1>4, <1>5, <1>9, <2>2, <3>1, <3>5 DEF InOrder
  <2>3. CASE Subject(guildCalls[u]) # c
    <3>1. db'.member[c] = db.member[c]
      BY <1>3, <1>8, <2>3
    <3>2. \A v \in GuildChars : Subject(guildCalls'[v]) = c => guildCalls'[v] = guildCalls[v]
      BY <1>5, <1>9, <2>3
    <3>3. \A x : Applied(db.member, index, entries, c, x) => Applied(db'.member, index, entries, c, x)
      BY <3>1 DEF Applied
    <3> QED
      BY <1>9, <2>1, <3>1, <3>2, <3>3 DEF InOrder
  <2> QED
    BY <2>2, <2>3
<1>11. \A c \in GuildChars : Orderly(c)'
  BY <1>2, <1>10 DEF Orderly
<1>12. CacheOK'
  BY <1>2 DEF MemberInv, CacheOK
<1> QED
  BY <1>5, <1>8, <1>11, <1>12 DEF MemberInv

LEMMA RemoveGuildInviteKeeps ==
  ASSUME GuildAssumption, MemberInv, NEW u \in GuildChars, RemoveGuildInvite(u)
  PROVE  MemberInv'
<1> DEFINE w == [k |-> "join", c |-> u, g |-> guildCalls[u].g, rank |-> LowestRankInGuild(guildCalls[u].g)]
<1>1. /\ db' = [db EXCEPT !.invite[u] = Nothing] /\ Proceeds(u, [at |-> "db", w |-> w])
      /\ UNCHANGED <<index, entries, raced>> /\ guildCalls[u].at = "accept"
  BY DEF RemoveGuildInvite, cacheVars, guildHistory
<1>2. guildCalls[u].c = u /\ guildCalls[u].g \in Guilds /\ Subject(guildCalls[u]) = u
  BY <1>1 DEF MemberInv, CallsOK, CallOK, Subject
<1>3. WriteOK(w) /\ w.c = Subject(guildCalls[u])
  BY <1>2 DEF WriteOK, MemberKinds, OtherKinds
<1> HIDE DEF w
<1>4. DbOK(db') /\ db'.member = db.member
  <2>1. /\ db = [member |-> db.member, rights |-> db.rights, invite |-> db.invite, motd |-> db.motd]
        /\ db.invite \in [GuildChars -> Guilds \cup {Nothing}]
    BY DEF MemberInv, DbOK
  <2>2. db' = [member |-> db.member, rights |-> db.rights,
               invite |-> [db.invite EXCEPT ![u] = Nothing], motd |-> db.motd]
    BY <1>1, <2>1
  <2>3. db'.invite \in [GuildChars -> Guilds \cup {Nothing}] /\ db'.member = db.member
    BY <2>1, <2>2
  <2>4. db' = [member |-> db'.member, rights |-> db'.rights, invite |-> db'.invite, motd |-> db'.motd]
    BY <2>2
  <2> QED
    BY <2>3, <2>4 DEF MemberInv, DbOK
<1> QED
  BY <1>1, <1>3, <1>4, GoesToWrite

LEMMA DbFailsKeeps ==
  ASSUME GuildAssumption, MemberInv, NEW u \in GuildChars, DbFails(u)
  PROVE  MemberInv'
<1>1. guildCalls[u].at # "cache" /\ Proceeds(u, NoCall) /\ UNCHANGED <<db, index, entries, raced>>
  BY DEF DbFails, cacheVars
<1> QED
  BY <1>1, EndsQuietly

-----------------------------------------------------------------------------
(* The write reaches the cache.                                            *)

\* The call that ends was the only one about its character, which is then shown
\* as its row says; of the others nothing changes.
LEMMA CacheFollows ==
  ASSUME GuildAssumption, MemberInv, NEW u \in GuildChars, guildCalls[u].at = "cache", Proceeds(u, NoCall),
         CacheOK', db' = db, raced' = raced,
         \A c \in GuildChars : c # Subject(guildCalls[u]) =>
           index'[c] = index[c] /\ \A g \in Guilds : entries'[g][c] = entries[g][c],
         \A c \in GuildChars : c = Subject(guildCalls[u]) /\ Applied(db.member, index, entries, c, guildCalls[u].w)
           => Shown(index', entries', c, db.member[c])
  PROVE  MemberInv'
<1>1. CallsOK' /\ \A v \in GuildChars : guildCalls'[v] = IF v = u THEN NoCall ELSE guildCalls[v]
  BY CallsType, IdleIsCall DEF MemberInv
<1>2. ASSUME NEW c \in GuildChars, c \notin raced PROVE InOrder(guildCalls', db.member, index', entries', c)
  <2>1. InOrder(guildCalls, db.member, index, entries, c)
    BY <1>2 DEF MemberInv, Orderly
  <2>2. \A v \in GuildChars : Subject(guildCalls'[v]) = c => v # u /\ guildCalls'[v] = guildCalls[v]
    BY <1>1, SubjectOf DEF GuildAssumption
  <2>3. CASE c = Subject(guildCalls[u])
    <3>1. \A v \in GuildChars : Subject(guildCalls'[v]) # c
      BY <2>1, <2>2, <2>3 DEF InOrder
    <3>2. Applied(db.member, index, entries, c, guildCalls[u].w)
      BY <2>1, <2>3 DEF InOrder
    <3> QED
      BY <2>3, <3>1, <3>2 DEF InOrder
  <2>4. CASE c # Subject(guildCalls[u])
    <3>1. /\ \A row : Shown(index, entries, c, row) => Shown(index', entries', c, row)
          /\ \A w : Applied(db.member, index, entries, c, w) => Applied(db.member, index', entries', c, w)
      BY <2>4, ShownKept
    <3>2. \A v \in GuildChars : Subject(guildCalls'[v]) = c <=> Subject(guildCalls[v]) = c
      BY <1>1, <2>2, <2>4
    <3> QED
      BY <2>1, <2>2, <3>1, <3>2 DEF InOrder
  <2> QED
    BY <2>3, <2>4
<1>3. \A c \in GuildChars : Orderly(c)'
  BY <1>2 DEF Orderly
<1>4. DbOK(db)'
  BY DEF MemberInv
<1> QED
  BY <1>1, <1>3, <1>4 DEF MemberInv

\* A list of the cache is replaced: the lists of the other characters stay.
Replaced(g, c, l) == entries' = [entries EXCEPT ![g][c] = l]
LEMMA ListChanged ==
  ASSUME CacheOK, NEW g \in Guilds, NEW c \in GuildChars, NEW l, Replaced(g, c, l)
  PROVE  /\ entries' = [h \in Guilds |-> [d \in GuildChars |-> entries'[h][d]]]
         /\ \A h \in Guilds, d \in GuildChars : entries'[h][d] = IF h = g /\ d = c THEN l ELSE entries[h][d]
<1>1. entries = [h \in Guilds |-> [d \in GuildChars |-> entries[h][d]]]
  BY DEF CacheOK
<1>2. \A h \in Guilds, d \in GuildChars : entries'[h][d] = IF h = g /\ d = c THEN l ELSE entries[h][d]
  BY <1>1 DEF Replaced
<1>3. entries' = [h \in Guilds |-> IF h = g THEN [entries[g] EXCEPT ![c] = l] ELSE entries[h]]
  BY <1>1 DEF Replaced
<1>4. \A h \in Guilds : entries[h] = [d \in GuildChars |-> entries[h][d]]
  BY <1>1
<1>5. \A h \in Guilds : entries'[h] = [d \in GuildChars |-> entries'[h][d]]
  BY <1>2, <1>3, <1>4
<1>6. entries' = [h \in Guilds |-> entries'[h]]
  BY <1>3
<1> QED
  BY <1>2, <1>5, <1>6

\* Lists with one object.
LEMMA OneObject ==
  ASSUME NEW x
  PROVE  Append(<<>>, x) = <<x>> /\ Tail(<<x>>) = <<>> /\ Len(<<x>>) = 1
OBVIOUS

LEMMA ObjectUpdated ==
  ASSUME NEW a, NEW b, NEW v, NEW x, x = [rank |-> a, note |-> b]
  PROVE  /\ [x EXCEPT !.rank = v] = [rank |-> v, note |-> b]
         /\ [x EXCEPT !.note = v] = [rank |-> a, note |-> v]
<1>1. DOMAIN x = {"rank", "note"} /\ x.rank = a /\ x.note = b
  OBVIOUS
<1>2. [x EXCEPT !.rank = v] = [rank |-> v, note |-> b]
  <2>1. [x EXCEPT !.rank = v] = [f \in {"rank", "note"} |-> IF f = "rank" THEN v ELSE x[f]]
    BY <1>1
  <2>2. [rank |-> v, note |-> b] = [f \in {"rank", "note"} |-> IF f = "rank" THEN v ELSE b]
    OBVIOUS
  <2> QED
    BY <1>1, <2>1, <2>2
<1>3. [x EXCEPT !.note = v] = [rank |-> a, note |-> v]
  <2>1. [x EXCEPT !.note = v] = [f \in {"rank", "note"} |-> IF f = "note" THEN v ELSE x[f]]
    BY <1>1
  <2>2. [rank |-> a, note |-> v] = [f \in {"rank", "note"} |-> IF f = "note" THEN v ELSE a]
    OBVIOUS
  <2> QED
    BY <1>1, <2>1, <2>2
<1> QED
  BY <1>2, <1>3

LEMMA OnlyObjectUpdated ==
  ASSUME NEW a, NEW b, NEW v, NEW l, l = <<[rank |-> a, note |-> b]>>
  PROVE  /\ [l EXCEPT ![Len(l)]["rank"] = v] = <<[rank |-> v, note |-> b]>>
         /\ [l EXCEPT ![Len(l)]["note"] = v] = <<[rank |-> a, note |-> v]>>
<1> DEFINE x == [rank |-> a, note |-> b]
           y == [x EXCEPT !.rank = v]
           z == [x EXCEPT !.note = v]
<1>1. y = [rank |-> v, note |-> b] /\ z = [rank |-> a, note |-> v]
  BY ObjectUpdated
<1>2. l = <<x>>
  OBVIOUS
<1>3. \A o : [l EXCEPT ![Len(l)]["rank"] = v] = <<[o EXCEPT !.rank = v]>> \/ l # <<o>>
  OBVIOUS
<1>4. \A o : [l EXCEPT ![Len(l)]["note"] = v] = <<[o EXCEPT !.note = v]>> \/ l # <<o>>
  OBVIOUS
<1>5. [l EXCEPT ![Len(l)]["rank"] = v] = <<y>> /\ [l EXCEPT ![Len(l)]["note"] = v] = <<z>>
  BY <1>2, <1>3, <1>4
<1> QED
  BY <1>1, <1>5

Enlist(w) ==
  /\ index' = [index EXCEPT ![w.c] = w.g]
  /\ entries' = [entries EXCEPT ![w.g][w.c] = Append(@, [rank |-> w.rank, note |-> Nothing])]

LEMMA JoinReaches ==
  ASSUME GuildAssumption, NothingIsNoRow, MemberInv,
         NEW c \in GuildChars, NEW w, WriteOK(w), w.k = "join", w.c = c, Enlist(w)
  PROVE  /\ CacheOK'
         /\ \A d \in GuildChars : d # c => index'[d] = index[d] /\ \A g \in Guilds : entries'[g][d] = entries[g][d]
         /\ Applied(db.member, index, entries, c, w) => Shown(index', entries', c, db.member[c])
<1>1. PICK g \in Guilds : g = w.g
  BY DEF WriteOK
<1>2. CacheOK
  BY DEF MemberInv
<1> DEFINE l == Append(entries[g][c], [rank |-> w.rank, note |-> Nothing])
<1>3. Replaced(g, c, l)
  BY <1>1, <1>2 DEF CacheOK, Replaced, Enlist
<1> HIDE DEF l
<1>4. /\ entries' = [h \in Guilds |-> [d \in GuildChars |-> entries'[h][d]]]
      /\ \A h \in Guilds, d \in GuildChars : entries'[h][d] = IF h = g /\ d = c THEN l ELSE entries[h][d]
  BY <1>2, <1>3, ListChanged
<1>5. index' \in [GuildChars -> Guilds \cup {Nothing}] /\ \A d \in GuildChars : index'[d] = IF d = c THEN g ELSE index[d]
  BY <1>1, <1>2 DEF CacheOK, Enlist
<1>6. ASSUME Applied(db.member, index, entries, c, w) PROVE Shown(index', entries', c, db.member[c])
  <2>1. Shown(index, entries, c, Nothing) /\ db.member[c] = [g |-> g, rank |-> w.rank, note |-> Nothing]
    BY <1>1, <1>6 DEF Applied, After
  <2>2. \A h \in Guilds : entries[h][c] = <<>>
    BY <2>1 DEF Shown
  <2>3. l = <<[rank |-> w.rank, note |-> Nothing]>>
    BY <2>2, OneObject DEF l
  <2>4. db.member[c] # Nothing /\ db.member[c].g = g /\ db.member[c].rank = w.rank /\ db.member[c].note = Nothing
    BY <2>1 DEF NothingIsNoRow
  <2> QED
    BY <1>4, <1>5, <2>2, <2>3, <2>4 DEF Shown
<1> QED
  BY <1>4, <1>5, <1>6 DEF CacheOK

LEMMA PartReaches ==
  ASSUME GuildAssumption, MemberInv, NEW c \in GuildChars, NEW w, w.k = "part", Unlist(c)
  PROVE  /\ CacheOK'
         /\ \A d \in GuildChars : d # c => index'[d] = index[d] /\ \A g \in Guilds : entries'[g][d] = entries[g][d]
         /\ Applied(db.member, index, entries, c, w) => Shown(index', entries', c, db.member[c])
<1>1. CacheOK
  BY DEF MemberInv
<1>2. index' \in [GuildChars -> Guilds \cup {Nothing}] /\ \A d \in GuildChars : index'[d] = IF d = c THEN Nothing ELSE index[d]
  BY <1>1 DEF CacheOK, Unlist
<1>3. CASE index[c] = Nothing
  <2>1. entries' = entries
    BY <1>3 DEF Unlist
  <2>2. ASSUME Applied(db.member, index, entries, c, w) PROVE Shown(index', entries', c, db.member[c])
    <3>1. PICK old : IsRow(old) /\ Shown(index, entries, c, old) /\ db.member[c] = Nothing
      BY <2>2 DEF Applied, After
    <3>2. old = Nothing
      BY <1>3, <3>1 DEF Shown, IsRow, GuildAssumption
    <3> QED
      BY <1>2, <2>1, <3>1, <3>2 DEF Shown
  <2> QED
    BY <1>1, <1>2, <2>1, <2>2 DEF CacheOK
<1>4. CASE index[c] # Nothing
  <2> DEFINE g == index[c]
             l == Tail(entries[g][c])
  <2>1. g \in Guilds
    BY <1>1, <1>4 DEF CacheOK
  <2>2. Replaced(g, c, l)
    BY <1>1, <1>4, <2>1 DEF Unlist, CacheOK, Replaced
  <2> HIDE DEF l
  <2>3. /\ entries' = [h \in Guilds |-> [d \in GuildChars |-> entries'[h][d]]]
        /\ \A h \in Guilds, d \in GuildChars : entries'[h][d] = IF h = g /\ d = c THEN l ELSE entries[h][d]
    BY <1>1, <2>1, <2>2, ListChanged
  <2>4. ASSUME Applied(db.member, index, entries, c, w) PROVE Shown(index', entries', c, db.member[c])
    <3>1. PICK old : IsRow(old) /\ Shown(index, entries, c, old) /\ db.member[c] = Nothing
      BY <2>4 DEF Applied, After
    <3>2. /\ entries[g][c] = <<[rank |-> old.rank, note |-> old.note]>>
          /\ \A h \in Guilds : h # g => entries[h][c] = <<>>
      BY <1>4, <2>1, <3>1 DEF Shown
    <3>3. l = <<>>
      BY <3>2, OneObject DEF l
    <3> QED
      BY <1>2, <2>3, <3>1, <3>2, <3>3 DEF Shown
  <2> QED
    BY <1>2, <2>3, <2>4 DEF CacheOK
<1> QED
  BY <1>3, <1>4

LEMMA UpdateReaches ==
  ASSUME GuildAssumption, NothingIsNoRow, MemberInv, NEW c \in GuildChars, NEW w, index' = index,
         \/ w.k = "rank" /\ UpdateObject(c, "rank", w.rank)
         \/ w.k = "note" /\ UpdateObject(c, "note", w.text)
  PROVE  /\ CacheOK'
         /\ \A d \in GuildChars : d # c => index'[d] = index[d] /\ \A g \in Guilds : entries'[g][d] = entries[g][d]
         /\ Applied(db.member, index, entries, c, w) => Shown(index', entries', c, db.member[c])
<1>1. CacheOK
  BY DEF MemberInv
<1>2. CASE index[c] = Nothing
  <2>1. entries' = entries
    BY <1>2 DEF UpdateObject
  <2>2. ASSUME Applied(db.member, index, entries, c, w) PROVE Shown(index', entries', c, db.member[c])
    <3>1. PICK old : IsRow(old) /\ Shown(index, entries, c, old) /\ db.member[c] = After(w, old)
      BY <2>2 DEF Applied
    <3>2. old = Nothing
      BY <1>2, <3>1 DEF Shown, IsRow, GuildAssumption
    <3>3. db.member[c] = Nothing
      BY <3>1, <3>2 DEF After
    <3> QED
      BY <2>1, <3>1, <3>2, <3>3
  <2> QED
    BY <1>1, <2>1, <2>2 DEF CacheOK
<1>3. CASE index[c] # Nothing
  <2> DEFINE g == index[c]
             old(l) == l[Len(l)]
             new(l) == IF w.k = "rank" THEN [l EXCEPT ![Len(l)]["rank"] = w.rank]
                       ELSE [l EXCEPT ![Len(l)]["note"] = w.text]
  <2>1. g \in Guilds
    BY <1>1, <1>3 DEF CacheOK
  <2>2. entries' = [entries EXCEPT ![g][c] = new(entries[g][c])]
    BY <1>1, <1>3, <2>1 DEF UpdateObject, CacheOK, Youngest
  <2>3. /\ entries' = [h \in Guilds |-> [d \in GuildChars |-> entries'[h][d]]]
        /\ \A h \in Guilds, d \in GuildChars :
             entries'[h][d] = IF h = g /\ d = c THEN new(entries[g][c]) ELSE entries[h][d]
    <3> DEFINE l == new(entries[g][c])
    <3>1. Replaced(g, c, l)
      BY <2>2 DEF Replaced
    <3> HIDE DEF l, new
    <3>2. /\ entries' = [h \in Guilds |-> [d \in GuildChars |-> entries'[h][d]]]
          /\ \A h \in Guilds, d \in GuildChars : entries'[h][d] = IF h = g /\ d = c THEN l ELSE entries[h][d]
      BY <1>1, <2>1, <3>1, ListChanged
    <3> QED
      BY <3>2 DEF l
  <2>4. ASSUME Applied(db.member, index, entries, c, w) PROVE Shown(index', entries', c, db.member[c])
    <3>1. PICK row : IsRow(row) /\ Shown(index, entries, c, row) /\ db.member[c] = After(w, row)
      BY <2>4 DEF Applied
    <3>2. /\ row # Nothing /\ row.g = g
          /\ entries[g][c] = <<[rank |-> row.rank, note |-> row.note]>>
          /\ \A h \in Guilds : h # g => entries[h][c] = <<>>
      BY <1>3, <2>1, <3>1 DEF Shown
    <3>3. CASE w.k = "rank"
      <4>1. db.member[c] = [g |-> g, rank |-> w.rank, note |-> row.note]
        <5>1. After(w, row) = [row EXCEPT !.rank = w.rank]
          BY <3>2, <3>3 DEF After
        <5>2. [row EXCEPT !.rank = w.rank] = [g |-> row.g, rank |-> w.rank, note |-> row.note]
          BY <3>1, <3>2, RowUpdated
        <5> QED
          BY <3>1, <3>2, <5>1, <5>2
      <4>2. new(entries[g][c]) = <<[rank |-> w.rank, note |-> row.note]>>
        <5>1. \A l, a, b : l = <<[rank |-> a, note |-> b]>> =>
                [l EXCEPT ![Len(l)]["rank"] = w.rank] = <<[rank |-> w.rank, note |-> b]>>
          BY OnlyObjectUpdated
        <5>2. \A l, a, b : l = <<[rank |-> a, note |-> b]>> => new(l) = <<[rank |-> w.rank, note |-> b]>>
          BY <3>3, <5>1
        <5> HIDE DEF new
        <5> QED
          BY <3>2, <5>2
      <4> HIDE DEF new
      <4> QED
        BY <2>3, <3>2, <4>1, <4>2 DEF Shown, NothingIsNoRow
    <3>4. CASE w.k = "note"
      <4>1. db.member[c] = [g |-> g, rank |-> row.rank, note |-> w.text]
        <5>1. After(w, row) = [row EXCEPT !.note = w.text]
          BY <3>2, <3>4 DEF After
        <5>2. [row EXCEPT !.note = w.text] = [g |-> row.g, rank |-> row.rank, note |-> w.text]
          BY <3>1, <3>2, RowUpdated
        <5> QED
          BY <3>1, <3>2, <5>1, <5>2
      <4>2. new(entries[g][c]) = <<[rank |-> row.rank, note |-> w.text]>>
        <5>1. \A l, a, b : l = <<[rank |-> a, note |-> b]>> =>
                [l EXCEPT ![Len(l)]["note"] = w.text] = <<[rank |-> a, note |-> w.text]>>
          BY OnlyObjectUpdated
        <5>2. \A l, a, b : l = <<[rank |-> a, note |-> b]>> => new(l) = <<[rank |-> a, note |-> w.text]>>
          BY <3>4, <5>1
        <5> HIDE DEF new
        <5> QED
          BY <3>2, <5>2
      <4> HIDE DEF new
      <4> QED
        BY <2>3, <3>2, <4>1, <4>2 DEF Shown, NothingIsNoRow
    <3> QED
      BY <3>3, <3>4
  <2> HIDE DEF new
  <2> QED
    BY <1>1, <2>3, <2>4 DEF CacheOK
<1> QED
  BY <1>2, <1>3

LEMMA CacheStepKeeps ==
  ASSUME GuildAssumption, NothingIsNoRow, MemberInv, NEW u \in GuildChars, CacheStep(u)
  PROVE  MemberInv'
<1> DEFINE w == guildCalls[u].w
           s == Subject(guildCalls[u])
<1>1. guildCalls[u].at = "cache" /\ Proceeds(u, NoCall) /\ db' = db /\ raced' = raced
  BY DEF CacheStep, guildHistory
<1>2. guildCalls[u] = [at |-> "cache", w |-> w] /\ WriteOK(w)
  BY <1>1 DEF MemberInv, CallsOK, CallOK
<1>3. s = IF w.k \in MemberKinds THEN w.c ELSE Nothing
  BY <1>2, SubjectOf
<1>4. \/ w.k \notin MemberKinds /\ UNCHANGED <<index, entries>>
      \/ w.k = "join" /\ Enlist(w)
      \/ w.k = "part" /\ Unlist(w.c)
      \/ w.k = "rank" /\ UpdateObject(w.c, "rank", w.rank) /\ index' = index
      \/ w.k = "note" /\ UpdateObject(w.c, "note", w.text) /\ index' = index
  BY DEF CacheStep, cacheVars, Enlist, MemberKinds
<1>5. CacheOK
  BY DEF MemberInv
<1> HIDE DEF w, s
<1> DEFINE Others(c) == \A d \in GuildChars : d # c =>
                          index'[d] = index[d] /\ \A g \in Guilds : entries'[g][d] = entries[g][d]
           Reaches(c) == Applied(db.member, index, entries, c, w) => Shown(index', entries', c, db.member[c])
<1>6. CASE w.k \in MemberKinds
  <2>1. w.c \in GuildChars /\ s = w.c
    BY <1>2, <1>3, <1>6 DEF WriteOK
  <2>2. CacheOK' /\ Others(w.c) /\ Reaches(w.c)
    <3>1. CASE w.k = "join" /\ Enlist(w)
      BY <1>2, <2>1, <3>1, JoinReaches
    <3>2. CASE w.k = "part" /\ Unlist(w.c)
      BY <2>1, <3>2, PartReaches
    <3>3. CASE w.k = "rank" /\ UpdateObject(w.c, "rank", w.rank) /\ index' = index
      BY <2>1, <3>3, UpdateReaches
    <3>4. CASE w.k = "note" /\ UpdateObject(w.c, "note", w.text) /\ index' = index
      BY <2>1, <3>4, UpdateReaches
    <3> QED
      BY <1>4, <1>6, <3>1, <3>2, <3>3, <3>4
  <2> QED
    BY <1>1, <2>1, <2>2, CacheFollows DEF w, s
<1>7. CASE w.k \notin MemberKinds
  <2>1. UNCHANGED <<index, entries>>
    BY <1>4, <1>7 DEF MemberKinds
  <2>2. CacheOK' /\ \A c \in GuildChars : c # s
    BY <1>3, <1>5, <1>7, <2>1 DEF CacheOK, GuildAssumption
  <2> QED
    BY <1>1, <2>1, <2>2, CacheFollows DEF w, s
<1> QED
  BY <1>6, <1>7

-----------------------------------------------------------------------------
LEMMA MemberInvInit ==
  ASSUME GuildAssumption, NothingIsNoRow, GuildInit
  PROVE  MemberInv
<1>1. /\ db = [member |-> FirstMember, rights |-> FirstRights,
               invite |-> FirstInvite, motd |-> [g \in Guilds |-> Nothing]]
      /\ index = IndexFrom(FirstMember) /\ entries = EntriesFrom(FirstMember)
      /\ guildCalls = [c \in GuildChars |-> NoCall] /\ raced = {}
  BY DEF GuildInit
<1>2. \A c \in GuildChars : IsRow(FirstMember[c])
  BY DEF GuildAssumption, IsRow
<1>3. /\ db.member = FirstMember /\ db.invite = FirstInvite
      /\ FirstMember = [c \in GuildChars |-> FirstMember[c]] /\ FirstInvite \in [GuildChars -> Guilds \cup {Nothing}]
  BY <1>1 DEF GuildAssumption
<1>4. DbOK(db)
  <2>1. db = [member |-> db.member, rights |-> db.rights, invite |-> db.invite, motd |-> db.motd]
    BY <1>1
  <2> QED
    BY <1>2, <1>3, <2>1 DEF DbOK
<1>5. CacheOK
  <2>1. \A c \in GuildChars : IndexFrom(FirstMember)[c] \in Guilds \cup {Nothing}
    BY <1>2 DEF IndexFrom, IsRow
  <2>2. index \in [GuildChars -> Guilds \cup {Nothing}]
    BY <1>1, <2>1 DEF IndexFrom
  <2>3. entries = [g \in Guilds |-> [c \in GuildChars |-> entries[g][c]]]
    BY <1>1 DEF EntriesFrom
  <2> QED
    BY <2>2, <2>3 DEF CacheOK
<1>6. CallsOK /\ \A u \in GuildChars : guildCalls[u] = NoCall
  BY <1>1, IdleIsCall DEF CallsOK
<1>7. ASSUME NEW c \in GuildChars PROVE InOrder(guildCalls, db.member, index, entries, c)
  <2>1. Shown(index, entries, c, db.member[c])
    BY <1>1, <1>3 DEF Shown, IndexFrom, EntriesFrom
  <2>2. \A u \in GuildChars : Subject(guildCalls[u]) # c
    BY <1>6, SubjectOf DEF GuildAssumption
  <2> QED
    BY <2>1, <2>2 DEF InOrder
<1> QED
  BY <1>4, <1>5, <1>6, <1>7 DEF MemberInv, Orderly

LEMMA MemberInvKept ==
  ASSUME GuildAssumption, NothingIsNoRow, MemberInv, [GuildNext]_guildVars
  PROVE  MemberInv'
<1>1. CASE Panic
  BY <1>1, PanicKeeps
<1>2. ASSUME NEW u \in GuildChars, Begin(u) \/ InviteAccepted(u)
      PROVE  MemberInv'
  BY <1>2, BeginKeeps, InviteAcceptedKeeps
<1>3. ASSUME NEW u \in GuildChars,
             \/ InviteMember(u) \/ Leave(u) \/ Kick(u) \/ UpdateRank(u)
             \/ SetMessageOfTheDay(u) \/ SetMemberNote(u)
             \/ UpdateGuildRank(u) \/ AddGuildRank(u) \/ DeleteLastGuildRank(u)
      PROVE  MemberInv'
  BY <1>3, DecideKeeps
<1>4. ASSUME NEW u \in GuildChars,
             DbStep(u) \/ RemoveGuildInvite(u) \/ DbFails(u) \/ CacheStep(u) \/ PanicAfterWrite(u)
      PROVE  MemberInv'
  BY <1>4, DbStepKeeps, RemoveGuildInviteKeeps, DbFailsKeeps, CacheStepKeeps, PanicKeeps
     DEF PanicAfterWrite
<1>5. CASE UNCHANGED guildVars
  <2>1. UNCHANGED <<db, index, entries, guildCalls, raced>>
    BY <1>5 DEF guildVars, cacheVars, guildHistory
  <2> QED
    BY <2>1 DEF MemberInv, DbOK, CacheOK, CallsOK, Orderly
<1> QED
  BY <1>1, <1>2, <1>3, <1>4, <1>5 DEF GuildNext

LEMMA AgreeFromInv ==
  ASSUME MemberInv
  PROVE  MembersAgree
<1> SUFFICES ASSUME NEW c \in GuildChars, ~Unsettled(c), c \notin raced
             PROVE  RowIsCached(c)
  BY DEF MembersAgree
<1>1. InOrder(guildCalls, db.member, index, entries, c)
  BY DEF MemberInv, Orderly
<1>2. Shown(index, entries, c, db.member[c])
  BY <1>1 DEF InOrder, Unsettled
<1> QED
  BY <1>2 DEF Shown, RowIsCached, Shows

\* The cache agrees with guild_member (AddGuildMember, RemoveGuildMember and
\* SetMemberRank of guildsInMemCache): once no call about a character is in
\* flight it is listed in exactly the guild, with the rank and the note of its
\* row, unless two calls about this very character overlapped - whatever calls
\* about others, failing statements and panics came between, for any number of
\* characters, guilds, ranks, calls and faults.
THEOREM MembersAreCached ==
  ASSUME NothingIsNoRow
  PROVE  GuildSpec => []MembersAgree
<1> USE GuildConstants
<1>1. GuildInit => MemberInv
  BY MemberInvInit
<1>2. MemberInv /\ [GuildNext]_guildVars => MemberInv'
  BY MemberInvKept
<1>3. MemberInv => MembersAgree
  BY AgreeFromInv
<1> QED
  BY <1>1, <1>2, <1>3, PTL DEF GuildSpec

-----------------------------------------------------------------------------
(***************************************************************************)
(* Ranks.  A guild is stripped when one rank is left, which everybody who  *)
(* joins then gets; until that happens to some guild, each has one master, *)
(* his calls alone change its ranks, and there is one of them at a time.   *)
(***************************************************************************)

Founders  == {Founder[g] : g \in Guilds}
RankKinds == {"rights", "addrank", "droprank"}
Notes     == GuildChars \cup {Nothing}
Objects   == [rank : 0 .. 255, note : Notes]
MemberRows == [g : Guilds, rank : 0 .. 255, note : Notes]

\* The rank of a founder is the master's, or wrapped around; nobody else has it.
MayHave(c, rank) == IF c \in Founders THEN rank \in {0, 255} ELSE rank \in 1 .. 255

RowsRight(m) ==
  /\ \A c \in GuildChars : m[c] # Nothing => m[c] \in MemberRows /\ MayHave(c, m[c].rank)
  /\ \A g \in Guilds : m[Founder[g]] # Nothing /\ m[Founder[g]].g = g

\* What is listed; the guild the index names lists the character.
ListRight(c, l) == l \in Seq(Objects) /\ \A k \in DOMAIN l : MayHave(c, l[k].rank)
ListsRight(i, e) ==
  /\ \A g \in Guilds, c \in GuildChars : ListRight(c, e[g][c])
  /\ \A c \in GuildChars : i[c] # Nothing => e[i[c]][c] # <<>>
  /\ \A g \in Guilds : i[Founder[g]] = g

\* No write takes a founder's row away, or gives rank 0.
WriteRight(u, at, w) ==
  /\ w.k = "join" => w.rank \in 1 .. 255 /\ (at = "cache" => w.c \notin Founders)
  /\ w.k = "part" => w.c \notin Founders
  /\ w.k = "rank" => w.rank \in 1 .. 255 /\ MayHave(w.c, w.rank)
  /\ w.k = "note" => w.text \in GuildChars
  /\ w.k \in RankKinds => w.g \in Guilds /\ u = Founder[w.g]
CallRight(u, call) ==
  /\ call.at = "decide" => \A g \in Guilds : u = Founder[g] => call.g = g
  /\ call.at \in {"db", "cache"} => WriteRight(u, call.at, call.w)

\* Ranks in the cache, numbered without a gap, and the rows they come from.
Numbered(s, n) == s = [i \in 1 .. n |-> [rid |-> i - 1, rights |-> s[i].rights]]
IsRanks(s) == \E n \in 2 .. GuildRankMax : Numbered(s, n)
RowsOf(s)  == [rid \in 0 .. Len(s) - 1 |-> s[rid + 1].rights]

\* The rows after a write that was decided on the ranks s.
Changed(w, rows) ==
  CASE w.k = "rights"  -> IF w.rid \in DOMAIN rows THEN [rows EXCEPT ![w.rid] = w.rights] ELSE rows
    [] w.k = "addrank" -> RowsWith(rows, w.rid, RightEmpty)
    [] OTHER           -> RowsUpTo(rows, w.rid)
Fits(w, s) ==
  /\ w.k = "addrank" => w.rid = Len(s) /\ Len(s) < GuildRankMax
  /\ w.k = "droprank" => w.rid = Len(s) - 1
RanksRight(rows, s, call) ==
  LET ranked == call.at \in {"db", "cache"} /\ call.w.k \in RankKinds
  IN  /\ IsRanks(s)
      /\ ranked => Fits(call.w, s)
      /\ ranked /\ call.at = "cache" => rows = Changed(call.w, RowsOf(s)) /\ (call.w.k = "droprank" => Len(s) > 2)
      /\ ~(ranked /\ call.at = "cache") => rows = RowsOf(s)

Mastered ==
  /\ RowsRight(db.member) /\ ListsRight(index, entries)
  /\ \A u \in GuildChars : CallRight(u, guildCalls[u])
  /\ DOMAIN db.rights = Guilds /\ DOMAIN ranks = Guilds
  /\ \A g \in Guilds : RanksRight(db.rights[g], ranks[g], guildCalls[Founder[g]])
MasterInv == stripped = {} => Mastered

-----------------------------------------------------------------------------
\* Ranks are bytes.
LEMMA BytesWrap == \A k \in -1 .. 255 : U8(k) = IF k = -1 THEN 255 ELSE k
BY DEF U8

LEMMA RankBound ==
  ASSUME GuildAssumption
  PROVE  GuildRankMax \in 2 .. 255
BY DEF GuildAssumption

\* The cached ranks by number.
LEMMA RanksByNumber ==
  ASSUME NEW s, NEW n \in Nat, Numbered(s, n)
  PROVE  /\ DOMAIN s = 1 .. n /\ Len(s) = n
         /\ \A i \in 1 .. n : s[i] = [rid |-> i - 1, rights |-> s[i].rights] /\ s[i].rid = i - 1
         /\ \A r : r \in Range(s) <=> \E i \in 1 .. n : r = s[i]
<1>0. s = [i \in 1 .. n |-> [rid |-> i - 1, rights |-> s[i].rights]]
  BY DEF Numbered
<1>1. DOMAIN s = 1 .. n
  BY <1>0
<1>2. Len(s) = n
  BY <1>0
<1>3. \A i \in 1 .. n : s[i] = [rid |-> i - 1, rights |-> s[i].rights] /\ s[i].rid = i - 1
  BY <1>0
<1>4. \A r : r \in Range(s) <=> \E i \in 1 .. n : r = s[i]
  BY <1>1 DEF Range
<1> QED
  BY <1>1, <1>2, <1>3, <1>4

LEMMA IsRanksMeans ==
  ASSUME GuildAssumption, NEW s, IsRanks(s)
  PROVE  /\ Len(s) \in 2 .. GuildRankMax /\ Len(s) \in 2 .. 255
         /\ DOMAIN s = 1 .. Len(s) /\ Numbered(s, Len(s))
         /\ \A i \in 1 .. Len(s) : s[i].rid = i - 1
         /\ \A r : r \in Range(s) <=> \E i \in 1 .. Len(s) : r = s[i]
<1>1. PICK n \in 2 .. GuildRankMax : Numbered(s, n)
  BY DEF IsRanks
<1>2. n \in Nat /\ n \in 2 .. 255
  BY RankBound
<1>3. /\ DOMAIN s = 1 .. n /\ Len(s) = n
      /\ \A i \in 1 .. n : s[i].rid = i - 1
      /\ \A r : r \in Range(s) <=> \E i \in 1 .. n : r = s[i]
  BY <1>1, <1>2, RanksByNumber
<1> QED
  BY <1>1, <1>2, <1>3

\* lowestRankInGuild.
LEMMA LowestOf ==
  ASSUME GuildAssumption, NEW s, IsRanks(s)
  PROVE  /\ Len(s) \in 2 .. 255
         /\ Max({0} \cup {r.rid : r \in Range(s)}) = Len(s) - 1
<1> DEFINE S == {0} \cup {r.rid : r \in Range(s)}
<1>1. /\ Len(s) \in 2 .. GuildRankMax /\ \A i \in 1 .. Len(s) : s[i].rid = i - 1
      /\ \A r : r \in Range(s) <=> \E i \in 1 .. Len(s) : r = s[i]
  BY IsRanksMeans
<1>2. Len(s) \in 2 .. 255
  BY IsRanksMeans
<1>3. Len(s) - 1 \in S
  <2>1. s[Len(s)] \in Range(s) /\ s[Len(s)].rid = Len(s) - 1
    BY <1>1, <1>2
  <2> QED
    BY <2>1
<1>4. \A x \in S : x \in Int /\ x <= Len(s) - 1
  BY <1>1, <1>2
<1> HIDE DEF S
<1>5. \A x \in S : (\A y \in S : x >= y) => x = Len(s) - 1
  BY <1>2, <1>3, <1>4
<1>6. \A y \in S : Len(s) - 1 >= y
  BY <1>2, <1>4
<1>7. Max(S) = Len(s) - 1
  BY <1>3, <1>5, <1>6 DEF Max
<1> QED
  BY <1>2, <1>7 DEF S

LEMMA Lowest ==
  ASSUME GuildAssumption, NEW g, IsRanks(ranks[g])
  PROVE  /\ Len(ranks[g]) \in 2 .. 255
         /\ LowestRankInGuild(g) = Len(ranks[g]) - 1
BY LowestOf DEF LowestRankInGuild

\* Rows of guild_rank, numbered without a gap.
IsRows(rows) == \E n \in 2 .. GuildRankMax : rows = [rid \in 0 .. n - 1 |-> rows[rid]]

LEMMA BelowIsCounted ==
  ASSUME NEW n \in Nat
  PROVE  Cardinality(0 .. n - 1) = n /\ IsFiniteSet(0 .. n - 1)
BY FS_Interval

LEMMA NthOfRows ==
  ASSUME NEW n \in Nat, NEW rows, DOMAIN rows = 0 .. n - 1, NEW i \in 1 .. n
  PROVE  NthRank(rows, i) = i - 1
<1>1. ASSUME NEW rid \in 0 .. n - 1
      PROVE  Cardinality({x \in 0 .. n - 1 : x < rid}) = rid
  <2>1. {x \in 0 .. n - 1 : x < rid} = 0 .. rid - 1 /\ rid \in Nat
    OBVIOUS
  <2> QED
    BY <2>1, BelowIsCounted
<1>2. i - 1 \in 0 .. n - 1
  OBVIOUS
<1>3. \A rid \in 0 .. n - 1 : Cardinality({x \in 0 .. n - 1 : x < rid}) = i - 1 <=> rid = i - 1
  BY <1>1
<1> QED
  BY <1>2, <1>3 DEF NthRank

\* Reading the rows gives the ranks in order, and the ranks give the rows.
LEMMA RanksRead ==
  ASSUME NEW n \in Nat, NEW rows, rows = [rid \in 0 .. n - 1 |-> rows[rid]]
  PROVE  /\ RanksFrom(rows) = [i \in 1 .. n |-> [rid |-> i - 1, rights |-> rows[i - 1]]]
         /\ Numbered(RanksFrom(rows), n) /\ Len(RanksFrom(rows)) = n
         /\ RowsOf(RanksFrom(rows)) = rows
<1> DEFINE s == RanksFrom(rows)
<1>1. DOMAIN rows = 0 .. n - 1 /\ Cardinality(DOMAIN rows) = n
  BY BelowIsCounted
<1>2. \A i \in 1 .. n : NthRank(rows, i) = i - 1
  BY <1>1, NthOfRows
<1>3. s = [i \in 1 .. n |-> [rid |-> i - 1, rights |-> rows[i - 1]]]
  BY <1>1, <1>2 DEF RanksFrom
<1> HIDE DEF s
<1>4. Numbered(s, n)
  BY <1>3 DEF Numbered
<1>5. Len(s) = n /\ \A i \in 1 .. n : s[i].rights = rows[i - 1]
  BY <1>3
<1>6. RowsOf(s) = [rid \in 0 .. n - 1 |-> rows[rid]]
  <2>1. ASSUME NEW rid \in 0 .. n - 1 PROVE s[rid + 1].rights = rows[rid]
    <3>1. rid + 1 \in 1 .. n /\ (rid + 1) - 1 = rid
      OBVIOUS
    <3> QED
      BY <1>5, <3>1
  <2> QED
    BY <1>5, <2>1 DEF RowsOf
<1> QED
  BY <1>3, <1>4, <1>5, <1>6 DEF s

LEMMA RowsAreRead ==
  ASSUME GuildAssumption, NEW rows, IsRows(rows)
  PROVE  IsRanks(RanksFrom(rows)) /\ RowsOf(RanksFrom(rows)) = rows
<1>1. PICK n \in 2 .. GuildRankMax : rows = [rid \in 0 .. n - 1 |-> rows[rid]]
  BY DEF IsRows
<1>2. n \in Nat
  BY RankBound
<1> QED
  BY <1>1, <1>2, RanksRead DEF IsRanks

LEMMA RanksAreRead ==
  ASSUME GuildAssumption, NEW s, IsRanks(s)
  PROVE  RanksFrom(RowsOf(s)) = s /\ IsRows(RowsOf(s)) /\ DOMAIN RowsOf(s) = 0 .. Len(s) - 1
<1> DEFINE n == Len(s)
           rows == RowsOf(s)
<1>1. n \in 2 .. GuildRankMax /\ Numbered(s, n)
  BY IsRanksMeans
<1>2. n \in Nat
  BY IsRanksMeans
<1>3. rows = [rid \in 0 .. n - 1 |-> rows[rid]] /\ \A rid \in 0 .. n - 1 : rows[rid] = s[rid + 1].rights
  BY DEF RowsOf
<1> HIDE DEF n, rows
<1>4. RanksFrom(rows) = [i \in 1 .. n |-> [rid |-> i - 1, rights |-> rows[i - 1]]]
  BY <1>2, <1>3, RanksRead
<1>5. \A i \in 1 .. n : rows[i - 1] = s[i].rights
  BY <1>2, <1>3
<1>6. RanksFrom(rows) = [i \in 1 .. n |-> [rid |-> i - 1, rights |-> s[i].rights]]
  BY <1>4, <1>5
<1>7. RanksFrom(rows) = s
  BY <1>1, <1>6 DEF Numbered
<1>8. IsRows(rows) /\ DOMAIN rows = 0 .. n - 1
  BY <1>1, <1>3 DEF IsRows
<1> QED
  BY <1>7, <1>8 DEF n, rows

\* The cached ranks after a write, built from the rows it leaves.
Cut(s, rid) == IF rid > Len(s) THEN s ELSE SubSeq(s, 1, rid)
Cached(w, s) ==
  CASE w.k = "rights"  -> [i \in DOMAIN s |->
                             IF s[i].rid = w.rid THEN [rid |-> w.rid, rights |-> w.rights] ELSE s[i]]
    [] w.k = "addrank" -> Append(s, [rid |-> w.rid, rights |-> RightEmpty])
    [] OTHER           -> Cut(s, w.rid)
Built(rows, s) ==
  \E n \in 2 .. GuildRankMax :
    /\ rows = [rid \in 0 .. n - 1 |-> rows[rid]]
    /\ s = [i \in 1 .. n |-> [rid |-> i - 1, rights |-> rows[i - 1]]]

LEMMA BuiltIsRead ==
  ASSUME GuildAssumption, NEW rows, NEW s, Built(rows, s)
  PROVE  IsRows(rows) /\ IsRanks(s) /\ rows = RowsOf(s)
<1>1. PICK n \in 2 .. GuildRankMax :
        /\ rows = [rid \in 0 .. n - 1 |-> rows[rid]]
        /\ s = [i \in 1 .. n |-> [rid |-> i - 1, rights |-> rows[i - 1]]]
  BY DEF Built
<1>2. n \in Nat
  BY RankBound
<1>3. RanksFrom(rows) = s
  BY <1>1, <1>2, RanksRead
<1>4. IsRows(rows)
  BY <1>1 DEF IsRows
<1> QED
  BY <1>3, <1>4, RowsAreRead

LEMMA RanksUnfold ==
  ASSUME GuildAssumption, NEW s, IsRanks(s)
  PROVE  \E n \in 2 .. GuildRankMax :
           /\ n \in 2 .. 255 /\ Len(s) = n /\ DOMAIN s = 1 .. n /\ s \in Seq(Range(s))
           /\ \A i \in 1 .. n : s[i] = [rid |-> i - 1, rights |-> s[i].rights] /\ s[i].rid = i - 1
           /\ DOMAIN RowsOf(s) = 0 .. n - 1
           /\ RowsOf(s) = [rid \in 0 .. n - 1 |-> RowsOf(s)[rid]]
           /\ \A i \in 1 .. n : RowsOf(s)[i - 1] = s[i].rights
<1>1. PICK n \in 2 .. GuildRankMax : Numbered(s, n)
  BY DEF IsRanks
<1>2. n \in 2 .. 255 /\ n \in Nat
  BY RankBound
<1>3. /\ DOMAIN s = 1 .. n /\ Len(s) = n
      /\ \A i \in 1 .. n : s[i] = [rid |-> i - 1, rights |-> s[i].rights] /\ s[i].rid = i - 1
  BY <1>1, <1>2, RanksByNumber
<1>4. s \in Seq(Range(s))
  <2>1. s = [i \in 1 .. n |-> s[i]]
    BY <1>1 DEF Numbered
  <2>2. \A i \in 1 .. n : s[i] \in Range(s)
    BY <1>3 DEF Range
  <2> QED
    BY <1>2, <2>1, <2>2
<1>5. /\ RowsOf(s) = [rid \in 0 .. n - 1 |-> RowsOf(s)[rid]] /\ DOMAIN RowsOf(s) = 0 .. n - 1
      /\ \A rid \in 0 .. n - 1 : RowsOf(s)[rid] = s[rid + 1].rights
  BY <1>3 DEF RowsOf
<1>6. ASSUME NEW i \in 1 .. n PROVE RowsOf(s)[i - 1] = s[i].rights
  <2>1. i - 1 \in 0 .. n - 1 /\ (i - 1) + 1 = i
    BY <1>2
  <2> QED
    BY <1>5, <2>1
<1> QED
  BY <1>2, <1>3, <1>4, <1>5, <1>6

\* UpdateGuildRank, AddGuildRank and DeleteLowestGuildRank do the same to the
\* cached ranks as to the rows.
LEMMA CacheFollowsRows ==
  ASSUME GuildAssumption, NEW s, IsRanks(s), NEW w, w.k \in RankKinds, Fits(w, s),
         w.k = "droprank" => Len(s) > 2
  PROVE  Built(Changed(w, RowsOf(s)), Cached(w, s))
<1> DEFINE rows == RowsOf(s)
<1>1. PICK n \in 2 .. GuildRankMax :
        /\ n \in 2 .. 255 /\ Len(s) = n /\ DOMAIN s = 1 .. n /\ s \in Seq(Range(s))
        /\ \A i \in 1 .. n : s[i] = [rid |-> i - 1, rights |-> s[i].rights] /\ s[i].rid = i - 1
        /\ DOMAIN rows = 0 .. n - 1 /\ rows = [rid \in 0 .. n - 1 |-> rows[rid]]
        /\ \A i \in 1 .. n : rows[i - 1] = s[i].rights
  BY RanksUnfold
<1> HIDE DEF rows
<1>2. GuildRankMax \in 2 .. 255
  BY RankBound
<1>3. CASE w.k = "rights"
  <2> DEFINE new == IF w.rid \in DOMAIN rows THEN [rows EXCEPT ![w.rid] = w.rights] ELSE rows
             t == [i \in DOMAIN s |-> IF s[i].rid = w.rid THEN [rid |-> w.rid, rights |-> w.rights] ELSE s[i]]
  <2>1. Changed(w, rows) = new /\ Cached(w, s) = t
    BY <1>3 DEF Changed, Cached
  <2>2. new = [rid \in 0 .. n - 1 |-> new[rid]]
    BY <1>1
  <2>3. ASSUME NEW i \in 1 .. n PROVE t[i] = [rid |-> i - 1, rights |-> new[i - 1]]
    <3>1. i - 1 \in 0 .. n - 1
      BY <1>1
    <3>2. CASE w.rid = i - 1
      BY <1>1, <3>1, <3>2
    <3>3. CASE w.rid # i - 1
      BY <1>1, <3>1, <3>3
    <3> QED
      BY <3>2, <3>3
  <2>4. t = [i \in 1 .. n |-> t[i]]
    BY <1>1
  <2> HIDE DEF new, t
  <2>5. t = [i \in 1 .. n |-> [rid |-> i - 1, rights |-> new[i - 1]]]
    BY <2>3, <2>4
  <2> QED
    BY <2>1, <2>2, <2>5 DEF Built, rows
<1>4. CASE w.k = "addrank"
  <2> DEFINE new == RowsWith(rows, w.rid, RightEmpty)
             e == [rid |-> w.rid, rights |-> RightEmpty]
             t == Append(s, e)
  <2>1. Changed(w, rows) = new /\ Cached(w, s) = t
    BY <1>4 DEF Changed, Cached
  <2>2. w.rid = n /\ n + 1 \in 2 .. GuildRankMax
    <3>1. Len(s) = n /\ n \in 2 .. 255
      BY <1>1
    <3>2. w.rid = n /\ n < GuildRankMax
      BY <1>4, <3>1 DEF Fits
    <3> QED
      BY <1>2, <3>1, <3>2
  <2>3. new = [rid \in 0 .. (n + 1) - 1 |-> new[rid]] /\ new[n] = RightEmpty
        /\ \A rid \in 0 .. n - 1 : new[rid] = rows[rid]
    <3>1. DOMAIN rows \cup {w.rid} = 0 .. (n + 1) - 1
      BY <1>1, <2>2
    <3> QED
      BY <1>1, <2>2, <3>1 DEF RowsWith
  <2>4. t = [i \in 1 .. n + 1 |-> IF i = n + 1 THEN e ELSE s[i]]
    <3>1. t \in Seq(Range(s) \cup {e}) /\ Len(t) = n + 1 /\ t[n + 1] = e /\ \A i \in 1 .. n : t[i] = s[i]
      BY <1>1
    <3>2. t = [i \in 1 .. n + 1 |-> t[i]]
      BY <3>1
    <3>3. \A i \in 1 .. n + 1 : t[i] = IF i = n + 1 THEN e ELSE s[i]
      BY <1>1, <3>1
    <3> HIDE DEF t, e
    <3> QED
      BY <3>2, <3>3
  <2>5. ASSUME NEW i \in 1 .. n + 1
        PROVE  (IF i = n + 1 THEN e ELSE s[i]) = [rid |-> i - 1, rights |-> new[i - 1]]
    <3>1. CASE i = n + 1
      BY <1>1, <2>2, <2>3, <3>1
    <3>2. CASE i \in 1 .. n
      <4>1. i - 1 \in 0 .. n - 1 /\ i # n + 1
        BY <1>1, <3>2
      <4> QED
        BY <1>1, <2>3, <3>2, <4>1
    <3> QED
      BY <1>1, <3>1, <3>2
  <2> HIDE DEF new, t, e
  <2>6. t = [i \in 1 .. n + 1 |-> [rid |-> i - 1, rights |-> new[i - 1]]]
    BY <2>4, <2>5
  <2> QED
    BY <2>1, <2>2, <2>3, <2>6 DEF Built, rows
<1>5. CASE w.k = "droprank"
  <2> DEFINE new == RowsUpTo(rows, w.rid)
             t == Cut(s, w.rid)
  <2>1. Changed(w, rows) = new /\ Cached(w, s) = t
    BY <1>5 DEF Changed, Cached
  <2>2. w.rid = n - 1 /\ n - 1 \in 2 .. GuildRankMax
    <3>1. Len(s) = n /\ n \in 2 .. 255 /\ n \in 2 .. GuildRankMax
      BY <1>1
    <3>2. w.rid = n - 1 /\ n > 2
      BY <1>5, <3>1 DEF Fits
    <3> QED
      BY <1>2, <3>1, <3>2
  <2>3. new = [rid \in 0 .. (n - 1) - 1 |-> new[rid]]
        /\ \A rid \in 0 .. (n - 1) - 1 : new[rid] = rows[rid]
    <3>1. {x \in DOMAIN rows : x < w.rid} = 0 .. (n - 1) - 1
      BY <1>1, <2>2
    <3> QED
      BY <3>1 DEF RowsUpTo
  <2>4. t = [i \in 1 .. n - 1 |-> s[i]]
    <3>1. Len(s) = n /\ n \in 2 .. 255 /\ s \in Seq(Range(s))
      BY <1>1
    <3>2. t = SubSeq(s, 1, n - 1)
      BY <2>2, <3>1 DEF Cut
    <3> QED
      BY <3>1, <3>2
  <2>5. ASSUME NEW i \in 1 .. n - 1 PROVE s[i] = [rid |-> i - 1, rights |-> new[i - 1]]
    <3>1. i - 1 \in 0 .. (n - 1) - 1 /\ i \in 1 .. n
      BY <1>1
    <3> QED
      BY <1>1, <2>3, <3>1
  <2> HIDE DEF new, t
  <2>6. t = [i \in 1 .. n - 1 |-> [rid |-> i - 1, rights |-> new[i - 1]]]
    BY <2>4, <2>5
  <2> QED
    BY <2>1, <2>2, <2>3, <2>6 DEF Built, rows
<1> QED
  BY <1>3, <1>4, <1>5 DEF RankKinds

-----------------------------------------------------------------------------
LEMMA OneFounder ==
  ASSUME GuildAssumption
  PROVE  /\ \A g \in Guilds : Founder[g] \in GuildChars
         /\ \A g, h \in Guilds : Founder[g] = Founder[h] => g = h
<1>1. /\ Founder \in [Guilds -> GuildChars]
      /\ \A g \in Guilds : FirstMember[Founder[g]] = [g |-> g, rank |-> 0, note |-> Nothing]
  BY DEF GuildAssumption, GuildRankGuildMaster
<1>2. ASSUME NEW g \in Guilds PROVE FirstMember[Founder[g]].g = g
  <2>1. \A m : m = [g |-> g, rank |-> 0, note |-> Nothing] => m.g = g
    OBVIOUS
  <2> QED
    BY <1>1, <2>1
<1> QED
  BY <1>1, <1>2

\* Nothing is written yet.
LEMMA RanksStay ==
  ASSUME NEW rows, NEW s, NEW call, NEW r, RanksRight(rows, s, call), call.at # "cache", r.at # "cache",
         r.at = "db" /\ r.w.k \in RankKinds => Fits(r.w, s)
  PROVE  RanksRight(rows, s, r)
BY DEF RanksRight

\* A call goes on, up to its write, and changes no table or list of a member or rank.
LEMMA MasteredCalmly ==
  ASSUME GuildAssumption, CallsOK, Mastered, NEW u \in GuildChars, NEW r, CallOK(u, r), CallRight(u, r),
         Proceeds(u, r), guildCalls[u].at # "cache", r.at # "cache",
         r.at = "db" /\ r.w.k \in RankKinds => Fits(r.w, ranks[r.w.g]),
         db'.member = db.member, db'.rights = db.rights, UNCHANGED <<index, entries, ranks>>
  PROVE  Mastered'
<1>1. \A v \in GuildChars : guildCalls'[v] = IF v = u THEN r ELSE guildCalls[v]
  BY CallsType
<1>2. \A v \in GuildChars : CallRight(v, guildCalls'[v])
  BY <1>1 DEF Mastered
<1>3. ASSUME NEW g \in Guilds PROVE RanksRight(db.rights[g], ranks[g], guildCalls'[Founder[g]])
  <2>1. RanksRight(db.rights[g], ranks[g], guildCalls[Founder[g]]) /\ Founder[g] \in GuildChars
    BY OneFounder DEF Mastered
  <2>2. CASE Founder[g] = u
    <3>1. r.at = "db" /\ r.w.k \in RankKinds => r.w.g = g
      BY <2>2, OneFounder DEF CallRight, WriteRight
    <3> QED
      BY <1>1, <2>1, <2>2, <3>1, RanksStay
  <2>3. CASE Founder[g] # u
    BY <1>1, <2>1, <2>3
  <2> QED
    BY <2>2, <2>3
<1> QED
  BY <1>2, <1>3 DEF Mastered

LEMMA IdleIsRight ==
  ASSUME NEW u
  PROVE  CallOK(u, NoCall) /\ CallRight(u, NoCall) /\ NoCall.at = "idle"
BY DEF CallOK, CallRight, NoCall

LEMMA RefuseMastered ==
  ASSUME GuildAssumption, CallsOK, Mastered, NEW u \in GuildChars, Proceeds(u, NoCall),
         guildCalls[u].at # "cache", UNCHANGED <<db, cacheVars>>
  PROVE  Mastered'
<1>1. db'.member = db.member /\ db'.rights = db.rights /\ UNCHANGED <<index, entries, ranks>>
  BY DEF cacheVars
<1> QED
  BY <1>1, IdleIsRight, MasteredCalmly

LEMMA WriteMastered ==
  ASSUME GuildAssumption, CallsOK, Mastered, NEW u \in GuildChars, NEW w, WriteOK(w), WriteRight(u, "db", w),
         w.k \in RankKinds => Fits(w, ranks[w.g]), Proceeds(u, [at |-> "db", w |-> w]),
         guildCalls[u].at # "cache",
         db'.member = db.member, db'.rights = db.rights, UNCHANGED <<index, entries, ranks>>
  PROVE  Mastered'
<1> DEFINE r == [at |-> "db", w |-> w]
<1>1. r.at = "db" /\ r.w = w /\ CallOK(u, r) /\ CallRight(u, r)
  BY DEF CallOK, CallRight
<1> HIDE DEF r
<1> QED
  BY <1>1, MasteredCalmly DEF r

\* What rankForMember leads to: the master's rank for founders, and only for them.
LEMMA RankFound ==
  ASSUME GuildAssumption, Mastered, NEW g \in Guilds, NEW c \in GuildChars, RankForMember(g, c) # {}
  PROVE  /\ The(RankForMember(g, c)).rid \in 0 .. 254
         /\ c \in Founders <=> The(RankForMember(g, c)).rid = 0
<1> DEFINE r == The(RankForMember(g, c))
           s == ranks[g]
           l == entries[g][c]
<1>1. r \in RankForMember(g, c)
  BY DEF The
<1>2. l # <<>> /\ r \in Range(s) /\ r.rid = Head(l).rank
  BY <1>1 DEF RankForMember, MemberOf, RankWithID
<1> HIDE DEF r
<1>3. IsRanks(s) /\ ListRight(c, l)
  BY DEF Mastered, ListsRight, RanksRight
<1> HIDE DEF s, l
<1>4. MayHave(c, Head(l).rank)
  <2>1. l \in Seq(Objects) /\ \A k \in DOMAIN l : MayHave(c, l[k].rank)
    BY <1>3 DEF ListRight
  <2>2. 1 \in DOMAIN l /\ Head(l) = l[1]
    BY <1>2, <2>1
  <2> QED
    BY <2>1, <2>2
<1>5. r.rid \in 0 .. 254
  <2>1. PICK n \in 2 .. GuildRankMax : n \in 2 .. 255 /\ Len(s) = n
    BY <1>3, RanksUnfold
  <2>2. /\ \A i \in 1 .. n : s[i].rid = i - 1
        /\ \A x : x \in Range(s) <=> \E i \in 1 .. n : x = s[i]
    BY <1>3, <2>1, IsRanksMeans
  <2>3. PICK i \in 1 .. n : r = s[i]
    BY <1>2, <2>2
  <2>4. r.rid = i - 1
    BY <2>2, <2>3
  <2> QED
    BY <2>1, <2>4
<1>6. CASE c \in Founders
  <2>1. r.rid \in {0, 255}
    BY <1>2, <1>4, <1>6 DEF MayHave
  <2> QED
    BY <1>5, <1>6, <2>1 DEF r
<1>7. CASE c \notin Founders
  <2>1. r.rid \in 1 .. 255
    BY <1>2, <1>4, <1>7 DEF MayHave
  <2> QED
    BY <1>5, <1>7, <2>1 DEF r
<1> QED
  BY <1>6, <1>7

-----------------------------------------------------------------------------
\* Warmup: what is read from right tables is right.
LEMMA ListsAreRead ==
  ASSUME GuildAssumption, NEW m, RowsRight(m)
  PROVE  ListsRight(IndexFrom(m), EntriesFrom(m))
<1> DEFINE i == IndexFrom(m)
           e == EntriesFrom(m)
           o(c) == [rank |-> m[c].rank, note |-> m[c].note]
<1>1. \A c \in GuildChars : i[c] = IF m[c] = Nothing THEN Nothing ELSE m[c].g
  BY DEF IndexFrom
<1>2. \A g \in Guilds, c \in GuildChars :
        e[g][c] = IF m[c] # Nothing /\ m[c].g = g THEN <<o(c)>> ELSE <<>>
  BY DEF EntriesFrom
<1>3. /\ \A c \in GuildChars : m[c] # Nothing => m[c] \in MemberRows /\ MayHave(c, m[c].rank)
      /\ \A g \in Guilds : m[Founder[g]] # Nothing /\ m[Founder[g]].g = g
  BY DEF RowsRight
<1> HIDE DEF i, e
<1>4. ASSUME NEW g \in Guilds, NEW c \in GuildChars PROVE ListRight(c, e[g][c])
  <2>1. CASE m[c] # Nothing /\ m[c].g = g
    <3>1. o(c) \in Objects /\ MayHave(c, o(c).rank)
      BY <1>3, <2>1 DEF MemberRows, Objects
    <3>2. e[g][c] = <<o(c)>>
      BY <1>2, <2>1
    <3> HIDE DEF o
    <3> QED
      BY <3>1, <3>2 DEF ListRight
  <2>2. CASE ~(m[c] # Nothing /\ m[c].g = g)
    <3>1. e[g][c] = <<>>
      BY <1>2, <2>2
    <3> QED
      BY <3>1 DEF ListRight
  <2> QED
    BY <2>1, <2>2
<1>5. ASSUME NEW c \in GuildChars, i[c] # Nothing PROVE e[i[c]][c] # <<>>
  <2>1. m[c] # Nothing /\ i[c] = m[c].g /\ m[c].g \in Guilds
    BY <1>1, <1>3, <1>5 DEF MemberRows
  <2>2. e[i[c]][c] = <<o(c)>>
    BY <1>2, <2>1
  <2> QED
    BY <2>2
<1>6. \A g \in Guilds : i[Founder[g]] = g
  BY <1>1, <1>3, OneFounder
<1> QED
  BY <1>4, <1>5, <1>6 DEF ListsRight, i, e

LEMMA RowsStayRight ==
  ASSUME GuildAssumption, NEW rows, NEW s, NEW call, RanksRight(rows, s, call)
  PROVE  IsRows(rows)
<1>1. IsRanks(s)
  BY DEF RanksRight
<1>2. CASE rows = RowsOf(s)
  BY <1>1, <1>2, RanksAreRead
<1>3. CASE /\ rows = Changed(call.w, RowsOf(s)) /\ call.w.k \in RankKinds /\ Fits(call.w, s)
           /\ call.w.k = "droprank" => Len(s) > 2
  BY <1>1, <1>3, CacheFollowsRows, BuiltIsRead
<1> QED
  BY <1>2, <1>3 DEF RanksRight

LEMMA RanksAgain ==
  ASSUME GuildAssumption, NEW rows, IsRows(rows)
  PROVE  RanksRight(rows, RanksFrom(rows), NoCall)
<1>1. IsRanks(RanksFrom(rows)) /\ rows = RowsOf(RanksFrom(rows))
  BY RowsAreRead
<1> QED
  BY <1>1 DEF RanksRight, NoCall

LEMMA PanicMasters ==
  ASSUME GuildAssumption, Mastered, Panic
  PROVE  Mastered'
<1>1. /\ db' = db /\ index' = IndexFrom(db.member) /\ entries' = EntriesFrom(db.member)
      /\ ranks' = [g \in Guilds |-> RanksFrom(db.rights[g])]
      /\ guildCalls' = [c \in GuildChars |-> NoCall]
  BY DEF Panic, Warmup
<1>2. RowsRight(db.member) /\ ListsRight(index', entries')
  BY <1>1, ListsAreRead DEF Mastered
<1>3. \A u \in GuildChars : guildCalls'[u] = NoCall /\ CallRight(u, guildCalls'[u])
  BY <1>1, IdleIsRight
<1>4. DOMAIN db.rights = Guilds /\ DOMAIN ranks' = Guilds
  BY <1>1 DEF Mastered
<1>5. ASSUME NEW g \in Guilds PROVE RanksRight(db.rights[g], ranks'[g], guildCalls'[Founder[g]])
  <2>1. IsRows(db.rights[g])
    BY RowsStayRight DEF Mastered
  <2>2. ranks'[g] = RanksFrom(db.rights[g]) /\ guildCalls'[Founder[g]] = NoCall
    BY <1>1, <1>3, OneFounder
  <2> QED
    BY <2>1, <2>2, RanksAgain
<1> QED
  BY <1>1, <1>2, <1>3, <1>4, <1>5 DEF Mastered

-----------------------------------------------------------------------------
\* A decision panics, refuses, or goes on to a write that may be made.
LEMMA DecisionMasters ==
  ASSUME GuildAssumption, MemberInv, Mastered, NEW u \in GuildChars, guildCalls[u].at # "cache",
         \/ Panic
         \/ Refuse(u)
         \/ \E w : /\ WriteOK(w) /\ Write(u, w) /\ WriteRight(u, "db", w)
                   /\ w.k \in RankKinds => Fits(w, ranks[w.g])
  PROVE  Mastered'
<1>1. CallsOK
  BY DEF MemberInv
<1>2. CASE Refuse(u)
  BY <1>1, <1>2, RefuseMastered DEF Refuse
<1>3. ASSUME NEW w, WriteOK(w), Write(u, w), WriteRight(u, "db", w), w.k \in RankKinds => Fits(w, ranks[w.g])
      PROVE  Mastered'
  <2>1. /\ Proceeds(u, [at |-> "db", w |-> w])
        /\ db'.member = db.member /\ db'.rights = db.rights /\ UNCHANGED <<index, entries, ranks>>
    BY <1>3 DEF Write, cacheVars
  <2> QED
    BY <1>1, <1>3, <2>1, WriteMastered
<1> QED
  BY <1>2, <1>3, PanicMasters

LEMMA OtherDecisionsMaster ==
  ASSUME GuildAssumption, MemberInv, Mastered, NEW u \in GuildChars,
         InviteMember(u) \/ SetMessageOfTheDay(u) \/ SetMemberNote(u)
  PROVE  Mastered'
<1> USE DEF MemberKinds, OtherKinds, RankKinds
<1>1. CASE InviteMember(u)
  <2> DEFINE w == [k |-> "invite", c |-> guildCalls[u].t, g |-> guildCalls[u].g, by |-> u]
  <2>1. Deciding(u, {"invite"}) /\ (Refuse(u) \/ Write(u, w))
    BY <1>1 DEF InviteMember
  <2>2. guildCalls[u].g \in Guilds /\ guildCalls[u].t \in GuildChars /\ guildCalls[u].at # "cache"
    BY <2>1, DecidesOn
  <2>3. WriteOK(w) /\ WriteRight(u, "db", w) /\ w.k \notin RankKinds
    BY <2>2 DEF WriteOK, WriteRight
  <2> HIDE DEF w, RankKinds
  <2> QED
    BY <2>1, <2>2, <2>3, DecisionMasters
<1>2. CASE SetMessageOfTheDay(u)
  <2> DEFINE w == [k |-> "motd", g |-> guildCalls[u].g, text |-> u]
  <2>1. Deciding(u, {"motd"}) /\ (Panic \/ Refuse(u) \/ Write(u, w))
    BY <1>2 DEF SetMessageOfTheDay
  <2>2. guildCalls[u].at # "cache"
    BY <2>1, DecidesOn
  <2>3. WriteOK(w) /\ WriteRight(u, "db", w) /\ w.k \notin RankKinds
    BY DEF WriteOK, WriteRight
  <2> HIDE DEF w, RankKinds
  <2> QED
    BY <2>1, <2>2, <2>3, DecisionMasters
<1>3. CASE SetMemberNote(u)
  <2> DEFINE w == [k |-> "note", c |-> guildCalls[u].t, text |-> u, g |-> guildCalls[u].g, by |-> u]
  <2>1. Deciding(u, {"note", "offnote"}) /\ (Panic \/ Refuse(u) \/ Write(u, w))
    BY <1>3 DEF SetMemberNote
  <2>2. guildCalls[u].t \in GuildChars /\ guildCalls[u].at # "cache"
    BY <2>1, DecidesOn
  <2>3. WriteOK(w) /\ WriteRight(u, "db", w) /\ w.k \notin RankKinds
    BY <2>2 DEF WriteOK, WriteRight
  <2> HIDE DEF w, RankKinds
  <2> QED
    BY <2>1, <2>2, <2>3, DecisionMasters
<1> QED
  BY <1>1, <1>2, <1>3

\* Leave and Kick: rank 0 cannot leave, and nobody is above it.
LEMMA PartingsMaster ==
  ASSUME GuildAssumption, MemberInv, Mastered, NEW u \in GuildChars, Leave(u) \/ Kick(u)
  PROVE  Mastered'
<1> DEFINE g == guildCalls[u].g
           t == guildCalls[u].t
           w(c) == [k |-> "part", c |-> c]
           mine == RankForMember(g, u)
           target == RankForMember(g, t)
<1>1. ASSUME NEW c \in GuildChars, c \notin Founders
      PROVE  WriteOK(w(c)) /\ WriteRight(u, "db", w(c)) /\ w(c).k \notin RankKinds
  BY <1>1 DEF WriteOK, WriteRight, MemberKinds, OtherKinds, RankKinds
<1> HIDE DEF w
<1>2. CASE Leave(u)
  <2>1. /\ Deciding(u, {"leave"})
        /\ Panic \/ Refuse(u) \/ (Write(u, w(u)) /\ mine # {} /\ The(mine).rid # 0)
    BY <1>2 DEF Leave, GuildRankGuildMaster, w
  <2>2. guildCalls[u].at # "cache" /\ g \in Guilds
    BY <2>1, DecidesOn
  <2>3. mine # {} /\ The(mine).rid # 0 => u \notin Founders
    BY <2>2, RankFound
  <2> HIDE DEF mine, g
  <2> QED
    BY <1>1, <2>1, <2>2, <2>3, DecisionMasters
<1>3. CASE Kick(u)
  <2>1. /\ Deciding(u, {"kick"})
        /\ \/ Panic \/ Refuse(u)
           \/ /\ Write(u, w(t)) /\ mine # {} /\ target # {}
              /\ ~(The(mine).rid >= The(target).rid)
    BY <1>3 DEF Kick, w
  <2>2. guildCalls[u].at # "cache" /\ g \in Guilds /\ t \in GuildChars
    BY <2>1, DecidesOn
  <2>3. mine # {} => The(mine).rid \in 0 .. 254
    BY <2>2, RankFound
  <2>4. target # {} => The(target).rid \in 0 .. 254 /\ (The(target).rid # 0 => t \notin Founders)
    BY <2>2, RankFound
  <2> HIDE DEF mine, target, g, t
  <2>5. mine # {} /\ target # {} /\ ~(The(mine).rid >= The(target).rid) => t \notin Founders
    BY <2>3, <2>4
  <2> QED
    BY <1>1, <2>1, <2>2, <2>5, DecisionMasters
<1> QED
  BY <1>2, <1>3

\* updateRank: the promotion of rank 0 wraps around, everybody else gets a rank
\* below that of the caller.
LEMMA NewRankRight ==
  ASSUME NEW op \in {"promote", "demote"}, NEW g, NEW c, NEW mine \in 0 .. 254, NEW target \in 0 .. 254,
         c \in Founders <=> target = 0, ~NewRankRefused(op, g, mine, target, NewRank(op, target))
  PROVE  NewRank(op, target) \in 1 .. 255 /\ MayHave(c, NewRank(op, target))
<1> DEFINE new == NewRank(op, target)
<1>1. CASE op = "promote"
  <2>1. new = IF target = 0 THEN 255 ELSE target - 1
    BY <1>1, BytesWrap DEF NewRank
  <2>2. ~(mine >= new)
    BY <1>1 DEF NewRankRefused
  <2> HIDE DEF new
  <2> QED
    BY <2>1, <2>2 DEF MayHave, new
<1>2. CASE op = "demote"
  <2>1. new = target + 1
    BY <1>2, BytesWrap DEF NewRank
  <2>2. ~(mine >= target)
    BY <1>2 DEF NewRankRefused
  <2> HIDE DEF new
  <2> QED
    BY <2>1, <2>2 DEF MayHave, new
<1> QED
  BY <1>1, <1>2

LEMMA UpdateRankMasters ==
  ASSUME GuildAssumption, MemberInv, Mastered, NEW u \in GuildChars, UpdateRank(u)
  PROVE  Mastered'
<1> DEFINE g == guildCalls[u].g
           t == guildCalls[u].t
           op == guildCalls[u].op
           mine == RankForMember(g, u)
           target == RankForMember(g, t)
           new == NewRank(op, The(target).rid)
           w == [k |-> "rank", c |-> t, rank |-> new, known |-> RankWithID(g, new) # {}]
<1>1. /\ Deciding(u, {"promote", "demote"})
      /\ \/ Panic \/ Refuse(u)
         \/ /\ Write(u, w) /\ mine # {} /\ target # {}
            /\ ~NewRankRefused(op, g, The(mine).rid, The(target).rid, new)
  BY DEF UpdateRank
<1>2. guildCalls[u].at # "cache" /\ g \in Guilds /\ t \in GuildChars /\ op \in {"promote", "demote"}
  BY <1>1, DecidesOn
<1>3. mine # {} => The(mine).rid \in 0 .. 254
  BY <1>2, RankFound
<1>4. target # {} => The(target).rid \in 0 .. 254 /\ (t \in Founders <=> The(target).rid = 0)
  BY <1>2, RankFound
<1> HIDE DEF mine, target, g, t, op
<1>5. ASSUME mine # {}, target # {}, ~NewRankRefused(op, g, The(mine).rid, The(target).rid, new)
      PROVE  WriteOK(w) /\ WriteRight(u, "db", w) /\ w.k \notin RankKinds
  <2>1. new \in 1 .. 255 /\ MayHave(t, new)
    <3> DEFINE a == The(mine).rid
               b == The(target).rid
    <3>1. a \in 0 .. 254 /\ b \in 0 .. 254 /\ (t \in Founders <=> b = 0) /\ ~NewRankRefused(op, g, a, b, NewRank(op, b))
      BY <1>3, <1>4, <1>5
    <3> HIDE DEF a, b
    <3>2. NewRank(op, b) \in 1 .. 255 /\ MayHave(t, NewRank(op, b))
      BY <1>2, <3>1, NewRankRight
    <3> QED
      BY <3>2 DEF b
  <2> HIDE DEF new
  <2> QED
    BY <1>2, <2>1 DEF WriteOK, WriteRight, MemberKinds, OtherKinds, RankKinds
<1> HIDE DEF w, new
<1> QED
  BY <1>1, <1>2, <1>5, DecisionMasters

\* UpdateGuildRank, AddGuildRank, DeleteLastGuildRank: the caller is the founder
\* of the guild, and the write fits the cached ranks.
LEMMA MasterDecides ==
  ASSUME GuildAssumption, MemberInv, Mastered, NEW u \in GuildChars, guildCalls[u].at = "decide",
         NEW g, g = guildCalls[u].g, g \in Guilds, RankForMember(g, u) # {}, The(RankForMember(g, u)).rid = 0
  PROVE  u = Founder[g] /\ IsRanks(ranks[g])
<1>1. u \in Founders
  BY RankFound
<1>2. PICK h \in Guilds : u = Founder[h]
  BY <1>1 DEF Founders
<1>3. g = h
  BY <1>2 DEF Mastered, CallRight
<1> QED
  BY <1>2, <1>3 DEF Mastered, RanksRight

LEMMA RankCallsMaster ==
  ASSUME GuildAssumption, MemberInv, Mastered, NEW u \in GuildChars,
         UpdateGuildRank(u) \/ AddGuildRank(u) \/ DeleteLastGuildRank(u)
  PROVE  Mastered'
<1> DEFINE g == guildCalls[u].g
           mine == RankForMember(g, u)
           s == ranks[g]
           may == mine # {} /\ The(mine).rid = 0
<1>1. CASE UpdateGuildRank(u)
  <2> DEFINE w(rid, rights) == [k |-> "rights", g |-> g, rid |-> rid, rights |-> rights]
  <2>1. /\ Deciding(u, {"rights"})
        /\ Panic \/ Refuse(u) \/ \E rid, rights : Write(u, w(rid, rights)) /\ may
    BY <1>1 DEF UpdateGuildRank, GuildRankGuildMaster
  <2>2. guildCalls[u].at = "decide" /\ guildCalls[u].at # "cache" /\ g \in Guilds
    BY <2>1, DecidesOn
  <2>3. may => u = Founder[g]
    BY <2>2, MasterDecides
  <2> HIDE DEF may, g
  <2>4. ASSUME NEW rid, NEW rights, may
        PROVE  /\ WriteOK(w(rid, rights)) /\ WriteRight(u, "db", w(rid, rights))
               /\ Fits(w(rid, rights), ranks[w(rid, rights).g])
    BY <2>2, <2>3, <2>4 DEF WriteOK, WriteRight, Fits, MemberKinds, OtherKinds, RankKinds
  <2> HIDE DEF w
  <2> QED
    BY <2>1, <2>2, <2>4, DecisionMasters
<1>2. CASE AddGuildRank(u)
  <2> DEFINE w == [k |-> "addrank", g |-> g, rid |-> U8(LowestRankInGuild(g) + 1)]
  <2>1. /\ Deciding(u, {"addrank"})
        /\ Panic \/ Refuse(u) \/ (Write(u, w) /\ may /\ ~(Len(s) >= GuildRankMax))
    BY <1>2 DEF AddGuildRank, GuildRankGuildMaster
  <2>2. guildCalls[u].at = "decide" /\ guildCalls[u].at # "cache" /\ g \in Guilds
    BY <2>1, DecidesOn
  <2>3. may => u = Founder[g] /\ IsRanks(s)
    BY <2>2, MasterDecides
  <2>4. ASSUME may, ~(Len(s) >= GuildRankMax)
        PROVE  WriteOK(w) /\ WriteRight(u, "db", w) /\ Fits(w, ranks[w.g])
    <3>1. LowestRankInGuild(g) = Len(s) - 1 /\ Len(s) \in 2 .. 255
      BY <2>3, <2>4, Lowest
    <3>2. GuildRankMax \in 2 .. 255
      BY RankBound
    <3>3. U8(LowestRankInGuild(g) + 1) = Len(s) /\ Len(s) < GuildRankMax
      <4>1. \A n \in 2 .. 255 : U8((n - 1) + 1) = n
        BY BytesWrap
      <4>2. \A n, m \in 2 .. 255 : ~(n >= m) => n < m
        OBVIOUS
      <4> DEFINE n == Len(s)
      <4>3. n \in 2 .. 255 /\ LowestRankInGuild(g) = n - 1 /\ ~(n >= GuildRankMax)
        BY <2>4, <3>1
      <4> HIDE DEF n, g
      <4>4. U8(LowestRankInGuild(g) + 1) = n
        BY <4>1, <4>3
      <4>5. n < GuildRankMax
        BY <3>2, <4>2, <4>3
      <4> QED
        BY <4>4, <4>5 DEF n
    <3> HIDE DEF may, g
    <3> QED
      BY <2>2, <2>3, <2>4, <3>3 DEF WriteOK, WriteRight, Fits, MemberKinds, OtherKinds, RankKinds
  <2> HIDE DEF w, may
  <2> QED
    BY <2>1, <2>2, <2>4, DecisionMasters
<1>3. CASE DeleteLastGuildRank(u)
  <2> DEFINE w == [k |-> "droprank", g |-> g, rid |-> LowestRankInGuild(g)]
  <2>1. /\ Deciding(u, {"droprank"})
        /\ Panic \/ Refuse(u) \/ (Write(u, w) /\ may)
    BY <1>3 DEF DeleteLastGuildRank, GuildRankGuildMaster
  <2>2. guildCalls[u].at = "decide" /\ guildCalls[u].at # "cache" /\ g \in Guilds
    BY <2>1, DecidesOn
  <2>3. may => u = Founder[g] /\ IsRanks(s)
    BY <2>2, MasterDecides
  <2>4. ASSUME may
        PROVE  WriteOK(w) /\ WriteRight(u, "db", w) /\ Fits(w, ranks[w.g])
    <3>1. LowestRankInGuild(g) = Len(s) - 1
      BY <2>3, <2>4, Lowest
    <3> HIDE DEF may, g
    <3> QED
      BY <2>2, <2>3, <2>4, <3>1 DEF WriteOK, WriteRight, Fits, MemberKinds, OtherKinds, RankKinds
  <2> HIDE DEF w, may
  <2> QED
    BY <2>1, <2>2, <2>4, DecisionMasters
<1> QED
  BY <1>1, <1>2, <1>3

-----------------------------------------------------------------------------
\* A call begins.
LEMMA BeganMasters ==
  ASSUME GuildAssumption, MemberInv, Mastered, NEW u \in GuildChars, NEW r,
         CallOK(u, r), CallRight(u, r), r.at \in {"decide", "accept"}, Began(u, r)
  PROVE  Mastered'
<1>1. /\ guildCalls[u] = NoCall /\ Proceeds(u, r) /\ UNCHANGED <<index, entries, ranks>>
      /\ db'.member = db.member /\ db'.rights = db.rights
  BY DEF Began, cacheVars
<1>2. guildCalls[u].at # "cache" /\ r.at # "cache" /\ r.at # "db" /\ CallsOK
  BY <1>1, IdleIsCall DEF MemberInv
<1> QED
  BY <1>1, <1>2, MasteredCalmly

LEMMA BeginsMaster ==
  ASSUME GuildAssumption, MemberInv, Mastered, NEW u \in GuildChars, Begin(u) \/ InviteAccepted(u)
  PROVE  Mastered'
<1>1. CASE Begin(u)
  <2>1. PICK op \in OwnOps \cup TargetOps \cup {"invite"} : \E t \in GuildChars :
          (op \in OwnOps => t = u) /\ Began(u, [at |-> "decide", op |-> op, g |-> index[u], t |-> t])
    BY <1>1 DEF Begin
  <2>2. PICK t \in GuildChars :
          (op \in OwnOps => t = u) /\ Began(u, [at |-> "decide", op |-> op, g |-> index[u], t |-> t])
    BY <2>1
  <2>3. index[u] \in Guilds /\ \A g \in Guilds : u = Founder[g] => index[u] = g
    BY <1>1 DEF Begin, MemberInv, CacheOK, Mastered, ListsRight
  <2> DEFINE r == [at |-> "decide", op |-> op, g |-> index[u], t |-> t]
  <2>4. CallOK(u, r) /\ CallRight(u, r) /\ r.at = "decide"
    BY <2>2, <2>3 DEF CallOK, CallRight
  <2> HIDE DEF r
  <2> QED
    BY <2>2, <2>4, BeganMasters DEF r
<1>2. CASE InviteAccepted(u)
  <2> DEFINE r == [at |-> "accept", c |-> u, g |-> db.invite[u]]
  <2>1. db.invite[u] \in Guilds /\ Began(u, r)
    BY <1>2 DEF InviteAccepted, MemberInv, DbOK
  <2>2. CallOK(u, r) /\ CallRight(u, r) /\ r.at = "accept"
    BY <2>1 DEF CallOK, CallRight
  <2> HIDE DEF r
  <2> QED
    BY <2>1, <2>2, BeganMasters
<1> QED
  BY <1>1, <1>2

\* The new member gets the lowest rank, which is not the master's.
LEMMA RemoveGuildInviteMasters ==
  ASSUME GuildAssumption, MemberInv, Mastered, NEW u \in GuildChars, RemoveGuildInvite(u)
  PROVE  Mastered'
<1> DEFINE g == guildCalls[u].g
           w == [k |-> "join", c |-> u, g |-> g, rank |-> LowestRankInGuild(g)]
<1>1. /\ guildCalls[u].at = "accept" /\ db' = [db EXCEPT !.invite[u] = Nothing]
      /\ Proceeds(u, [at |-> "db", w |-> w]) /\ UNCHANGED <<index, entries, ranks>>
  BY DEF RemoveGuildInvite, cacheVars
<1>2. db'.member = db.member /\ db'.rights = db.rights
  BY <1>1 DEF MemberInv, DbOK
<1>3. g \in Guilds /\ CallsOK
  BY <1>1 DEF MemberInv, CallsOK, CallOK
<1>4. LowestRankInGuild(g) \in 1 .. 255
  <2>1. IsRanks(ranks[g])
    BY <1>3 DEF Mastered, RanksRight
  <2>2. LowestRankInGuild(g) = Len(ranks[g]) - 1 /\ Len(ranks[g]) \in 2 .. 255
    BY <2>1, Lowest
  <2>3. \A n \in 2 .. 255 : n - 1 \in 1 .. 255
    OBVIOUS
  <2> QED
    BY <2>2, <2>3
<1>5. WriteOK(w) /\ WriteRight(u, "db", w) /\ w.k \notin RankKinds
  <2> HIDE DEF g
  <2> QED
    BY <1>3, <1>4 DEF WriteOK, WriteRight, MemberKinds, OtherKinds, RankKinds
<1> HIDE DEF w, g
<1> QED
  BY <1>1, <1>2, <1>3, <1>5, WriteMastered

LEMMA DbFailsMasters ==
  ASSUME GuildAssumption, MemberInv, Mastered, NEW u \in GuildChars, DbFails(u)
  PROVE  Mastered'
<1>1. CallsOK /\ guildCalls[u].at # "cache" /\ Proceeds(u, NoCall) /\ UNCHANGED <<db, cacheVars>>
  BY DEF MemberInv, DbFails
<1> QED
  BY <1>1, RefuseMastered

\* What a statement does to the rows of guild_member that founders and others have.
LEMMA AfterIsRight ==
  ASSUME GuildAssumption, NothingIsNoRow, NEW w, WriteOK(w), w.k \in MemberKinds, NEW u, WriteRight(u, "db", w),
         NEW m, RowsRight(m), \A c \in GuildChars : IsRow(m[c]), w.k = "join" => m[w.c] = Nothing, NEW n,
         \A d \in GuildChars : n[d] = IF w.c = d THEN After(w, m[d]) ELSE m[d]
  PROVE  RowsRight(n) /\ WriteRight(u, "cache", w)
<1> DEFINE c == w.c
<1>1. /\ \A d \in GuildChars : m[d] # Nothing => m[d] \in MemberRows /\ MayHave(d, m[d].rank)
      /\ \A g \in Guilds : m[Founder[g]] # Nothing /\ m[Founder[g]].g = g
  BY DEF RowsRight
<1>2. c \in GuildChars /\ (w.k = "join" => w.g \in Guilds)
  BY DEF WriteOK
<1>3. w.k = "join" => c \notin Founders
  BY <1>1 DEF Founders
<1>4. n[c] # Nothing => n[c] \in MemberRows /\ MayHave(c, n[c].rank)
  <2>0. n[c] = After(w, m[c])
    BY <1>2
  <2>1. CASE w.k = "join"
    <3>1. n[c] = [g |-> w.g, rank |-> w.rank, note |-> Nothing]
      BY <2>0, <2>1 DEF After
    <3>2. w.rank \in 1 .. 255
      BY <2>1 DEF WriteRight
    <3>3. MayHave(c, w.rank)
      BY <1>3, <2>1, <3>2 DEF MayHave
    <3> QED
      BY <1>2, <2>1, <3>1, <3>2, <3>3 DEF MemberRows, Notes
  <2>2. CASE w.k = "part"
    BY <2>0, <2>2 DEF After
  <2>3. CASE w.k \in {"rank", "note"} /\ m[c] = Nothing
    BY <2>0, <2>3 DEF After
  <2>4. CASE w.k = "rank" /\ m[c] # Nothing
    <3>1. n[c] = [m[c] EXCEPT !.rank = w.rank]
      BY <2>0, <2>4 DEF After
    <3>2. [m[c] EXCEPT !.rank = w.rank] = [g |-> m[c].g, rank |-> w.rank, note |-> m[c].note]
      BY <1>2, <2>4, RowUpdated
    <3>3. w.rank \in 1 .. 255 /\ MayHave(c, w.rank)
      BY <2>4 DEF WriteRight
    <3>4. m[c].g \in Guilds /\ m[c].note \in Notes
      BY <1>1, <1>2, <2>4 DEF MemberRows
    <3> QED
      BY <3>1, <3>2, <3>3, <3>4 DEF MemberRows
  <2>5. CASE w.k = "note" /\ m[c] # Nothing
    <3>1. n[c] = [m[c] EXCEPT !.note = w.text]
      BY <2>0, <2>5 DEF After
    <3>2. [m[c] EXCEPT !.note = w.text] = [g |-> m[c].g, rank |-> m[c].rank, note |-> w.text]
      BY <1>2, <2>5, RowUpdated
    <3>3. w.text \in Notes
      BY <2>5 DEF WriteRight, Notes
    <3>4. m[c].g \in Guilds /\ m[c].rank \in 0 .. 255 /\ MayHave(c, m[c].rank)
      BY <1>1, <1>2, <2>5 DEF MemberRows
    <3> QED
      BY <3>1, <3>2, <3>3, <3>4 DEF MemberRows
  <2> QED
    BY <2>1, <2>2, <2>3, <2>4, <2>5 DEF MemberKinds
<1>5. ASSUME NEW g \in Guilds, Founder[g] = c PROVE n[c] # Nothing /\ n[c].g = g
  <2>1. c \in Founders /\ m[c] # Nothing /\ m[c].g = g /\ n[c] = After(w, m[c])
    BY <1>1, <1>2, <1>5 DEF Founders
  <2>2. w.k \in {"rank", "note"}
    BY <1>3, <2>1 DEF WriteRight, MemberKinds
  <2>3. /\ [m[c] EXCEPT !.rank = w.rank] = [g |-> m[c].g, rank |-> w.rank, note |-> m[c].note]
        /\ [m[c] EXCEPT !.note = w.text] = [g |-> m[c].g, rank |-> m[c].rank, note |-> w.text]
    BY <1>2, <2>1, RowUpdated
  <2>4. \/ n[c] = [g |-> g, rank |-> w.rank, note |-> m[c].note]
        \/ n[c] = [g |-> g, rank |-> m[c].rank, note |-> w.text]
    BY <2>1, <2>2, <2>3 DEF After
  <2> QED
    BY <2>4 DEF NothingIsNoRow
<1>6. \A d \in GuildChars : d # c => n[d] = m[d]
  OBVIOUS
<1> HIDE DEF c
<1>7. RowsRight(n)
  BY <1>1, <1>4, <1>5, <1>6, OneFounder DEF RowsRight
<1>8. WriteRight(u, "cache", w)
  BY <1>3 DEF WriteRight, c
<1> QED
  BY <1>7, <1>8

Ranked(call) == call.at \in {"db", "cache"} /\ call.w.k \in RankKinds

LEMMA RanksUntouched ==
  ASSUME NEW rows, NEW s, NEW call, NEW r, RanksRight(rows, s, call), ~Ranked(call), ~Ranked(r)
  PROVE  RanksRight(rows, s, r)
BY DEF RanksRight, Ranked

\* What a statement does to guild_rank.
LEMMA StatementRanks ==
  ASSUME DbOK(db), DOMAIN db.rights = Guilds, NEW w, WriteOK(w), w.k \in RankKinds => w.g \in Guilds
  PROVE  /\ DOMAIN Statement(w).rights = Guilds
         /\ \A g \in Guilds : Statement(w).rights[g] =
              IF w.k \in RankKinds /\ w.g = g THEN Changed(w, db.rights[g]) ELSE db.rights[g]
<1>1. db = [member |-> db.member, rights |-> db.rights, invite |-> db.invite, motd |-> db.motd]
  BY DEF DbOK
<1>2. w.k \in MemberKinds \cup OtherKinds
  BY DEF WriteOK
<1>3. CASE w.k \notin RankKinds
  <2>1. Statement(w).rights = db.rights
    <3>1. CASE w.k = "invite"
      BY <1>1, <3>1 DEF Statement
    <3>2. CASE w.k = "join"
      BY <1>1, <3>2 DEF Statement
    <3>3. CASE w.k = "part"
      BY <1>1, <3>3 DEF Statement
    <3>4. CASE w.k = "rank"
      BY <1>1, <3>4 DEF Statement
    <3>5. CASE w.k = "note"
      BY <1>1, <3>5 DEF Statement
    <3>6. CASE w.k = "motd"
      BY <1>1, <3>6 DEF Statement
    <3> QED
      BY <1>2, <1>3, <3>1, <3>2, <3>3, <3>4, <3>5, <3>6 DEF MemberKinds, OtherKinds, RankKinds
  <2> QED
    BY <1>3, <2>1
<1>4. CASE w.k \in RankKinds
  <2>1. CASE w.k = "rights" /\ w.rid \notin DOMAIN db.rights[w.g]
    <3>1. Changed(w, db.rights[w.g]) = db.rights[w.g] /\ Statement(w) = db
      BY <2>1 DEF Changed, Statement
    <3> QED
      BY <3>1
  <2>2. CASE ~(w.k = "rights" /\ w.rid \notin DOMAIN db.rights[w.g])
    <3> SUFFICES Statement(w).rights = [db.rights EXCEPT ![w.g] = Changed(w, db.rights[w.g])]
      BY <1>4
    <3>0. \A x : [db EXCEPT !.rights = x].rights = x
      BY <1>1
    <3>1. CASE w.k = "rights" /\ w.rid \in DOMAIN db.rights[w.g]
      <4>1. Changed(w, db.rights[w.g]) = [db.rights[w.g] EXCEPT ![w.rid] = w.rights]
        BY <3>1 DEF Changed
      <4>2. Statement(w) = [db EXCEPT !.rights[w.g][w.rid] = w.rights]
        BY <3>1 DEF Statement
      <4> QED
        BY <3>0, <4>1, <4>2
    <3>2. CASE w.k = "addrank"
      <4>1. Changed(w, db.rights[w.g]) = RowsWith(db.rights[w.g], w.rid, RightEmpty)
        BY <3>2 DEF Changed
      <4>2. Statement(w) = [db EXCEPT !.rights[w.g] = RowsWith(@, w.rid, RightEmpty)]
        BY <3>2 DEF Statement
      <4> QED
        BY <3>0, <4>1, <4>2
    <3>3. CASE w.k = "droprank"
      <4>1. Changed(w, db.rights[w.g]) = RowsUpTo(db.rights[w.g], w.rid)
        BY <3>3 DEF Changed
      <4>2. Statement(w) = [db EXCEPT !.rights[w.g] = RowsUpTo(@, w.rid)]
        BY <3>3 DEF Statement
      <4> QED
        BY <3>0, <4>1, <4>2
    <3> QED
      BY <1>4, <2>2, <3>1, <3>2, <3>3 DEF RankKinds
  <2> QED
    BY <2>1, <2>2
<1> QED
  BY <1>3, <1>4

\* A rank is deleted and no guild is stripped: two are left.
LEMMA TwoAreLeft ==
  ASSUME GuildAssumption, NEW s, IsRanks(s), NEW w, w.k = "droprank", Fits(w, s),
         ~(Cardinality(DOMAIN Changed(w, RowsOf(s))) <= 1)
  PROVE  Len(s) > 2
<1>1. PICK n \in 2 .. GuildRankMax : n \in 2 .. 255 /\ Len(s) = n /\ DOMAIN RowsOf(s) = 0 .. n - 1
  BY RanksUnfold
<1>2. w.rid = n - 1
  BY <1>1 DEF Fits
<1>3. DOMAIN Changed(w, RowsOf(s)) = {x \in 0 .. n - 1 : x < n - 1}
  BY <1>1, <1>2 DEF Changed, RowsUpTo
<1>4. {x \in 0 .. n - 1 : x < n - 1} = 0 .. (n - 1) - 1 /\ n - 1 \in Nat
  BY <1>1
<1>5. Cardinality(0 .. (n - 1) - 1) = n - 1
  BY <1>4, BelowIsCounted
<1>6. Cardinality(DOMAIN Changed(w, RowsOf(s))) = n - 1
  BY <1>3, <1>4, <1>5
<1>7. ~(n - 1 <= 1)
  BY <1>6
<1>8. n > 2
  BY <1>1, <1>7
<1> QED
  BY <1>1, <1>8

LEMMA DbStepMasters ==
  ASSUME GuildAssumption, NothingIsNoRow, MemberInv, Mastered, NEW u \in GuildChars, DbStep(u), stripped' = {}
  PROVE  Mastered'
<1> DEFINE w == guildCalls[u].w
           r == [at |-> "cache", w |-> w]
<1>1. guildCalls[u] = [at |-> "db", w |-> w] /\ WriteOK(w)
  BY DEF DbStep, MemberInv, CallsOK, CallOK
<1>2. /\ db' = Statement(w) /\ ~Duplicate(w) /\ Proceeds(u, r) /\ UNCHANGED <<index, entries, ranks>>
      /\ \A g \in Guilds : ~(Cardinality(DOMAIN db'.rights[g]) <= 1)
  <2>1. [guildCalls[u] EXCEPT !.at = "cache"] = r
    BY <1>1
  <2> QED
    BY <2>1 DEF DbStep, cacheVars
<1>3. CallOK(u, r) /\ r.at = "cache" /\ r.w = w
  BY <1>1 DEF CallOK
<1>4. guildCalls[u].at = "db" /\ guildCalls[u].w = w /\ WriteRight(u, "db", w)
  BY <1>1 DEF Mastered, CallRight
<1>5. w.k = "join" => db.member[w.c] = Nothing
  BY <1>2 DEF Duplicate
<1> HIDE DEF r
<1>6. \A v \in GuildChars : guildCalls'[v] = IF v = u THEN r ELSE guildCalls[v]
  BY <1>2, <1>3, CallsType DEF MemberInv
<1> HIDE DEF w
<1>7. /\ \A d \in GuildChars : db'.member[d] =
           IF w.k \in MemberKinds /\ w.c = d THEN After(w, db.member[d]) ELSE db.member[d]
      /\ DbOK(db) /\ RowsRight(db.member) /\ DOMAIN db.rights = Guilds
  BY <1>1, <1>2, StatementDoes DEF MemberInv, Mastered
<1>8. RowsRight(db'.member) /\ WriteRight(u, "cache", w)
  <2>1. CASE w.k \in MemberKinds
    <3>1. \A c \in GuildChars : IsRow(db.member[c])
      BY <1>7 DEF DbOK
    <3>2. \A d \in GuildChars : db'.member[d] = IF w.c = d THEN After(w, db.member[d]) ELSE db.member[d]
      BY <1>7, <2>1
    <3> QED
      BY <1>1, <1>4, <1>5, <1>7, <2>1, <3>1, <3>2, AfterIsRight
  <2>2. CASE w.k \notin MemberKinds
    <3>1. \A d \in GuildChars : db'.member[d] = db.member[d]
      BY <1>7, <2>2
    <3>2. RowsRight(db'.member)
      BY <1>7, <3>1, OneFounder DEF RowsRight
    <3>3. WriteRight(u, "cache", w)
      BY <1>4, <2>2 DEF WriteRight, MemberKinds
    <3> QED
      BY <3>2, <3>3
  <2> QED
    BY <2>1, <2>2
<1>9. \A v \in GuildChars : CallRight(v, guildCalls'[v])
  BY <1>3, <1>6, <1>8 DEF Mastered, CallRight
<1>10. w.k \in RankKinds => w.g \in Guilds /\ u = Founder[w.g]
  BY <1>4 DEF WriteRight
<1>11. /\ DOMAIN db'.rights = Guilds
       /\ \A g \in Guilds : db'.rights[g] =
            IF w.k \in RankKinds /\ w.g = g THEN Changed(w, db.rights[g]) ELSE db.rights[g]
  BY <1>1, <1>2, <1>7, <1>10, StatementRanks
<1>12. ASSUME NEW g \in Guilds PROVE RanksRight(db'.rights[g], ranks[g], guildCalls'[Founder[g]])
  <2>1. RanksRight(db.rights[g], ranks[g], guildCalls[Founder[g]]) /\ Founder[g] \in GuildChars
    BY OneFounder DEF Mastered
  <2>2. CASE Founder[g] # u
    BY <1>6, <1>10, <1>11, <2>1, <2>2
  <2>3. CASE Founder[g] = u /\ w.k \notin RankKinds
    <3>1. ~Ranked(guildCalls[u]) /\ ~Ranked(r)
      BY <1>3, <1>4, <2>3 DEF Ranked
    <3> QED
      BY <1>6, <1>11, <2>1, <2>3, <3>1, RanksUntouched
  <2>4. CASE Founder[g] = u /\ w.k \in RankKinds
    <3>1. w.g = g
      BY <1>10, <2>4, OneFounder
    <3>2. IsRanks(ranks[g]) /\ Fits(w, ranks[g]) /\ db.rights[g] = RowsOf(ranks[g])
      BY <1>4, <2>1, <2>4 DEF RanksRight
    <3>3. db'.rights[g] = Changed(w, RowsOf(ranks[g])) /\ ~(Cardinality(DOMAIN db'.rights[g]) <= 1)
      BY <1>2, <1>11, <2>4, <3>1, <3>2
    <3>4. w.k = "droprank" => Len(ranks[g]) > 2
      BY <3>2, <3>3, TwoAreLeft
    <3>5. guildCalls'[Founder[g]] = r
      BY <1>6, <2>1, <2>4
    <3> QED
      BY <1>3, <2>4, <3>2, <3>3, <3>4, <3>5 DEF RanksRight
  <2> QED
    BY <2>2, <2>3, <2>4
<1>13. ListsRight(index', entries') /\ DOMAIN ranks' = Guilds
  BY <1>2 DEF Mastered
<1> QED
  BY <1>2, <1>8, <1>9, <1>11, <1>12, <1>13 DEF Mastered

-----------------------------------------------------------------------------
\* Lists of right objects.
LEMMA ListsStayRight ==
  ASSUME NEW c, NEW l, ListRight(c, l)
  PROVE  /\ \A o \in Objects : MayHave(c, o.rank) => ListRight(c, Append(l, o)) /\ Append(l, o) # <<>>
         /\ l # <<>> => ListRight(c, Tail(l))
         /\ l # <<>> => /\ Len(l) \in DOMAIN l /\ l[Len(l)] \in Objects /\ MayHave(c, l[Len(l)].rank)
                        /\ \A o \in Objects : MayHave(c, o.rank) =>
                             ListRight(c, [l EXCEPT ![Len(l)] = o]) /\ [l EXCEPT ![Len(l)] = o] # <<>>
<1>1. l \in Seq(Objects) /\ \A k \in DOMAIN l : MayHave(c, l[k].rank)
  BY DEF ListRight
<1>2. ASSUME NEW o \in Objects, MayHave(c, o.rank)
      PROVE  ListRight(c, Append(l, o)) /\ Append(l, o) # <<>>
  <2> DEFINE t == Append(l, o)
  <2>1. /\ t \in Seq(Objects) /\ Len(t) = Len(l) + 1 /\ Len(l) \in Nat /\ DOMAIN t = 1 .. Len(t)
        /\ DOMAIN l = 1 .. Len(l) /\ \A k \in DOMAIN t : t[k] = IF k = Len(l) + 1 THEN o ELSE l[k]
    BY <1>1
  <2> HIDE DEF t
  <2>2. \A k \in DOMAIN t : MayHave(c, t[k].rank)
    <3> TAKE k \in DOMAIN t
    <3>1. k = Len(l) + 1 \/ k \in DOMAIN l
      BY <2>1
    <3> QED
      BY <1>1, <1>2, <2>1, <3>1
  <2>3. t # <<>>
    BY <2>1
  <2> QED
    BY <2>1, <2>2, <2>3 DEF ListRight, t
<1>3. ASSUME l # <<>> PROVE ListRight(c, Tail(l))
  <2> DEFINE t == Tail(l)
  <2>1. /\ t \in Seq(Objects) /\ Len(t) = Len(l) - 1 /\ Len(l) \in Nat /\ DOMAIN t = 1 .. Len(t)
        /\ DOMAIN l = 1 .. Len(l) /\ \A k \in DOMAIN t : t[k] = l[k + 1]
    BY <1>1, <1>3
  <2> HIDE DEF t
  <2>2. \A k \in DOMAIN t : MayHave(c, t[k].rank)
    <3> TAKE k \in DOMAIN t
    <3>1. k + 1 \in DOMAIN l
      BY <2>1
    <3> QED
      BY <1>1, <2>1, <3>1
  <2> QED
    BY <2>1, <2>2 DEF ListRight, t
<1>4. ASSUME l # <<>> PROVE Len(l) \in DOMAIN l /\ l[Len(l)] \in Objects /\ MayHave(c, l[Len(l)].rank)
  <2>1. Len(l) \in DOMAIN l /\ l[Len(l)] \in Objects
    BY <1>1, <1>4
  <2> QED
    BY <1>1, <2>1
<1>5. ASSUME l # <<>>, NEW o \in Objects, MayHave(c, o.rank)
      PROVE  ListRight(c, [l EXCEPT ![Len(l)] = o]) /\ [l EXCEPT ![Len(l)] = o] # <<>>
  <2> DEFINE t == [l EXCEPT ![Len(l)] = o]
  <2>1. /\ t \in Seq(Objects) /\ DOMAIN t = DOMAIN l
        /\ \A k \in DOMAIN t : t[k] = IF k = Len(l) THEN o ELSE l[k]
    BY <1>1, <1>4, <1>5
  <2> HIDE DEF t
  <2>2. \A k \in DOMAIN t : MayHave(c, t[k].rank)
    BY <1>1, <1>5, <2>1
  <2>3. t # <<>>
    <3>1. Len(l) \in DOMAIN t
      BY <1>4, <1>5, <2>1
    <3> QED
      BY <3>1
  <2> QED
    BY <2>1, <2>2, <2>3 DEF ListRight, t
<1> QED
  BY <1>2, <1>3, <1>4, <1>5

LEMMA ListReplacedRight ==
  ASSUME GuildAssumption, CacheOK, ListsRight(index, entries), NEW g \in Guilds, NEW c \in GuildChars, NEW l,
         Replaced(g, c, l), ListRight(c, l), \A d \in GuildChars : d # c => index'[d] = index[d],
         c \in Founders => index'[c] = index[c],
         (index'[c] = g /\ l # <<>>) \/ index'[c] = Nothing
  PROVE  ListsRight(index', entries')
<1>1. \A h \in Guilds, d \in GuildChars : entries'[h][d] = IF h = g /\ d = c THEN l ELSE entries[h][d]
  BY ListChanged
<1>2. /\ \A h \in Guilds, d \in GuildChars : ListRight(d, entries[h][d])
      /\ \A d \in GuildChars : index[d] # Nothing => entries[index[d]][d] # <<>>
      /\ \A h \in Guilds : index[Founder[h]] = h
  BY DEF ListsRight
<1>3. \A h \in Guilds, d \in GuildChars : ListRight(d, entries'[h][d])
  BY <1>1, <1>2
<1>4. ASSUME NEW d \in GuildChars, index'[d] # Nothing PROVE entries'[index'[d]][d] # <<>>
  <2>1. CASE d = c
    BY <1>1, <1>4, <2>1
  <2>2. CASE d # c
    <3>1. index'[d] = index[d] /\ index[d] \in Guilds
      BY <1>4, <2>2 DEF CacheOK
    <3> QED
      BY <1>1, <1>2, <1>4, <2>2, <3>1
  <2> QED
    BY <2>1, <2>2
<1>5. \A h \in Guilds : index'[Founder[h]] = h
  BY <1>2, OneFounder DEF Founders
<1> QED
  BY <1>3, <1>4, <1>5 DEF ListsRight

\* AddGuildMember, RemoveGuildMember, SetMemberRank and the notes of the cache.
LEMMA CacheStaysRight ==
  ASSUME GuildAssumption, CacheOK, ListsRight(index, entries), NEW u, NEW w, WriteOK(w), w.k \in MemberKinds,
         WriteRight(u, "cache", w),
         \/ w.k = "join" /\ Enlist(w)
         \/ w.k = "part" /\ Unlist(w.c)
         \/ w.k = "rank" /\ UpdateObject(w.c, "rank", w.rank) /\ index' = index
         \/ w.k = "note" /\ UpdateObject(w.c, "note", w.text) /\ index' = index
  PROVE  ListsRight(index', entries')
<1> DEFINE c == w.c
<1>1. c \in GuildChars
  BY DEF WriteOK
<1>2. /\ \A h \in Guilds, d \in GuildChars : ListRight(d, entries[h][d])
      /\ \A d \in GuildChars : index[d] # Nothing => index[d] \in Guilds /\ entries[index[d]][d] # <<>>
  BY DEF ListsRight, CacheOK
<1>3. CASE w.k = "join"
  <2> DEFINE o == [rank |-> w.rank, note |-> Nothing]
             l == Append(entries[w.g][c], o)
  <2>1. w.g \in Guilds /\ w.rank \in 1 .. 255 /\ c \notin Founders
    BY <1>3 DEF WriteOK, WriteRight
  <2>2. o \in Objects /\ MayHave(c, o.rank)
    BY <2>1 DEF Objects, Notes, MayHave
  <2>3. Replaced(w.g, c, l) /\ \A d \in GuildChars : index'[d] = IF d = c THEN w.g ELSE index[d]
    BY <1>1, <1>3, <2>1 DEF CacheOK, Replaced, Enlist
  <2> HIDE DEF o
  <2>4. ListRight(c, l) /\ l # <<>>
    BY <1>1, <1>2, <2>1, <2>2, ListsStayRight
  <2> HIDE DEF l, c
  <2> QED
    BY <1>1, <2>1, <2>3, <2>4, ListReplacedRight
<1>4. CASE w.k = "part"
  <2>1. c \notin Founders /\ Unlist(c) /\ \A d \in GuildChars : index'[d] = IF d = c THEN Nothing ELSE index[d]
    BY <1>1, <1>4 DEF WriteRight, Unlist, CacheOK
  <2>2. CASE index[c] = Nothing
    <3>1. entries' = entries
      BY <2>1, <2>2 DEF Unlist
    <3>2. \A d \in GuildChars : index'[d] = index[d]
      BY <1>1, <2>1, <2>2
    <3> QED
      BY <3>1, <3>2, OneFounder DEF ListsRight
  <2>3. CASE index[c] # Nothing
    <3> DEFINE g == index[c]
               l == Tail(entries[g][c])
    <3>1. g \in Guilds /\ Replaced(g, c, l)
      BY <1>1, <1>2, <2>1, <2>3 DEF Unlist, Replaced, CacheOK
    <3>2. ListRight(c, l)
      BY <1>1, <1>2, <2>3, ListsStayRight
    <3> HIDE DEF l, g, c
    <3> QED
      BY <1>1, <2>1, <3>1, <3>2, ListReplacedRight
  <2> QED
    BY <2>2, <2>3
<1>5. CASE w.k \in {"rank", "note"}
  <2>0. index' = index
    BY <1>5
  <2>1. CASE index[c] = Nothing
    <3>1. entries' = entries
      BY <1>5, <2>1 DEF UpdateObject
    <3> QED
      BY <2>0, <3>1
  <2>2. CASE index[c] # Nothing
    <3> DEFINE g == index[c]
               l == entries[g][c]
               x == l[Len(l)]
               o == IF w.k = "rank" THEN [x EXCEPT !.rank = w.rank] ELSE [x EXCEPT !.note = w.text]
               t == [l EXCEPT ![Len(l)] = o]
    <3>1. g \in Guilds /\ ListRight(c, l) /\ l # <<>>
      BY <1>1, <1>2, <2>2
    <3>2. x \in Objects /\ MayHave(c, x.rank)
      BY <3>1, ListsStayRight
    <3>3. Replaced(g, c, t)
      <4>1. CASE w.k = "rank"
        BY <1>5, <2>2, <4>1 DEF UpdateObject, Youngest, Replaced
      <4>2. CASE w.k = "note"
        BY <1>5, <2>2, <4>2 DEF UpdateObject, Youngest, Replaced
      <4> QED
        BY <1>5, <4>1, <4>2
    <3>4. o \in Objects /\ MayHave(c, o.rank)
      <4> HIDE DEF x
      <4>1. x = [rank |-> x.rank, note |-> x.note] /\ x.rank \in 0 .. 255 /\ x.note \in Notes
        BY <3>2 DEF Objects
      <4>2. CASE w.k = "rank"
        <5>1. o = [rank |-> w.rank, note |-> x.note]
          BY <4>1, <4>2, ObjectUpdated
        <5>2. w.rank \in 0 .. 255 /\ MayHave(c, w.rank)
          BY <4>2 DEF WriteRight
        <5> HIDE DEF o
        <5> QED
          BY <4>1, <5>1, <5>2 DEF Objects
      <4>3. CASE w.k = "note"
        <5>1. o = [rank |-> x.rank, note |-> w.text]
          BY <4>1, <4>3, ObjectUpdated
        <5>2. w.text \in Notes
          BY <4>3 DEF WriteRight, Notes
        <5> HIDE DEF o
        <5> QED
          BY <3>2, <4>1, <5>1, <5>2 DEF Objects
      <4> QED
        BY <1>5, <4>2, <4>3
    <3> HIDE DEF o, x
    <3>5. ListRight(c, t) /\ t # <<>>
      BY <3>1, <3>4, ListsStayRight
    <3>6. index'[c] = g /\ \A d \in GuildChars : index'[d] = index[d]
      BY <2>0
    <3> HIDE DEF t, l
    <3> QED
      BY <1>1, <3>1, <3>3, <3>5, <3>6, ListReplacedRight
  <2> QED
    BY <2>1, <2>2
<1> QED
  BY <1>3, <1>4, <1>5 DEF MemberKinds

LEMMA CacheStepRanks ==
  ASSUME DOMAIN ranks = Guilds, NEW u, NEW w, w = guildCalls[u].w, w.k \in RankKinds => w.g \in Guilds, CacheStep(u)
  PROVE  /\ DOMAIN ranks' = Guilds
         /\ \A g \in Guilds : ranks'[g] = IF w.k \in RankKinds /\ w.g = g THEN Cached(w, ranks[g]) ELSE ranks[g]
<1>1. CASE w.k \notin RankKinds
  <2>1. ranks' = ranks
    BY <1>1 DEF CacheStep, cacheVars, RankKinds
  <2> QED
    BY <1>1, <2>1
<1>2. CASE w.k \in RankKinds
  <2>1. ranks' = [ranks EXCEPT ![w.g] = Cached(w, ranks[w.g])]
    <3>1. CASE w.k = "rights"
      <4>1. Cached(w, ranks[w.g]) = [i \in DOMAIN ranks[w.g] |->
              IF ranks[w.g][i].rid = w.rid THEN [rid |-> w.rid, rights |-> w.rights] ELSE ranks[w.g][i]]
        BY <3>1 DEF Cached
      <4>2. ranks' = [ranks EXCEPT ![w.g] = [i \in DOMAIN @ |->
              IF @[i].rid = w.rid THEN [rid |-> w.rid, rights |-> w.rights] ELSE @[i]]]
        BY <3>1 DEF CacheStep
      <4> QED
        BY <4>1, <4>2
    <3>2. CASE w.k = "addrank"
      <4>1. Cached(w, ranks[w.g]) = Append(ranks[w.g], [rid |-> w.rid, rights |-> RightEmpty])
        BY <3>2 DEF Cached
      <4>2. ranks' = [ranks EXCEPT ![w.g] = Append(@, [rid |-> w.rid, rights |-> RightEmpty])]
        BY <3>2 DEF CacheStep
      <4> QED
        BY <4>1, <4>2
    <3>3. CASE w.k = "droprank"
      <4>1. Cached(w, ranks[w.g]) = CutRanks(w.g, w.rid)
        BY <3>3 DEF Cached, Cut, CutRanks
      <4>2. ranks' = [ranks EXCEPT ![w.g] = CutRanks(w.g, w.rid)]
        BY <3>3 DEF CacheStep
      <4> QED
        BY <4>1, <4>2
    <3> QED
      BY <1>2, <3>1, <3>2, <3>3 DEF RankKinds
  <2> QED
    BY <1>2, <2>1
<1> QED
  BY <1>1, <1>2

LEMMA CacheStepMasters ==
  ASSUME GuildAssumption, MemberInv, Mastered, NEW u \in GuildChars, CacheStep(u)
  PROVE  Mastered'
<1> DEFINE w == guildCalls[u].w
<1>1. guildCalls[u].at = "cache" /\ Proceeds(u, NoCall) /\ db' = db
  BY DEF CacheStep
<1>2. WriteOK(w) /\ WriteRight(u, "cache", w) /\ CacheOK /\ CallsOK
  BY <1>1 DEF MemberInv, CallsOK, CallOK, Mastered, CallRight
<1>3. \/ w.k \notin MemberKinds /\ UNCHANGED <<index, entries>>
      \/ w.k = "join" /\ Enlist(w)
      \/ w.k = "part" /\ Unlist(w.c)
      \/ w.k = "rank" /\ UpdateObject(w.c, "rank", w.rank) /\ index' = index
      \/ w.k = "note" /\ UpdateObject(w.c, "note", w.text) /\ index' = index
  BY DEF CacheStep, cacheVars, Enlist, MemberKinds
<1>4. \A v \in GuildChars : guildCalls'[v] = IF v = u THEN NoCall ELSE guildCalls[v]
  BY <1>1, <1>2, CallsType, IdleIsCall
<1>5. w.k \in RankKinds => w.g \in Guilds /\ u = Founder[w.g]
  BY <1>2 DEF WriteRight
<1>6. /\ DOMAIN ranks' = Guilds
      /\ \A g \in Guilds : ranks'[g] = IF w.k \in RankKinds /\ w.g = g THEN Cached(w, ranks[g]) ELSE ranks[g]
  BY <1>5, CacheStepRanks DEF Mastered
<1>7. ListsRight(index', entries')
  <2>1. ListsRight(index, entries)
    BY DEF Mastered
  <2>2. CASE w.k \notin MemberKinds
    <3>1. UNCHANGED <<index, entries>>
      BY <1>3, <2>2 DEF MemberKinds
    <3> QED
      BY <2>1, <3>1
  <2>3. CASE w.k \in MemberKinds
    <3> HIDE DEF w
    <3> QED
      BY <1>2, <1>3, <2>1, <2>3, CacheStaysRight
  <2> QED
    BY <2>2, <2>3
<1>8. \A v \in GuildChars : CallRight(v, guildCalls'[v])
  BY <1>4, IdleIsRight DEF Mastered
<1>9. ~Ranked(NoCall)
  BY DEF Ranked, NoCall
<1>10. guildCalls[u].w = w
  OBVIOUS
<1> HIDE DEF w
<1>11. ASSUME NEW g \in Guilds PROVE RanksRight(db.rights[g], ranks'[g], guildCalls'[Founder[g]])
  <2>1. RanksRight(db.rights[g], ranks[g], guildCalls[Founder[g]]) /\ Founder[g] \in GuildChars
    BY OneFounder DEF Mastered
  <2>2. CASE Founder[g] # u
    BY <1>4, <1>5, <1>6, <2>1, <2>2
  <2>3. CASE Founder[g] = u /\ w.k \notin RankKinds
    <3>1. ~Ranked(guildCalls[u])
      BY <1>10, <2>3 DEF Ranked
    <3> QED
      BY <1>4, <1>6, <1>9, <2>1, <2>3, <3>1, RanksUntouched
  <2>4. CASE Founder[g] = u /\ w.k \in RankKinds
    <3>1. w.g = g
      BY <1>5, <2>4, OneFounder
    <3>2. /\ IsRanks(ranks[g]) /\ Fits(w, ranks[g]) /\ db.rights[g] = Changed(w, RowsOf(ranks[g]))
          /\ w.k = "droprank" => Len(ranks[g]) > 2
      BY <1>1, <1>10, <2>1, <2>4 DEF RanksRight
    <3>3. ranks'[g] = Cached(w, ranks[g])
      BY <1>6, <2>4, <3>1
    <3>4. IsRanks(ranks'[g]) /\ db.rights[g] = RowsOf(ranks'[g])
      BY <2>4, <3>2, <3>3, CacheFollowsRows, BuiltIsRead
    <3>5. guildCalls'[Founder[g]] = NoCall
      BY <1>4, <2>1, <2>4
    <3> QED
      BY <1>9, <3>4, <3>5 DEF RanksRight, Ranked
  <2> QED
    BY <2>2, <2>3, <2>4
<1>12. RowsRight(db.member) /\ DOMAIN db.rights = Guilds
  BY DEF Mastered
<1> QED
  BY <1>1, <1>6, <1>7, <1>8, <1>11, <1>12 DEF Mastered

-----------------------------------------------------------------------------
LEMMA MasterInvInit ==
  ASSUME GuildAssumption, NothingIsNoRow, GuildInit
  PROVE  MasterInv
<1>1. /\ db = [member |-> FirstMember, rights |-> FirstRights,
               invite |-> FirstInvite, motd |-> [g \in Guilds |-> Nothing]]
      /\ index = IndexFrom(FirstMember) /\ entries = EntriesFrom(FirstMember)
      /\ ranks = [g \in Guilds |-> RanksFrom(FirstRights[g])]
      /\ guildCalls = [c \in GuildChars |-> NoCall]
  BY DEF GuildInit
<1>2. db.member = FirstMember /\ db.rights = FirstRights
  BY <1>1
<1>3. RowsRight(FirstMember)
  <2>1. \A c \in GuildChars : FirstMember[c] # Nothing => FirstMember[c] \in MemberRows
    BY DEF GuildAssumption, MemberRows, Notes
  <2>2. /\ \A g \in Guilds : FirstMember[Founder[g]] = [g |-> g, rank |-> 0, note |-> Nothing]
        /\ \A c \in GuildChars : FirstMember[c] # Nothing /\ FirstMember[c].rank = 0
                                 => c = Founder[FirstMember[c].g]
    BY DEF GuildAssumption, GuildRankGuildMaster
  <2>3. ASSUME NEW g \in Guilds
        PROVE  FirstMember[Founder[g]] # Nothing /\ FirstMember[Founder[g]].g = g /\ FirstMember[Founder[g]].rank = 0
    <3>1. \A m : m = [g |-> g, rank |-> 0, note |-> Nothing] => m # Nothing /\ m.g = g /\ m.rank = 0
      BY DEF NothingIsNoRow
    <3> QED
      BY <2>2, <3>1
  <2>4. ASSUME NEW c \in GuildChars, FirstMember[c] # Nothing PROVE MayHave(c, FirstMember[c].rank)
    <3>1. FirstMember[c].rank \in 0 .. 255 /\ FirstMember[c].g \in Guilds
      BY <2>1, <2>4 DEF MemberRows
    <3>2. CASE c \in Founders
      BY <2>3, <3>2 DEF Founders, MayHave
    <3>3. CASE c \notin Founders
      <4>1. FirstMember[c].rank # 0
        BY <2>2, <2>4, <3>1, <3>3 DEF Founders
      <4>2. FirstMember[c].rank \in 1 .. 255
        BY <3>1, <4>1
      <4> QED
        BY <3>3, <4>2 DEF MayHave
    <3> QED
      BY <3>2, <3>3
  <2> QED
    BY <2>1, <2>3, <2>4 DEF RowsRight
<1>4. ListsRight(index, entries)
  BY <1>1, <1>3, ListsAreRead
<1>5. \A u \in GuildChars : guildCalls[u] = NoCall /\ CallRight(u, guildCalls[u])
  BY <1>1, IdleIsRight
<1>6. DOMAIN db.rights = Guilds /\ DOMAIN ranks = Guilds
  BY <1>1, <1>2 DEF GuildAssumption
<1>7. ASSUME NEW g \in Guilds PROVE RanksRight(db.rights[g], ranks[g], guildCalls[Founder[g]])
  <2>1. IsRows(FirstRights[g])
    BY DEF GuildAssumption, IsRows
  <2>2. db.rights[g] = FirstRights[g] /\ ranks[g] = RanksFrom(FirstRights[g]) /\ guildCalls[Founder[g]] = NoCall
    BY <1>1, <1>2, <1>5, OneFounder
  <2> QED
    BY <2>1, <2>2, RanksAgain
<1> QED
  BY <1>2, <1>3, <1>4, <1>5, <1>6, <1>7 DEF MasterInv, Mastered

LEMMA StrippedStays ==
  ASSUME [GuildNext]_guildVars
  PROVE  stripped \subseteq stripped'
<1>1. CASE UNCHANGED guildVars
  BY <1>1 DEF guildVars, guildHistory
<1>2. CASE Panic
  BY <1>2 DEF Panic, Warmup
<1>3. ASSUME NEW u \in GuildChars, Begin(u) \/ InviteAccepted(u) PROVE stripped \subseteq stripped'
  BY <1>3 DEF Begin, InviteAccepted, Began
<1>4. Panic => stripped' = stripped
  BY DEF Panic, Warmup
<1>5. \A u, w : Refuse(u) \/ Write(u, w) => stripped' = stripped
  BY DEF Refuse, Write, guildHistory
<1>6. ASSUME NEW u \in GuildChars,
             \/ InviteMember(u) \/ Leave(u) \/ Kick(u) \/ UpdateRank(u)
             \/ SetMessageOfTheDay(u) \/ SetMemberNote(u)
             \/ UpdateGuildRank(u) \/ AddGuildRank(u) \/ DeleteLastGuildRank(u)
      PROVE  stripped \subseteq stripped'
  BY <1>4, <1>5, <1>6 DEF InviteMember, Leave, Kick, UpdateRank, SetMessageOfTheDay, SetMemberNote,
                          UpdateGuildRank, AddGuildRank, DeleteLastGuildRank
<1>7. ASSUME NEW u \in GuildChars, DbStep(u) \/ RemoveGuildInvite(u) \/ DbFails(u)
      PROVE  stripped \subseteq stripped'
  BY <1>7 DEF DbStep, RemoveGuildInvite, DbFails, guildHistory
<1>8. ASSUME NEW u \in GuildChars, CacheStep(u) PROVE stripped \subseteq stripped'
  BY <1>8 DEF CacheStep, guildHistory
<1>9. ASSUME NEW u \in GuildChars, PanicAfterWrite(u) PROVE stripped \subseteq stripped'
  BY <1>4, <1>9 DEF PanicAfterWrite
<1> QED
  BY <1>1, <1>2, <1>3, <1>6, <1>7, <1>8, <1>9 DEF GuildNext

LEMMA MasterInvKept ==
  ASSUME GuildAssumption, NothingIsNoRow, MemberInv, MasterInv, [GuildNext]_guildVars
  PROVE  MasterInv'
<1> SUFFICES ASSUME stripped' = {} PROVE Mastered'
  BY DEF MasterInv
<1>0. Mastered
  BY StrippedStays DEF MasterInv
<1>1. CASE Panic
  BY <1>0, <1>1, PanicMasters
<1>2. ASSUME NEW u \in GuildChars, Begin(u) \/ InviteAccepted(u) PROVE Mastered'
  BY <1>0, <1>2, BeginsMaster
<1>3. ASSUME NEW u \in GuildChars, InviteMember(u) \/ SetMessageOfTheDay(u) \/ SetMemberNote(u) PROVE Mastered'
  BY <1>0, <1>3, OtherDecisionsMaster
<1>4. ASSUME NEW u \in GuildChars, Leave(u) \/ Kick(u) PROVE Mastered'
  BY <1>0, <1>4, PartingsMaster
<1>5. ASSUME NEW u \in GuildChars, UpdateRank(u) PROVE Mastered'
  BY <1>0, <1>5, UpdateRankMasters
<1>6. ASSUME NEW u \in GuildChars, UpdateGuildRank(u) \/ AddGuildRank(u) \/ DeleteLastGuildRank(u) PROVE Mastered'
  BY <1>0, <1>6, RankCallsMaster
<1>7. ASSUME NEW u \in GuildChars, DbStep(u) PROVE Mastered'
  BY <1>0, <1>7, DbStepMasters
<1>8. ASSUME NEW u \in GuildChars, RemoveGuildInvite(u) \/ DbFails(u) PROVE Mastered'
  BY <1>0, <1>8, RemoveGuildInviteMasters, DbFailsMasters
<1>9. ASSUME NEW u \in GuildChars, CacheStep(u) \/ PanicAfterWrite(u) PROVE Mastered'
  BY <1>0, <1>9, CacheStepMasters, PanicMasters DEF PanicAfterWrite
<1>10. CASE UNCHANGED guildVars
  <2>1. UNCHANGED <<db, index, entries, ranks, guildCalls>>
    BY <1>10 DEF guildVars, cacheVars
  <2> QED
    BY <1>0, <2>1 DEF Mastered
<1> QED
  BY <1>1, <1>2, <1>3, <1>4, <1>5, <1>6, <1>7, <1>8, <1>9, <1>10 DEF GuildNext

LEMMA ExactFromInv ==
  ASSUME GuildAssumption, MasterInv, stripped = {}
  PROVE  RanksAreExact
<1>1. Mastered
  BY DEF MasterInv
<1> SUFFICES ASSUME NEW g \in Guilds, ~RankCall(g)
             PROVE  /\ ranks[g] = RanksFrom(db.rights[g])
                    /\ DOMAIN db.rights[g] = 0 .. Len(ranks[g]) - 1
                    /\ Len(ranks[g]) <= GuildRankMax
  BY DEF RanksAreExact
<1> DEFINE call == guildCalls[Founder[g]]
<1>2. RanksRight(db.rights[g], ranks[g], call) /\ Founder[g] \in GuildChars /\ CallRight(Founder[g], call)
  BY <1>1, OneFounder DEF Mastered
<1>3. ~Ranked(call)
  <2> SUFFICES ASSUME Ranked(call) PROVE FALSE
    OBVIOUS
  <2>1. call.at \in {"db", "cache"} /\ call.w.k \in RankKinds
    BY DEF Ranked
  <2>2. call.w.g = g
    BY <1>2, <2>1, OneFounder DEF CallRight, WriteRight
  <2> QED
    BY <1>2, <2>1, <2>2 DEF RankCall, RankKinds
<1> HIDE DEF call
<1>4. IsRanks(ranks[g]) /\ db.rights[g] = RowsOf(ranks[g])
  BY <1>2, <1>3 DEF RanksRight, Ranked
<1>5. RanksFrom(db.rights[g]) = ranks[g] /\ DOMAIN db.rights[g] = 0 .. Len(ranks[g]) - 1
  BY <1>4, RanksAreRead
<1>6. Len(ranks[g]) <= GuildRankMax
  BY <1>4, IsRanksMeans, RankBound
<1> QED
  BY <1>5, <1>6

LEMMA MasterFromInv ==
  ASSUME GuildAssumption, MasterInv, stripped = {}
  PROVE  GuildKeepsMaster
<1>1. RowsRight(db.member)
  BY DEF MasterInv, Mastered
<1>2. ASSUME NEW g \in Guilds
      PROVE  /\ db.member[Founder[g]] # Nothing /\ db.member[Founder[g]].g = g
             /\ db.member[Founder[g]].rank \in {0, 255}
  BY <1>1, OneFounder DEF RowsRight, MayHave, Founders
<1>3. ASSUME NEW g \in Guilds, NEW c \in GuildChars, db.member[c] # Nothing, db.member[c].g = g, db.member[c].rank = 0
      PROVE  c = Founder[g]
  <2>1. c \in Founders
    <3>1. MayHave(c, 0)
      BY <1>1, <1>3 DEF RowsRight
    <3>2. 0 \notin 1 .. 255
      OBVIOUS
    <3> QED
      BY <3>1, <3>2 DEF MayHave
  <2>2. PICK h \in Guilds : c = Founder[h]
    BY <2>1 DEF Founders
  <2> QED
    BY <1>2, <1>3, <2>2
<1>4. U8(GuildRankGuildMaster - 1) = 255 /\ GuildRankGuildMaster = 0
  <2>1. \A k \in -1 .. 255 : k = -1 => U8(k) = 255
    BY BytesWrap
  <2>2. 0 - 1 \in -1 .. 255 /\ 0 - 1 = -1
    OBVIOUS
  <2>3. U8(0 - 1) = 255
    BY <2>1, <2>2
  <2> QED
    BY <2>3 DEF GuildRankGuildMaster
<1> QED
  BY <1>2, <1>3, <1>4 DEF GuildKeepsMaster

\* The cached ranks are the rows of guild_rank, in order, without a gap and never
\* more than GuildRankMax, whenever no call about them is in flight: AddGuildRank,
\* DeleteLastGuildRank and UpdateGuildRank read the cache, write the table and
\* then the cache without a lock, and whatever other calls, failing statements
\* and panics come between, the slice is cut at the right id.  It holds until a
\* guild is stripped to one rank, which gives the master's rights to others.
THEOREM RanksAreKept ==
  ASSUME NothingIsNoRow
  PROVE  GuildSpec => [](stripped = {} => RanksAreExact)
<1> USE GuildConstants
<1>1. GuildInit => MemberInv /\ MasterInv
  BY MemberInvInit, MasterInvInit
<1>2. MemberInv /\ MasterInv /\ [GuildNext]_guildVars => (MemberInv /\ MasterInv)'
  BY MemberInvKept, MasterInvKept
<1>3. MemberInv /\ MasterInv => (stripped = {} => RanksAreExact)
  BY ExactFromInv
<1> QED
  BY <1>1, <1>2, <1>3, PTL DEF GuildSpec

\* A guild keeps its master: no promotions, demotions, kicks and leaves, decided
\* on ranks that are stale when they are written, remove the founder or give his
\* rank to anyone else (Leave, Kick and updateRank), and what happens to his own
\* rank is the wrapping promotion alone - until a guild is stripped to one rank.
THEOREM MastersAreKept ==
  ASSUME NothingIsNoRow
  PROVE  GuildSpec => [](stripped = {} => GuildKeepsMaster)
<1> USE GuildConstants
<1>1. GuildInit => MemberInv /\ MasterInv
  BY MemberInvInit, MasterInvInit
<1>2. MemberInv /\ MasterInv /\ [GuildNext]_guildVars => (MemberInv /\ MasterInv)'
  BY MemberInvKept, MasterInvKept
<1>3. MemberInv /\ MasterInv => (stripped = {} => GuildKeepsMaster)
  BY MasterFromInv
<1> QED
  BY <1>1, <1>2, <1>3, PTL DEF GuildSpec

(***************************************************************************)
(* The mail server                                                         *)
(***************************************************************************)

\* The handlers, by what their session remembers.
SendCalls   == [at : {"s_items", "s_money", "s_send"}, to : Chars, money : Nat, cod : Nat, items : SUBSET Items]
MoneyCalls  == [at : {"m_upd", "m_pay"}, row : Rows]
TakeCalls   == [at : {"i_pay", "i_add", "i_read"}, id : MailIds, item : Items, cod : Nat]
RemoveCalls == [at : {"i_del", "i_cod", "i_upd"}, row : Rows, item : Items, cod : Nat]
AskCalls    == [at : {"d_read"}, id : MailIds]
DeleteCalls == [at : {"d_items", "d_mail"}, row : Rows]
CallStates  == {Idle} \cup SendCalls \cup MoneyCalls \cup TakeCalls \cup RemoveCalls
                 \cup AskCalls \cup DeleteCalls

TypeOK ==
  /\ bags \in [Chars -> [Items -> Int]]
  /\ mails \in [MailIds -> Rows \cup {None}]
  /\ \A m \in MailIds : mails[m] # None => mails[m].id = m
  /\ calls \in [Chars -> CallStates]
  /\ ticker \in [at : {"rest", "empty", "return", "mails"}, mails : SUBSET Rows]
  /\ nextId \in Nat \ {0}
  /\ lives \in [MailIds -> Nat]

-----------------------------------------------------------------------------
(* Handlers and rows.                                                      *)

LEMMA CallParts ==
  ASSUME NEW k \in CallStates
  PROVE  /\ k.at \in {"s_items", "s_money", "s_send"} => k \in SendCalls
         /\ k.at \in {"m_upd", "m_pay"} => k \in MoneyCalls
         /\ k.at \in {"i_pay", "i_add", "i_read"} => k \in TakeCalls
         /\ k.at \in {"i_del", "i_cod", "i_upd"} => k \in RemoveCalls
         /\ k.at = "d_read" => k \in AskCalls
         /\ k.at \in {"d_items", "d_mail"} => k \in DeleteCalls
         /\ k.at \in {"idle", "s_items", "s_money", "s_send", "m_upd", "m_pay", "i_pay", "i_add", "i_read",
                      "i_del", "i_cod", "i_upd", "d_read", "d_items", "d_mail"}
         /\ k.at = "idle" => k = Idle
BY DEF CallStates, SendCalls, MoneyCalls, TakeCalls, RemoveCalls, AskCalls, DeleteCalls, Idle

LEMMA CallKinds ==
  /\ SendCalls \subseteq CallStates /\ MoneyCalls \subseteq CallStates /\ TakeCalls \subseteq CallStates
  /\ RemoveCalls \subseteq CallStates /\ AskCalls \subseteq CallStates /\ DeleteCalls \subseteq CallStates
  /\ Idle \in CallStates /\ Idle.at = "idle"
BY DEF CallStates, Idle

\* The row AddMail inserts.
LEMMA NewRow ==
  ASSUME NEW m \in MailIds, NEW from \in Chars, NEW to \in Chars, NEW money \in Nat, NEW cod \in Nat,
         NEW items \in SUBSET Items
  PROVE  LET r == [id |-> m, from |-> from, to |-> to, money |-> money, cod |-> cod,
                   items |-> items, has |-> items # {}, returned |-> FALSE, expired |-> FALSE]
         IN  /\ r \in Rows /\ r.id = m /\ r.to = to /\ r.money = money /\ r.cod = cod
             /\ r.items = items /\ (r.has <=> items # {})
             /\ ~r.returned /\ ~r.expired
BY DEF Rows

\* What UpdateMail makes of the row it meets.
LEMMA Rewritten ==
  ASSUME NEW row \in Rows, NEW old \in Rows
  PROVE  LET r == [row EXCEPT !.items = old.items, !.has = old.has]
         IN  /\ r \in Rows /\ r.id = row.id /\ r.to = row.to /\ r.money = row.money /\ r.cod = row.cod
             /\ r.items = old.items /\ (r.has <=> old.has)
             /\ (r.returned <=> row.returned) /\ (r.expired <=> row.expired)
BY DEF Rows

\* The smaller updates of a row, and the row a returned mail gets.
LEMMA WithMoney ==
  ASSUME NEW row \in Rows, NEW n \in Nat
  PROVE  LET r == [row EXCEPT !.money = n]
         IN  /\ r \in Rows /\ r.id = row.id /\ r.to = row.to /\ r.money = n /\ r.cod = row.cod /\ r.items = row.items
             /\ (r.has <=> row.has) /\ (r.returned <=> row.returned) /\ (r.expired <=> row.expired)
BY DEF Rows

LEMMA WithCod ==
  ASSUME NEW row \in Rows, NEW n \in Nat
  PROVE  LET r == [row EXCEPT !.cod = n]
         IN  /\ r \in Rows /\ r.id = row.id /\ r.to = row.to /\ r.money = row.money /\ r.cod = n /\ r.items = row.items
             /\ (r.has <=> row.has) /\ (r.returned <=> row.returned) /\ (r.expired <=> row.expired)
BY DEF Rows

LEMMA WithItems ==
  ASSUME NEW row \in Rows, NEW items \in SUBSET Items
  PROVE  LET r == [row EXCEPT !.items = items]
         IN  /\ r \in Rows /\ r.id = row.id /\ r.to = row.to /\ r.money = row.money /\ r.cod = row.cod /\ r.items = items
             /\ (r.has <=> row.has) /\ (r.returned <=> row.returned) /\ (r.expired <=> row.expired)
BY DEF Rows

LEMMA WithExpired ==
  ASSUME NEW row \in Rows
  PROVE  LET r == [row EXCEPT !.expired = TRUE]
         IN  /\ r \in Rows /\ r.id = row.id /\ r.to = row.to /\ r.money = row.money /\ r.cod = row.cod /\ r.items = row.items
             /\ (r.has <=> row.has) /\ (r.returned <=> row.returned) /\ r.expired
BY DEF Rows

LEMMA WithReturned ==
  ASSUME NEW row \in Rows
  PROVE  LET r == ReturnedRow(row)
         IN  /\ r \in Rows /\ r.id = row.id /\ r.money = row.money /\ r.cod = row.cod /\ r.items = row.items
             /\ (r.has <=> row.has) /\ r.returned /\ ~r.expired
BY DEF Rows, ReturnedRow

\* The mails and what becomes of one of them.
MailsOK(ms) == ms \in [MailIds -> Rows \cup {None}] /\ \A m \in MailIds : ms[m] # None => ms[m].id = m

LEMMA UpdateMailEffect ==
  ASSUME TypeOK, NEW row \in Rows, mails' = UpdateMail(row)
  PROVE  /\ MailsOK(mails')
         /\ \A m \in MailIds :
              /\ m # row.id \/ mails[m] = None => mails'[m] = mails[m]
              /\ m = row.id /\ mails[m] # None =>
                   /\ mails'[m] # None /\ mails'[m] \in Rows
                   /\ mails'[m].to = row.to /\ mails'[m].money = row.money /\ mails'[m].cod = row.cod
                   /\ mails'[m].items = mails[m].items /\ (mails'[m].has <=> mails[m].has)
                   /\ (mails'[m].returned <=> row.returned) /\ (mails'[m].expired <=> row.expired)
<1>1. row.id \in MailIds
  BY DEF Rows
<1>2. CASE mails[row.id] = None
  BY <1>1, <1>2 DEF TypeOK, UpdateMail, MailsOK
<1>3. CASE mails[row.id] # None
  <2> DEFINE old == mails[row.id]
             new == [row EXCEPT !.items = old.items, !.has = old.has]
  <2>1. old \in Rows
    BY <1>1, <1>3 DEF TypeOK
  <2>2. mails' = [mails EXCEPT ![row.id] = new]
    BY <1>3 DEF UpdateMail
  <2>3. /\ new \in Rows /\ new.id = row.id /\ new.to = row.to /\ new.money = row.money /\ new.cod = row.cod
        /\ new.items = old.items /\ (new.has <=> old.has)
        /\ (new.returned <=> row.returned) /\ (new.expired <=> row.expired)
    BY <2>1, Rewritten
  <2> HIDE DEF new
  <2> QED
    BY <1>1, <1>3, <2>2, <2>3, MailAssumption DEF TypeOK, MailsOK
<1> QED
  BY <1>2, <1>3

LEMMA AddMailEffect ==
  ASSUME TypeOK, NEW from \in Chars, NEW to \in Chars, NEW money \in Nat, NEW cod \in Nat,
         NEW items \in SUBSET Items, AddMail(from, to, money, cod, items)
  PROVE  /\ MailsOK(mails') /\ nextId \in MailIds /\ nextId' = nextId + 1
         /\ \A m \in MailIds : m # nextId => mails'[m] = mails[m]
         /\ LET r == mails'[nextId]
            IN  /\ r \in Rows /\ r.money = money /\ r.cod = cod /\ r.items = items /\ (r.has <=> items # {})
                /\ ~r.returned /\ ~r.expired
<1> DEFINE r == [id |-> nextId, from |-> from, to |-> to, money |-> money, cod |-> cod,
                 items |-> items, has |-> items # {}, returned |-> FALSE, expired |-> FALSE]
<1>1. nextId \in MailIds /\ nextId' = nextId + 1 /\ mails' = [mails EXCEPT ![nextId] = r]
  BY DEF AddMail
<1>2. /\ r \in Rows /\ r.id = nextId /\ r.money = money /\ r.cod = cod /\ r.items = items /\ (r.has <=> items # {})
      /\ ~r.returned /\ ~r.expired
  BY <1>1, NewRow
<1> HIDE DEF r
<1> QED
  BY <1>1, <1>2 DEF TypeOK, MailsOK

\* A statement that deletes rows of mail_items and rows of mail.
PrunedTo(m, new) ==
  \/ new = mails[m] \/ new = None
  \/ \E x \in SUBSET Items : mails[m] # None /\ x \subseteq mails[m].items /\ new = [mails[m] EXCEPT !.items = x]

LEMMA PrunedEffect ==
  ASSUME TypeOK, mails' = [m \in MailIds |-> mails'[m]],
         \A m \in MailIds : PrunedTo(m, mails'[m])
  PROVE  /\ MailsOK(mails')
         /\ \A m \in MailIds : mails'[m] # None =>
              /\ mails[m] # None /\ mails'[m] \in Rows
              /\ mails'[m].to = mails[m].to /\ mails'[m].money = mails[m].money /\ mails'[m].cod = mails[m].cod
              /\ mails'[m].items \subseteq mails[m].items /\ (mails'[m].has <=> mails[m].has)
              /\ (mails'[m].returned <=> mails[m].returned) /\ (mails'[m].expired <=> mails[m].expired)
<1>1. ASSUME NEW m \in MailIds, mails'[m] # None
      PROVE  /\ mails[m] # None /\ mails'[m] \in Rows /\ mails'[m].id = m
             /\ mails'[m].to = mails[m].to /\ mails'[m].money = mails[m].money /\ mails'[m].cod = mails[m].cod
             /\ mails'[m].items \subseteq mails[m].items /\ (mails'[m].has <=> mails[m].has)
             /\ (mails'[m].returned <=> mails[m].returned) /\ (mails'[m].expired <=> mails[m].expired)
  <2>1. CASE mails'[m] = mails[m]
    BY <1>1, <2>1 DEF TypeOK
  <2>2. CASE mails'[m] # mails[m]
    <3>1. PICK x \in SUBSET Items :
            mails[m] # None /\ x \subseteq mails[m].items /\ mails'[m] = [mails[m] EXCEPT !.items = x]
      BY <1>1, <2>2 DEF PrunedTo
    <3>2. mails[m] \in Rows /\ mails[m].id = m
      BY <3>1 DEF TypeOK
    <3> QED
      BY <1>1, <3>1, <3>2, WithItems
  <2> QED
    BY <2>1, <2>2
<1>2. \A m \in MailIds : mails'[m] \in Rows \cup {None}
  BY <1>1
<1> QED
  BY <1>1, <1>2 DEF MailsOK

-----------------------------------------------------------------------------
(* Types.                                                                  *)

LEMMA TypeInit == Init => TypeOK
BY MailAssumption, CallKinds DEF Init, TypeOK, Rest

\* Steps of a handler that touch no mail.
LEMMA TypeQuiet ==
  ASSUME TypeOK, NEW c \in Chars,
         \/ SendChecked(c) \/ SendTakesItems(c) \/ SendTakesMoney(c)
         \/ TakeMoneyReads(c) \/ TakeMoneyPays(c)
         \/ TakeItemReads(c) \/ TakeItemPays(c) \/ TakeItemAdds(c)
         \/ RemoveMailItemReads(c) \/ DeleteReads(c) \/ DeleteReadsAgain(c) \/ CallFails(c)
  PROVE  TypeOK' /\ UNCHANGED <<mails, ticker, nextId, lives>>
<1> USE DEF TypeOK, world, bounds, history, GoOn, At, Starts, Quietly
<1>g. ASSUME NEW k \in CallStates, calls' = [calls EXCEPT ![c] = k]
      PROVE  calls' \in [Chars -> CallStates]
  BY <1>g
<1>1. CASE SendChecked(c)
  <2>1. PICK to \in Chars, money \in Prices \cup {0}, cod \in Prices \cup {0}, items \in SUBSET Items :
          Starts(c, [at |-> "s_items", to |-> to, money |-> money, cod |-> cod, items |-> items], None)
    BY <1>1 DEF SendChecked
  <2>2. [at |-> "s_items", to |-> to, money |-> money, cod |-> cod, items |-> items] \in CallStates
    BY CallKinds, MailAssumption DEF SendCalls
  <2> QED
    BY <1>g, <2>1, <2>2
<1>2. CASE SendTakesItems(c)
  <2>1. calls[c] \in SendCalls
    BY <1>2, CallParts DEF SendTakesItems
  <2>2. [calls[c] EXCEPT !.at = "s_money"] \in CallStates
    BY <2>1, CallKinds DEF SendCalls
  <2> QED
    BY <1>2, <1>g, <2>2 DEF SendTakesItems
<1>3. CASE SendTakesMoney(c)
  <2>1. calls[c] \in SendCalls
    BY <1>3, CallParts DEF SendTakesMoney
  <2>2. [calls[c] EXCEPT !.at = "s_send"] \in CallStates
    BY <2>1, CallKinds DEF SendCalls
  <2> QED
    BY <1>3, <1>g, <2>2 DEF SendTakesMoney
<1>4. CASE TakeMoneyReads(c)
  <2>1. PICK m \in MailIds : mails[m] # None /\ Starts(c, [at |-> "m_upd", row |-> mails[m]], m)
    BY <1>4 DEF TakeMoneyReads
  <2>2. [at |-> "m_upd", row |-> mails[m]] \in CallStates
    BY <2>1, CallKinds DEF MoneyCalls
  <2> QED
    BY <1>g, <2>1, <2>2
<1>5. CASE TakeMoneyPays(c)
  BY <1>5, <1>g, CallKinds DEF TakeMoneyPays
<1>6. CASE TakeItemReads(c)
  <2>1. PICK m \in MailIds, i \in Items :
          /\ mails[m] # None
          /\ Starts(c, [at |-> "i_pay", id |-> m, item |-> i, cod |-> mails[m].cod], m)
    BY <1>6 DEF TakeItemReads
  <2>2. mails[m].cod \in Nat
    BY <2>1 DEF Rows
  <2>3. [at |-> "i_pay", id |-> m, item |-> i, cod |-> mails[m].cod] \in CallStates
    BY <2>2, CallKinds DEF TakeCalls
  <2> QED
    BY <1>g, <2>1, <2>3
<1>7. CASE TakeItemPays(c)
  <2>1. calls[c] \in TakeCalls
    BY <1>7, CallParts DEF TakeItemPays
  <2>2. [calls[c] EXCEPT !.at = "i_add"] \in CallStates
    BY <2>1, CallKinds DEF TakeCalls
  <2> QED
    BY <1>7, <1>g, <2>2, CallKinds DEF TakeItemPays
<1>8. CASE TakeItemAdds(c)
  <2>1. calls[c] \in TakeCalls
    BY <1>8, CallParts DEF TakeItemAdds
  <2>2. [calls[c] EXCEPT !.at = "i_read"] \in CallStates
    BY <2>1, CallKinds DEF TakeCalls
  <2>3. bags' \in [Chars -> [Items -> Int]]
    BY <1>8, <2>1 DEF TakeItemAdds, TakeCalls
  <2> QED
    BY <1>8, <1>g, <2>2, <2>3, CallKinds DEF TakeItemAdds
<1>9. CASE RemoveMailItemReads(c)
  <2>1. calls[c] \in TakeCalls
    BY <1>9, CallParts DEF RemoveMailItemReads
  <2>2. mails[calls[c].id] # None =>
          [at |-> "i_del", row |-> mails[calls[c].id], item |-> calls[c].item, cod |-> calls[c].cod] \in CallStates
    BY <2>1, CallKinds DEF TakeCalls, RemoveCalls
  <2> QED
    BY <1>9, <1>g, <2>2, CallKinds DEF RemoveMailItemReads
<1>10. CASE DeleteReads(c)
  <2>1. PICK m \in MailIds : Starts(c, [at |-> "d_read", id |-> m], m)
    BY <1>10 DEF DeleteReads
  <2>2. [at |-> "d_read", id |-> m] \in CallStates
    BY CallKinds DEF AskCalls
  <2> QED
    BY <1>g, <2>1, <2>2
<1>11. CASE DeleteReadsAgain(c)
  <2>1. calls[c] \in AskCalls
    BY <1>11, CallParts DEF DeleteReadsAgain
  <2>2. mails[calls[c].id] # None => [at |-> "d_items", row |-> mails[calls[c].id]] \in CallStates
    BY <2>1, CallKinds DEF AskCalls, DeleteCalls
  <2> QED
    BY <1>11, <1>g, <2>2, CallKinds DEF DeleteReadsAgain
<1>12. CASE CallFails(c)
  BY <1>12, <1>g, CallKinds DEF CallFails
<1> QED
  BY <1>1, <1>2, <1>3, <1>4, <1>5, <1>6, <1>7, <1>8, <1>9, <1>10, <1>11, <1>12

\* What the writing steps of a handler do, in terms of UpdateMail, AddMail and
\* smaller sets of attachments.
LEMMA HandlerWrites ==
  ASSUME TypeOK, NEW c \in Chars
  PROVE  /\ SendStores(c) =>
              /\ calls[c] \in SendCalls
              /\ AddMail(c, calls[c].to, calls[c].money, calls[c].cod, calls[c].items)
              /\ calls' = [calls EXCEPT ![c] = Idle]
         /\ TakeMoneyEmpties(c) =>
              /\ calls[c] \in MoneyCalls /\ calls[c].row \in Rows
              /\ [calls[c].row EXCEPT !.money = 0] \in Rows
              /\ mails' = UpdateMail([calls[c].row EXCEPT !.money = 0])
         /\ RemoveMailItemDeletes(c) =>
              /\ calls[c] \in RemoveCalls /\ calls[c].row \in Rows /\ calls[c].row.id \in MailIds
              /\ mails' = [m \in MailIds |-> mails'[m]] /\ \A m \in MailIds : PrunedTo(m, mails'[m])
         /\ RemoveMailItemSendsCod(c) =>
              /\ calls[c] \in RemoveCalls /\ calls[c].row \in Rows
              /\ \/ AddMail(calls[c].row.to, calls[c].row.from, calls[c].row.cod, 0, {})
                 \/ UNCHANGED <<mails, nextId>>
              /\ calls' = [calls EXCEPT ![c] = [calls[c] EXCEPT !.at = "i_upd"]]
         /\ RemoveMailItemUpdates(c) =>
              /\ calls[c] \in RemoveCalls /\ calls[c].row \in Rows
              /\ \/ mails' = UpdateMail([calls[c].row EXCEPT !.cod = 0])
                 \/ mails' = UpdateMail(calls[c].row)
                 \/ mails' = mails
              /\ calls' = [calls EXCEPT ![c] = Idle]
         /\ DeleteItems(c) =>
              /\ calls[c] \in DeleteCalls /\ calls[c].row \in Rows
              /\ mails' = [m \in MailIds |-> mails'[m]] /\ \A m \in MailIds : PrunedTo(m, mails'[m])
         /\ DeleteTheMail(c) =>
              /\ calls[c] \in DeleteCalls /\ calls[c].row \in Rows /\ calls[c].row.id \in MailIds
              /\ calls' = [calls EXCEPT ![c] = Idle]
              /\ mails' = [m \in MailIds |-> mails'[m]] /\ \A m \in MailIds : PrunedTo(m, mails'[m])
<1>0. calls[c] \in CallStates
  BY DEF TypeOK
<1> USE DEF GoOn, At
<1>1. ASSUME SendStores(c)
      PROVE  /\ calls[c] \in SendCalls
             /\ AddMail(c, calls[c].to, calls[c].money, calls[c].cod, calls[c].items)
             /\ calls' = [calls EXCEPT ![c] = Idle]
  BY <1>0, <1>1, CallParts DEF SendStores
<1>2. ASSUME TakeMoneyEmpties(c)
      PROVE  /\ calls[c] \in MoneyCalls /\ calls[c].row \in Rows
             /\ [calls[c].row EXCEPT !.money = 0] \in Rows
             /\ mails' = UpdateMail([calls[c].row EXCEPT !.money = 0])
  <2>1. calls[c] \in MoneyCalls
    BY <1>0, <1>2, CallParts DEF TakeMoneyEmpties
  <2>2. calls[c].row \in Rows
    BY <2>1 DEF MoneyCalls
  <2>3. [calls[c].row EXCEPT !.money = 0] \in Rows
    BY <2>2, WithMoney
  <2> QED
    BY <1>2, <2>1, <2>2, <2>3 DEF TakeMoneyEmpties
<1>3. ASSUME RemoveMailItemDeletes(c) \/ RemoveMailItemSendsCod(c) \/ RemoveMailItemUpdates(c)
      PROVE  calls[c] \in RemoveCalls /\ calls[c].row \in Rows /\ calls[c].row.id \in MailIds
  <2>1. calls[c] \in RemoveCalls
    BY <1>0, <1>3, CallParts DEF RemoveMailItemDeletes, RemoveMailItemSendsCod, RemoveMailItemUpdates
  <2> QED
    BY <2>1 DEF RemoveCalls, Rows
<1>4. ASSUME RemoveMailItemSendsCod(c)
      PROVE  /\ \/ AddMail(calls[c].row.to, calls[c].row.from, calls[c].row.cod, 0, {})
                \/ UNCHANGED <<mails, nextId>>
             /\ calls' = [calls EXCEPT ![c] = [calls[c] EXCEPT !.at = "i_upd"]]
  BY <1>4 DEF RemoveMailItemSendsCod
<1>5. ASSUME RemoveMailItemUpdates(c)
      PROVE  /\ \/ mails' = UpdateMail([calls[c].row EXCEPT !.cod = 0])
                \/ mails' = UpdateMail(calls[c].row)
                \/ mails' = mails
             /\ calls' = [calls EXCEPT ![c] = Idle]
  <2>1. [calls[c].row EXCEPT !.cod = calls[c].row.cod] = calls[c].row
    BY <1>3, <1>5 DEF Rows
  <2> QED
    BY <1>5, <2>1 DEF RemoveMailItemUpdates
<1>6. ASSUME DeleteItems(c) \/ DeleteTheMail(c)
      PROVE  calls[c] \in DeleteCalls /\ calls[c].row \in Rows /\ calls[c].row.id \in MailIds
  <2>1. calls[c] \in DeleteCalls
    BY <1>0, <1>6, CallParts DEF DeleteItems, DeleteTheMail
  <2> QED
    BY <2>1 DEF DeleteCalls, Rows
<1>7. ASSUME DeleteTheMail(c)
      PROVE  /\ calls' = [calls EXCEPT ![c] = Idle]
             /\ mails' = [m \in MailIds |-> mails'[m]] /\ \A m \in MailIds : PrunedTo(m, mails'[m])
  BY <1>7, <1>6 DEF DeleteTheMail, TypeOK, PrunedTo
<1>8. ASSUME DeleteItems(c)
      PROVE  mails' = [m \in MailIds |-> mails'[m]] /\ \A m \in MailIds : PrunedTo(m, mails'[m])
  <2>1. mails' = [m \in MailIds |-> mails'[m]]
    BY <1>8 DEF DeleteItems
  <2>2. ASSUME NEW m \in MailIds PROVE PrunedTo(m, mails'[m])
    <3>1. CASE mails[m] = None
      BY <1>8, <3>1 DEF DeleteItems, PrunedTo
    <3>2. CASE mails[m] # None
      <4> DEFINE x == mails[m].items \ calls[c].row.items
      <4>1. mails'[m] = [mails[m] EXCEPT !.items = x]
        BY <1>8, <3>2 DEF DeleteItems
      <4>2. mails[m].items \in SUBSET Items
        BY <3>2 DEF TypeOK, Rows
      <4>3. x \in SUBSET Items /\ x \subseteq mails[m].items
        BY <4>2
      <4> HIDE DEF x
      <4> QED
        BY <3>2, <4>1, <4>3 DEF PrunedTo
    <3> QED
      BY <3>1, <3>2
  <2> QED
    BY <2>1, <2>2
<1>9. ASSUME RemoveMailItemDeletes(c)
      PROVE  mails' = [m \in MailIds |-> mails'[m]] /\ \A m \in MailIds : PrunedTo(m, mails'[m])
  <2>1. CASE mails' = mails
    BY <2>1 DEF TypeOK, PrunedTo
  <2>2. CASE mails' # mails
    <3> DEFINE n == calls[c].row.id
               x == mails[n].items \ {calls[c].item}
    <3>1. mails[n] # None /\ mails' = [mails EXCEPT ![n].items = @ \ {calls[c].item}]
      BY <1>9, <2>2 DEF RemoveMailItemDeletes
    <3>2. n \in MailIds
      BY <1>3, <1>9
    <3>3. mails[n].items \in SUBSET Items
      BY <3>1, <3>2 DEF TypeOK, Rows
    <3>4. /\ mails' = [m \in MailIds |-> mails'[m]]
          /\ mails'[n] = [mails[n] EXCEPT !.items = x]
          /\ \A m \in MailIds \ {n} : mails'[m] = mails[m]
      BY <3>1, <3>2 DEF TypeOK
    <3>5. x \in SUBSET Items /\ x \subseteq mails[n].items
      BY <3>3
    <3> HIDE DEF x, n
    <3> QED
      BY <3>1, <3>2, <3>4, <3>5 DEF PrunedTo
  <2> QED
    BY <2>1, <2>2
<1> QED
  BY <1>1, <1>2, <1>3, <1>4, <1>5, <1>6, <1>7, <1>8, <1>9

LEMMA TypeWrites ==
  ASSUME TypeOK, NEW c \in Chars,
         \/ SendStores(c) \/ TakeMoneyEmpties(c) \/ RemoveMailItemDeletes(c)
         \/ RemoveMailItemSendsCod(c) \/ RemoveMailItemUpdates(c) \/ DeleteItems(c) \/ DeleteTheMail(c)
  PROVE  TypeOK' /\ UNCHANGED <<bags, ticker, lives>>
<1> SUFFICES /\ MailsOK(mails') /\ calls' \in [Chars -> CallStates] /\ nextId' \in Nat \ {0}
             /\ UNCHANGED <<bags, ticker, lives>>
  BY DEF TypeOK, MailsOK
<1>g. ASSUME NEW k \in CallStates, calls' = [calls EXCEPT ![c] = k]
      PROVE  calls' \in [Chars -> CallStates]
  BY <1>g DEF TypeOK
<1>m. MailsOK(mails) /\ nextId \in Nat \ {0}
  BY DEF TypeOK, MailsOK
<1> USE DEF world, bounds, history
<1>1. CASE SendStores(c)
  <2>1. /\ calls[c] \in SendCalls /\ calls' = [calls EXCEPT ![c] = Idle]
        /\ AddMail(c, calls[c].to, calls[c].money, calls[c].cod, calls[c].items)
    BY <1>1, HandlerWrites
  <2>2. /\ calls[c].to \in Chars /\ calls[c].money \in Nat /\ calls[c].cod \in Nat
        /\ calls[c].items \in SUBSET Items
    BY <2>1 DEF SendCalls
  <2>3. MailsOK(mails') /\ nextId' = nextId + 1
    BY <2>1, <2>2, AddMailEffect
  <2>4. calls' \in [Chars -> CallStates]
    BY <1>g, <2>1, CallKinds
  <2> QED
    BY <1>1, <1>m, <2>3, <2>4 DEF SendStores
<1>2. CASE TakeMoneyEmpties(c)
  <2>1. MailsOK(mails')
    BY <1>2, HandlerWrites, UpdateMailEffect
  <2>2. [at |-> "m_pay", row |-> calls[c].row] \in CallStates
    BY <1>2, HandlerWrites, CallKinds DEF MoneyCalls
  <2> QED
    BY <1>2, <1>m, <1>g, <2>1, <2>2, CallKinds DEF TakeMoneyEmpties, GoOn
<1>3. CASE RemoveMailItemDeletes(c)
  <2>0. calls[c] \in RemoveCalls /\ calls[c].row.id \in MailIds
    BY <1>3, HandlerWrites
  <2>1. [calls[c] EXCEPT !.at = "i_cod"] \in CallStates
    BY <2>0, CallKinds DEF RemoveCalls
  <2>2. MailsOK(mails')
    BY <1>3, HandlerWrites, PrunedEffect
  <2> QED
    BY <1>3, <1>m, <1>g, <2>1, <2>2, CallKinds DEF RemoveMailItemDeletes, GoOn
<1>4. CASE RemoveMailItemSendsCod(c)
  <2>0. calls[c] \in RemoveCalls /\ calls[c].row \in Rows
    BY <1>4, HandlerWrites
  <2>1. [calls[c] EXCEPT !.at = "i_upd"] \in CallStates
    BY <2>0, CallKinds DEF RemoveCalls
  <2>2. MailsOK(mails') /\ nextId' \in Nat \ {0}
    <3>1. CASE UNCHANGED <<mails, nextId>>
      BY <1>m, <3>1
    <3>2. CASE AddMail(calls[c].row.to, calls[c].row.from, calls[c].row.cod, 0, {})
      BY <1>m, <2>0, <3>2, AddMailEffect DEF Rows
    <3> QED
      BY <1>4, <3>1, <3>2, HandlerWrites
  <2> QED
    BY <1>4, <1>g, <2>1, <2>2, HandlerWrites DEF RemoveMailItemSendsCod
<1>5. CASE RemoveMailItemUpdates(c)
  <2>1. calls[c].row \in Rows /\ [calls[c].row EXCEPT !.cod = 0] \in Rows
    BY <1>5, HandlerWrites, WithCod
  <2>2. MailsOK(mails')
    BY <1>5, <1>m, <2>1, HandlerWrites, UpdateMailEffect
  <2> QED
    BY <1>5, <1>m, <1>g, <2>2, HandlerWrites, CallKinds DEF RemoveMailItemUpdates
<1>6. CASE DeleteItems(c)
  <2>0. calls[c] \in DeleteCalls
    BY <1>6, HandlerWrites
  <2>1. [calls[c] EXCEPT !.at = "d_mail"] \in CallStates
    BY <2>0, CallKinds DEF DeleteCalls
  <2>4. MailsOK(mails')
    BY <1>6, HandlerWrites, PrunedEffect
  <2> QED
    BY <1>6, <1>m, <1>g, <2>1, <2>4 DEF DeleteItems, GoOn
<1>7. CASE DeleteTheMail(c)
  <2>1. MailsOK(mails')
    BY <1>7, HandlerWrites, PrunedEffect
  <2> QED
    BY <1>7, <1>m, <1>g, <2>1, HandlerWrites, CallKinds DEF DeleteTheMail
<1> QED
  BY <1>1, <1>2, <1>3, <1>4, <1>5, <1>6, <1>7

\* What the statements of the cleanup do to the mails.
LEMMA TickerWrites ==
  ASSUME TypeOK, Ticker
  PROVE  /\ UNCHANGED <<bags, calls, nextId, lives, half>>
         /\ \/ mails' = mails
            \/ mails' = [m \in MailIds |-> mails'[m]] /\ \A m \in MailIds : PrunedTo(m, mails'[m])
            \/ ReturnOne
<1> USE DEF world, bounds, history
<1>1. CASE ExpiredMails
  BY <1>1 DEF ExpiredMails
<1>2. CASE DeleteEmpty
  BY <1>2 DEF DeleteEmpty, PrunedTo
<1>3. CASE ReturnOne
  BY <1>3 DEF ReturnOne
<1>4. CASE DeleteReturned
  <2>1. CASE mails' = mails
    BY <1>4, <2>1 DEF DeleteReturned
  <2>2. CASE mails' # mails
    <3>1. mails' = [m \in MailIds |->
                      IF mails[m] = None \/ ~\E r \in ticker.mails : r.id = m THEN mails[m]
                      ELSE [mails[m] EXCEPT !.items = {}]]
      BY <1>4, <2>2 DEF DeleteReturned
    <3>2. ASSUME NEW m \in MailIds PROVE PrunedTo(m, mails'[m])
      <4>1. CASE mails[m] = None \/ ~\E r \in ticker.mails : r.id = m
        BY <3>1, <4>1 DEF PrunedTo
      <4>2. CASE mails[m] # None /\ \E r \in ticker.mails : r.id = m
        BY <3>1, <4>2 DEF PrunedTo
      <4> QED
        BY <4>1, <4>2
    <3> QED
      BY <1>4, <3>1, <3>2 DEF DeleteReturned
  <2> QED
    BY <2>1, <2>2
<1>5. CASE DeleteReturnedMails
  BY <1>5 DEF DeleteReturnedMails, PrunedTo
<1>6. CASE TickerFails
  BY <1>6 DEF TickerFails
<1> QED
  BY <1>1, <1>2, <1>3, <1>4, <1>5, <1>6 DEF Ticker

\* The row that goes back, as it was read.
LEMMA ReturnOneRow ==
  ASSUME TypeOK, ReturnOne
  PROVE  \E row \in ticker.mails :
           /\ row \in Rows /\ ~row.returned
           /\ ReturnedRow(row) \in Rows /\ mails' = UpdateMail(ReturnedRow(row))
           /\ ticker' = [ticker EXCEPT !.mails = @ \ {row}]
<1>1. PICK row \in {r \in ticker.mails : ~r.returned} :
        /\ mails' = UpdateMail(ReturnedRow(row))
        /\ ticker' = [ticker EXCEPT !.mails = @ \ {row}]
  BY DEF ReturnOne
<1>2. row \in ticker.mails /\ row \in Rows /\ ~row.returned
  BY DEF TypeOK
<1>3. ReturnedRow(row) \in Rows
  BY <1>2, WithReturned
<1> QED
  BY <1>1, <1>2, <1>3

\* The rows the cleanup works on: those it read, which were expired, until its
\* pass is over.
LEMMA TickerHolds ==
  ASSUME TypeOK, Ticker
  PROVE  /\ ticker' \in [at : {"rest", "empty", "return", "mails"}, mails : SUBSET Rows]
         /\ \/ ExpiredMails /\ ticker'.at = "empty"
               /\ ticker'.mails = {mails[m] : m \in {x \in MailIds : mails[x] # None /\ mails[x].expired}}
            \/ ticker'.mails \subseteq ticker.mails /\ ticker'.at # "empty"
<1>1. CASE ExpiredMails
  <2>1. ticker' = [at |-> "empty",
                   mails |-> {mails[m] : m \in {x \in MailIds : mails[x] # None /\ mails[x].expired}}]
    BY <1>1 DEF ExpiredMails
  <2> QED
    BY <1>1, <2>1 DEF TypeOK
<1>2. CASE DeleteEmpty
  BY <1>2 DEF DeleteEmpty, TypeOK
<1>3. CASE ReturnOne
  <2>1. PICK row \in ticker.mails : ticker' = [ticker EXCEPT !.mails = @ \ {row}]
    BY <1>3 DEF ReturnOne
  <2> QED
    BY <1>3, <2>1 DEF ReturnOne, TypeOK
<1>4. CASE DeleteReturned
  BY <1>4 DEF DeleteReturned, TypeOK, Rest
<1>5. CASE DeleteReturnedMails \/ TickerFails
  BY <1>5 DEF DeleteReturnedMails, TickerFails, TypeOK, Rest
<1> QED
  BY <1>1, <1>2, <1>3, <1>4, <1>5 DEF Ticker

\* Time passes for one mail.
LEMMA ExpireEffect ==
  ASSUME TypeOK, NEW m \in MailIds, Expire(m)
  PROVE  /\ MailsOK(mails') /\ lives' \in [MailIds -> Nat]
         /\ lives'[m] = lives[m] + 1
         /\ \A n \in MailIds \ {m} : mails'[n] = mails[n] /\ lives'[n] = lives[n]
         /\ mails[m] # None /\ mails'[m] # None /\ mails'[m] \in Rows
         /\ mails'[m].to = mails[m].to /\ mails'[m].money = mails[m].money /\ mails'[m].cod = mails[m].cod
         /\ mails'[m].items = mails[m].items /\ (mails'[m].has <=> mails[m].has)
         /\ (mails'[m].returned <=> mails[m].returned)
<1>1. mails[m] # None /\ mails[m] \in Rows /\ mails[m].id = m
  BY DEF Expire, TypeOK
<1> DEFINE r == [mails[m] EXCEPT !.expired = TRUE]
<1>2. mails' = [mails EXCEPT ![m] = r]
  BY DEF Expire
<1>3. /\ r \in Rows /\ r.id = m /\ r.to = mails[m].to /\ r.money = mails[m].money /\ r.cod = mails[m].cod
      /\ r.items = mails[m].items /\ (r.has <=> mails[m].has) /\ (r.returned <=> mails[m].returned)
  BY <1>1, WithExpired
<1> HIDE DEF r
<1>4. MailsOK(mails') /\ mails'[m] = r /\ \A n \in MailIds \ {m} : mails'[n] = mails[n]
  BY <1>2, <1>3 DEF TypeOK, MailsOK
<1>5. /\ lives' \in [MailIds -> Nat] /\ lives'[m] = lives[m] + 1
      /\ \A n \in MailIds \ {m} : lives'[n] = lives[n]
  BY DEF Expire, TypeOK
<1> QED
  BY <1>1, <1>3, <1>4, <1>5, MailAssumption

LEMMA TypeStep ==
  ASSUME TypeOK, [Next]_vars
  PROVE  TypeOK'
<1>1. ASSUME NEW c \in Chars, Session(c) PROVE TypeOK'
  BY <1>1, TypeQuiet, TypeWrites DEF Session
<1>2. CASE Ticker
  <2>1. MailsOK(mails')
    <3>1. CASE mails' = mails
      BY <3>1 DEF TypeOK, MailsOK
    <3>2. CASE ReturnOne
      BY <3>2, ReturnOneRow, UpdateMailEffect
    <3> QED
      BY <1>2, <3>1, <3>2, TickerWrites, PrunedEffect
  <2> QED
    BY <1>2, <2>1, TickerWrites, TickerHolds DEF TypeOK, MailsOK
<1>3. ASSUME NEW m \in MailIds, Expire(m) PROVE TypeOK'
  BY <1>3, ExpireEffect DEF Expire, TypeOK, MailsOK, world
<1>4. CASE UNCHANGED vars
  BY <1>4 DEF TypeOK, vars, world, bounds, history
<1> QED
  BY <1>1, <1>2, <1>3, <1>4 DEF Next

-----------------------------------------------------------------------------
(* What the cleanup may destroy.                                           *)

\* A row, in the table or remembered by a handler or the cleanup, that says it
\* has expired, or has been returned, is of a mail that expired at least once;
\* one that says both is of a mail that expired twice.
RowLives(r, lv, n) ==
  /\ r.id < n
  /\ r.expired \/ r.returned => lv[r.id] >= 1
  /\ r.expired /\ r.returned => lv[r.id] >= 2
  /\ ~r.has => r.items = {}

\* A handler that takes an item works on a mail that was sent with items.
CallLives(k, ms, lv, n) ==
  /\ k.at \in {"m_upd", "i_del", "i_cod", "i_upd"} => RowLives(k.row, lv, n)
  /\ k.at \in {"i_pay", "i_add", "i_read"} => k.id < n /\ (ms[k.id] = None \/ ms[k.id].has)
  /\ k.at \in {"i_del", "i_cod", "i_upd"} => ms[k.row.id] = None \/ ms[k.row.id].has

Hollow(x) == x = None \/ (x.money = 0 /\ ~x.has /\ x.items = {})

\* What the cleanup has read as empty still is.
TickerLives(t, ms, lv, n) ==
  /\ \A r \in t.mails : r.expired /\ RowLives(r, lv, n)
  /\ t.at = "mails" => \A r \in t.mails : r.returned
  /\ t.at = "empty" => \A r \in t.mails : ~HasContents(r) => Hollow(ms[r.id])

LivesInv ==
  /\ \A m \in MailIds : mails[m] # None => RowLives(mails[m], lives, nextId)
  /\ \A c \in Chars : CallLives(calls[c], mails, lives, nextId)
  /\ TickerLives(ticker, mails, lives, nextId)

\* Lives and ids only grow; a mail keeps its flag and gains no attachments.
Grows == nextId' >= nextId /\ \A m \in MailIds : lives'[m] >= lives[m]
KeptMails ==
  \A m \in MailIds : mails'[m] # None =>
    /\ RowLives(mails'[m], lives', nextId')
    /\ \/ mails[m] # None /\ (mails'[m].has <=> mails[m].has) /\ mails'[m].items \subseteq mails[m].items
       \/ m = nextId
HollowKept == \A m \in MailIds : m # nextId /\ Hollow(mails[m]) => Hollow(mails'[m])

LEMMA RowLivesGrow ==
  ASSUME TypeOK, TypeOK', Grows, NEW r \in Rows, RowLives(r, lives, nextId)
  PROVE  RowLives(r, lives', nextId')
<1>1. r.id \in MailIds /\ r.id \in Int
  BY DEF Rows, MailIds
<1>2. lives[r.id] \in Nat /\ lives'[r.id] \in Nat /\ lives'[r.id] >= lives[r.id]
  BY <1>1 DEF TypeOK, Grows
<1>3. nextId \in Nat /\ nextId' \in Nat /\ nextId' >= nextId
  BY DEF TypeOK, Grows
<1> QED
  BY <1>1, <1>2, <1>3 DEF RowLives

LEMMA CallLivesKept ==
  ASSUME TypeOK, TypeOK', Grows, KeptMails, NEW k \in CallStates, CallLives(k, mails, lives, nextId)
  PROVE  CallLives(k, mails', lives', nextId')
<1>0. nextId \in Nat /\ nextId' \in Nat /\ nextId' >= nextId
  BY DEF TypeOK, Grows
<1>1. ASSUME k.at \in {"m_upd", "i_del", "i_cod", "i_upd"} PROVE RowLives(k.row, lives', nextId')
  <2>1. k.row \in Rows
    BY <1>1, CallParts DEF MoneyCalls, RemoveCalls
  <2> QED
    BY <1>1, <2>1, RowLivesGrow DEF CallLives
<1>2. ASSUME k.at \in {"i_pay", "i_add", "i_read"}
      PROVE  k.id < nextId' /\ (mails'[k.id] = None \/ mails'[k.id].has)
  <2>1. k.id \in MailIds /\ k.id \in Int
    BY <1>2, CallParts DEF TakeCalls, MailIds
  <2> QED
    BY <1>0, <1>2, <2>1 DEF CallLives, KeptMails
<1>3. ASSUME k.at \in {"i_del", "i_cod", "i_upd"}
      PROVE  mails'[k.row.id] = None \/ mails'[k.row.id].has
  <2>1. k.row.id \in MailIds /\ k.row.id \in Int
    BY <1>3, CallParts DEF RemoveCalls, Rows, MailIds
  <2> QED
    BY <1>0, <1>3, <2>1 DEF CallLives, KeptMails, RowLives
<1> QED
  BY <1>1, <1>2, <1>3 DEF CallLives

\* The cleanup's rows, while the cleanup itself does nothing.
LEMMA TickerLivesKept ==
  ASSUME TypeOK, TypeOK', Grows, HollowKept, TickerLives(ticker, mails, lives, nextId), ticker' = ticker
  PROVE  TickerLives(ticker', mails', lives', nextId')
<1>1. ASSUME NEW r \in ticker.mails
      PROVE  /\ r.expired /\ RowLives(r, lives', nextId')
             /\ ticker.at = "mails" => r.returned
             /\ ticker.at = "empty" /\ ~HasContents(r) => Hollow(mails'[r.id])
  <2>1. r \in Rows /\ r.id \in MailIds /\ r.id \in Int
    BY <1>1 DEF TypeOK, Rows, MailIds
  <2>2. r.expired /\ RowLives(r, lives, nextId) /\ r.id # nextId
    BY <1>1, <2>1 DEF TickerLives, RowLives, TypeOK
  <2>3. RowLives(r, lives', nextId')
    BY <2>1, <2>2, RowLivesGrow
  <2> QED
    BY <1>1, <2>1, <2>2, <2>3 DEF TickerLives, HollowKept
<1> QED
  BY <1>1 DEF TickerLives

\* A step of one handler.
LEMMA LivesBySession ==
  ASSUME TypeOK, TypeOK', LivesInv, NEW c \in Chars, Grows, KeptMails, HollowKept,
         \A d \in Chars \ {c} : calls'[d] = calls[d],
         CallLives(calls'[c], mails', lives', nextId'), ticker' = ticker
  PROVE  LivesInv'
<1>1. ASSUME NEW d \in Chars PROVE CallLives(calls'[d], mails', lives', nextId')
  <2>1. CASE d = c
    BY <2>1
  <2>2. CASE d # c
    <3>1. calls[d] \in CallStates /\ CallLives(calls[d], mails, lives, nextId)
      BY DEF TypeOK, LivesInv
    <3> QED
      BY <2>2, <3>1, CallLivesKept
  <2> QED
    BY <2>1, <2>2
<1>2. TickerLives(ticker', mails', lives', nextId')
  BY TickerLivesKept DEF LivesInv
<1> QED
  BY <1>1, <1>2 DEF LivesInv, KeptMails

LEMMA LivesInit == Init => LivesInv
<1> SUFFICES ASSUME Init PROVE LivesInv
  OBVIOUS
<1>1. \A c \in Chars : calls[c] = Idle
  BY DEF Init
<1>2. \A c \in Chars : CallLives(calls[c], mails, lives, nextId)
  BY <1>1, CallKinds DEF CallLives
<1>3. TickerLives(ticker, mails, lives, nextId)
  BY DEF Init, TickerLives, Rest
<1> QED
  BY <1>2, <1>3 DEF Init, LivesInv

LEMMA IdleLives == \A ms, lv, n : CallLives(Idle, ms, lv, n)
BY CallKinds DEF CallLives

\* How the three kinds of writes treat the mails.
LEMMA SameKept ==
  ASSUME TypeOK, LivesInv, UNCHANGED <<mails, lives, nextId>>
  PROVE  Grows /\ KeptMails /\ HollowKept
BY DEF TypeOK, LivesInv, Grows, KeptMails, HollowKept

LEMMA PrunedKept ==
  ASSUME TypeOK, LivesInv, UNCHANGED <<lives, nextId>>, mails' = [m \in MailIds |-> mails'[m]],
         \A m \in MailIds : PrunedTo(m, mails'[m])
  PROVE  Grows /\ KeptMails /\ HollowKept
<1>1. Grows
  BY DEF TypeOK, Grows
<1>2. ASSUME NEW m \in MailIds, mails'[m] # None
      PROVE  /\ mails[m] # None /\ mails'[m].id = m /\ mails[m].id = m /\ mails'[m].money = mails[m].money
             /\ mails'[m].items \subseteq mails[m].items /\ (mails'[m].has <=> mails[m].has)
             /\ (mails'[m].returned <=> mails[m].returned) /\ (mails'[m].expired <=> mails[m].expired)
  BY <1>2, PrunedEffect DEF MailsOK, TypeOK
<1>3. KeptMails
  BY <1>2 DEF LivesInv, RowLives, KeptMails
<1>4. HollowKept
  BY <1>2 DEF HollowKept, Hollow
<1> QED
  BY <1>1, <1>3, <1>4

LEMMA UpdateKept ==
  ASSUME TypeOK, LivesInv, UNCHANGED <<lives, nextId>>, NEW row \in Rows, RowLives(row, lives, nextId),
         mails' = UpdateMail(row)
  PROVE  /\ Grows /\ KeptMails
         /\ row.money = 0 \/ mails[row.id] = None \/ mails[row.id].has => HollowKept
<1>1. Grows
  BY DEF TypeOK, Grows
<1>2. KeptMails
  <2> SUFFICES ASSUME NEW m \in MailIds, mails'[m] # None
               PROVE  /\ RowLives(mails'[m], lives', nextId')
                      /\ mails[m] # None /\ (mails'[m].has <=> mails[m].has)
                      /\ mails'[m].items \subseteq mails[m].items
    BY DEF KeptMails
  <2>1. mails'[m].id = m
    BY UpdateMailEffect DEF MailsOK
  <2>2. CASE m # row.id \/ mails[m] = None
    BY <2>2, UpdateMailEffect DEF LivesInv
  <2>3. CASE m = row.id /\ mails[m] # None
    <3>1. /\ mails'[m].items = mails[m].items /\ (mails'[m].has <=> mails[m].has)
          /\ (mails'[m].returned <=> row.returned) /\ (mails'[m].expired <=> row.expired)
      BY <2>3, UpdateMailEffect
    <3>2. RowLives(mails[m], lives, nextId)
      BY <2>3 DEF LivesInv
    <3> QED
      BY <2>1, <2>3, <3>1, <3>2 DEF RowLives
  <2> QED
    BY <2>2, <2>3
<1>3. ASSUME row.money = 0 \/ mails[row.id] = None \/ mails[row.id].has PROVE HollowKept
  <2> SUFFICES ASSUME NEW m \in MailIds, Hollow(mails[m]) PROVE Hollow(mails'[m])
    BY DEF HollowKept
  <2>1. CASE m # row.id \/ mails[m] = None
    BY <2>1, UpdateMailEffect
  <2>2. CASE m = row.id /\ mails[m] # None
    <3>1. /\ mails'[m].items = mails[m].items /\ (mails'[m].has <=> mails[m].has)
          /\ mails'[m].money = row.money
      BY <2>2, UpdateMailEffect
    <3> QED
      BY <1>3, <2>2, <3>1 DEF Hollow
  <2> QED
    BY <2>1, <2>2
<1> QED
  BY <1>1, <1>2, <1>3

LEMMA AddKept ==
  ASSUME TypeOK, TypeOK', LivesInv, UNCHANGED lives, NEW from \in Chars, NEW to \in Chars, NEW money \in Nat,
         NEW cod \in Nat, NEW items \in SUBSET Items, AddMail(from, to, money, cod, items)
  PROVE  Grows /\ KeptMails /\ HollowKept
<1>1. /\ nextId \in MailIds /\ nextId' = nextId + 1
      /\ \A m \in MailIds : m # nextId => mails'[m] = mails[m]
      /\ (mails'[nextId].has <=> mails'[nextId].items # {})
      /\ ~mails'[nextId].returned /\ ~mails'[nextId].expired
      /\ mails'[nextId] # None /\ mails'[nextId].id = nextId
  BY AddMailEffect, MailAssumption DEF MailsOK
<1>2. Grows
  BY <1>1 DEF TypeOK, Grows
<1>3. HollowKept
  BY <1>1 DEF HollowKept
<1>4. ASSUME NEW m \in MailIds, m # nextId, mails'[m] # None
      PROVE  RowLives(mails'[m], lives', nextId') /\ mails'[m] = mails[m]
  <2>1. mails'[m] = mails[m] /\ RowLives(mails[m], lives, nextId) /\ mails[m] \in Rows
    BY <1>1, <1>4 DEF LivesInv, TypeOK
  <2> QED
    BY <1>2, <2>1, RowLivesGrow
<1>5. RowLives(mails'[nextId], lives', nextId')
  BY <1>1 DEF RowLives, TypeOK
<1>6. KeptMails
  BY <1>4, <1>5 DEF KeptMails
<1> QED
  BY <1>2, <1>3, <1>6

LEMMA LivesQuiet ==
  ASSUME TypeOK, TypeOK', LivesInv, NEW c \in Chars,
         \/ SendChecked(c) \/ SendTakesItems(c) \/ SendTakesMoney(c)
         \/ TakeMoneyReads(c) \/ TakeMoneyPays(c)
         \/ TakeItemReads(c) \/ TakeItemPays(c) \/ TakeItemAdds(c)
         \/ RemoveMailItemReads(c) \/ DeleteReads(c) \/ DeleteReadsAgain(c) \/ CallFails(c)
  PROVE  LivesInv'
<1>0. UNCHANGED <<mails, ticker, nextId, lives>>
  BY TypeQuiet
<1>1. Grows /\ KeptMails /\ HollowKept
  BY <1>0, SameKept
<1>2. calls[c] \in CallStates /\ CallLives(calls[c], mails, lives, nextId)
  BY DEF TypeOK, LivesInv
<1> USE DEF GoOn, At, Starts, Quietly
<1>g. ASSUME NEW k, calls' = [calls EXCEPT ![c] = k], CallLives(k, mails, lives, nextId)
      PROVE  LivesInv'
  <2>1. calls'[c] = k /\ \A d \in Chars \ {c} : calls'[d] = calls[d]
    BY <1>g DEF TypeOK
  <2>2. CallLives(calls'[c], mails', lives', nextId')
    BY <1>0, <1>g, <2>1
  <2> QED
    BY <1>0, <1>1, <2>1, <2>2, LivesBySession
<1>3. CASE SendChecked(c)
  <2>1. PICK to, money, cod, items :
          calls' = [calls EXCEPT ![c] = [at |-> "s_items", to |-> to, money |-> money, cod |-> cod, items |-> items]]
    BY <1>3 DEF SendChecked
  <2>2. CallLives([at |-> "s_items", to |-> to, money |-> money, cod |-> cod, items |-> items], mails, lives, nextId)
    BY DEF CallLives
  <2> QED
    BY <1>g, <2>1, <2>2
<1>4. CASE SendTakesItems(c) \/ SendTakesMoney(c)
  <2>1. calls[c] \in SendCalls
    BY <1>2, <1>4, CallParts DEF SendTakesItems, SendTakesMoney
  <2>2. /\ CallLives([calls[c] EXCEPT !.at = "s_money"], mails, lives, nextId)
        /\ CallLives([calls[c] EXCEPT !.at = "s_send"], mails, lives, nextId)
    BY <2>1 DEF CallLives, SendCalls
  <2> QED
    BY <1>4, <1>g, <2>2 DEF SendTakesItems, SendTakesMoney
<1>5. CASE TakeMoneyReads(c)
  <2>1. PICK m \in MailIds : mails[m] # None /\ calls' = [calls EXCEPT ![c] = [at |-> "m_upd", row |-> mails[m]]]
    BY <1>5 DEF TakeMoneyReads
  <2>2. CallLives([at |-> "m_upd", row |-> mails[m]], mails, lives, nextId)
    BY <2>1 DEF CallLives, LivesInv
  <2> QED
    BY <1>g, <2>1, <2>2
<1>6. CASE TakeMoneyPays(c) \/ CallFails(c)
  BY <1>6, <1>g, IdleLives DEF TakeMoneyPays, CallFails
<1>7. CASE TakeItemReads(c)
  <2>1. PICK m \in MailIds, i \in Items :
          /\ mails[m] # None /\ i \in mails[m].items
          /\ calls' = [calls EXCEPT ![c] = [at |-> "i_pay", id |-> m, item |-> i, cod |-> mails[m].cod]]
    BY <1>7 DEF TakeItemReads
  <2>2. m < nextId /\ mails[m].has
    BY <2>1 DEF LivesInv, RowLives, TypeOK
  <2>3. CallLives([at |-> "i_pay", id |-> m, item |-> i, cod |-> mails[m].cod], mails, lives, nextId)
    BY <2>2 DEF CallLives
  <2> QED
    BY <1>g, <2>1, <2>3
<1>8. CASE TakeItemPays(c) \/ TakeItemAdds(c)
  <2>1. calls[c] \in TakeCalls
    BY <1>2, <1>8, CallParts DEF TakeItemPays, TakeItemAdds
  <2>2. /\ CallLives([calls[c] EXCEPT !.at = "i_add"], mails, lives, nextId)
        /\ CallLives([calls[c] EXCEPT !.at = "i_read"], mails, lives, nextId)
    BY <1>2, <2>1 DEF CallLives, TakeCalls
  <2> QED
    BY <1>8, <1>g, <2>2, IdleLives DEF TakeItemPays, TakeItemAdds
<1>9. CASE RemoveMailItemReads(c)
  <2> DEFINE row == mails[calls[c].id]
             k   == [at |-> "i_del", row |-> row, item |-> calls[c].item, cod |-> calls[c].cod]
  <2>1. calls[c] \in TakeCalls /\ calls[c].id \in MailIds
    BY <1>2, <1>9, CallParts DEF RemoveMailItemReads, TakeCalls
  <2>2. ASSUME row # None PROVE CallLives(k, mails, lives, nextId)
    <3>1. RowLives(row, lives, nextId) /\ row.id = calls[c].id
      BY <2>1, <2>2 DEF LivesInv, TypeOK
    <3>2. row.has
      BY <1>2, <1>9, <2>2 DEF RemoveMailItemReads, CallLives
    <3> QED
      BY <3>1, <3>2 DEF CallLives
  <2> QED
    BY <1>9, <1>g, <2>2, IdleLives DEF RemoveMailItemReads
<1>10. CASE DeleteReads(c)
  <2>1. PICK m \in MailIds : calls' = [calls EXCEPT ![c] = [at |-> "d_read", id |-> m]]
    BY <1>10 DEF DeleteReads
  <2>2. CallLives([at |-> "d_read", id |-> m], mails, lives, nextId)
    BY DEF CallLives
  <2> QED
    BY <1>g, <2>1, <2>2
<1>11. CASE DeleteReadsAgain(c)
  <2>1. CallLives([at |-> "d_items", row |-> mails[calls[c].id]], mails, lives, nextId)
    BY DEF CallLives
  <2> QED
    BY <1>11, <1>g, <2>1, IdleLives DEF DeleteReadsAgain
<1> QED
  BY <1>3, <1>4, <1>5, <1>6, <1>7, <1>8, <1>9, <1>10, <1>11

LEMMA LivesWrites ==
  ASSUME TypeOK, TypeOK', LivesInv, NEW c \in Chars,
         \/ SendStores(c) \/ TakeMoneyEmpties(c) \/ RemoveMailItemDeletes(c)
         \/ RemoveMailItemSendsCod(c) \/ RemoveMailItemUpdates(c) \/ DeleteItems(c) \/ DeleteTheMail(c)
  PROVE  LivesInv'
<1>0. UNCHANGED <<ticker, lives>>
  BY TypeWrites
<1>2. calls[c] \in CallStates /\ CallLives(calls[c], mails, lives, nextId)
  BY DEF TypeOK, LivesInv
<1>g. ASSUME Grows, KeptMails, HollowKept, NEW k \in CallStates, calls' = [calls EXCEPT ![c] = k],
             CallLives(k, mails, lives, nextId)
      PROVE  LivesInv'
  <2>1. calls'[c] = k /\ \A d \in Chars \ {c} : calls'[d] = calls[d]
    BY <1>g DEF TypeOK
  <2>2. CallLives(calls'[c], mails', lives', nextId')
    BY <1>g, <2>1, CallLivesKept
  <2> QED
    BY <1>0, <1>g, <2>1, <2>2, LivesBySession
<1>i. Idle \in CallStates /\ CallLives(Idle, mails, lives, nextId)
  BY CallKinds, IdleLives
<1>1. CASE SendStores(c)
  <2>1. /\ calls[c] \in SendCalls /\ calls' = [calls EXCEPT ![c] = Idle]
        /\ AddMail(c, calls[c].to, calls[c].money, calls[c].cod, calls[c].items)
    BY <1>1, HandlerWrites
  <2>2. /\ calls[c].to \in Chars /\ calls[c].money \in Nat /\ calls[c].cod \in Nat
        /\ calls[c].items \in SUBSET Items
    BY <2>1 DEF SendCalls
  <2>3. Grows /\ KeptMails /\ HollowKept
    BY <1>0, <2>1, <2>2, AddKept
  <2> QED
    BY <1>g, <1>i, <2>1, <2>3
<1>3. CASE TakeMoneyEmpties(c)
  <2> DEFINE row == [calls[c].row EXCEPT !.money = 0]
  <2>1. calls[c].row \in Rows /\ mails' = UpdateMail(row)
    BY <1>3, HandlerWrites
  <2>2. RowLives(calls[c].row, lives, nextId)
    BY <1>2, <1>3 DEF TakeMoneyEmpties, At, CallLives
  <2>3. row \in Rows /\ row.money = 0 /\ RowLives(row, lives, nextId)
    BY <2>1, <2>2, WithMoney DEF RowLives
  <2>4. nextId' = nextId
    BY <1>3 DEF TakeMoneyEmpties
  <2> HIDE DEF row
  <2>5. Grows /\ KeptMails /\ HollowKept
    BY <1>0, <2>1, <2>3, <2>4, UpdateKept
  <2>6. [at |-> "m_pay", row |-> calls[c].row] \in CallStates
    BY <2>1, CallKinds DEF MoneyCalls
  <2>7. CallLives([at |-> "m_pay", row |-> calls[c].row], mails, lives, nextId)
    BY DEF CallLives
  <2>8. \/ calls' = [calls EXCEPT ![c] = Idle]
        \/ calls' = [calls EXCEPT ![c] = [at |-> "m_pay", row |-> calls[c].row]]
    BY <1>3 DEF TakeMoneyEmpties, GoOn
  <2> QED
    BY <1>g, <1>i, <2>5, <2>6, <2>7, <2>8
<1>4. CASE RemoveMailItemDeletes(c)
  <2>1. Grows /\ KeptMails /\ HollowKept
    BY <1>0, <1>4, HandlerWrites, PrunedKept DEF RemoveMailItemDeletes
  <2>2. calls[c] \in RemoveCalls
    BY <1>4, HandlerWrites
  <2>3. [calls[c] EXCEPT !.at = "i_cod"] \in CallStates
    BY <2>2, CallKinds DEF RemoveCalls
  <2>4. CallLives([calls[c] EXCEPT !.at = "i_cod"], mails, lives, nextId)
    BY <1>2, <2>2 DEF CallLives, RemoveCalls
  <2>5. \/ calls' = [calls EXCEPT ![c] = Idle]
        \/ calls' = [calls EXCEPT ![c] = [calls[c] EXCEPT !.at = "i_cod"]]
    BY <1>4 DEF RemoveMailItemDeletes, GoOn
  <2> QED
    BY <1>g, <1>i, <2>1, <2>3, <2>4, <2>5
<1>5. CASE RemoveMailItemSendsCod(c)
  <2>1. /\ calls[c] \in RemoveCalls /\ calls[c].row \in Rows
        /\ \/ AddMail(calls[c].row.to, calls[c].row.from, calls[c].row.cod, 0, {})
           \/ UNCHANGED <<mails, nextId>>
        /\ calls' = [calls EXCEPT ![c] = [calls[c] EXCEPT !.at = "i_upd"]]
    BY <1>5, HandlerWrites
  <2>2. calls[c].row.to \in Chars /\ calls[c].row.from \in Chars /\ calls[c].row.cod \in Nat
    BY <2>1 DEF Rows
  <2>3. Grows /\ KeptMails /\ HollowKept
    BY <1>0, <2>1, <2>2, AddKept, SameKept
  <2>4. [calls[c] EXCEPT !.at = "i_upd"] \in CallStates
    BY <2>1, CallKinds DEF RemoveCalls
  <2>5. CallLives([calls[c] EXCEPT !.at = "i_upd"], mails, lives, nextId)
    BY <1>2, <2>1 DEF CallLives, RemoveCalls
  <2> QED
    BY <1>g, <2>1, <2>3, <2>4, <2>5
<1>6. CASE RemoveMailItemUpdates(c)
  <2>1. /\ calls[c] \in RemoveCalls /\ calls[c].row \in Rows
        /\ \/ mails' = UpdateMail([calls[c].row EXCEPT !.cod = 0])
           \/ mails' = UpdateMail(calls[c].row)
           \/ mails' = mails
        /\ calls' = [calls EXCEPT ![c] = Idle]
    BY <1>6, HandlerWrites
  <2>2. /\ RowLives(calls[c].row, lives, nextId)
        /\ mails[calls[c].row.id] = None \/ mails[calls[c].row.id].has
    BY <1>2, <1>6 DEF RemoveMailItemUpdates, At, CallLives
  <2>3. LET row == [calls[c].row EXCEPT !.cod = 0]
        IN  row \in Rows /\ RowLives(row, lives, nextId) /\ row.id = calls[c].row.id
    BY <2>1, <2>2, WithCod DEF RowLives
  <2>4. nextId' = nextId
    BY <1>6 DEF RemoveMailItemUpdates
  <2>5. Grows /\ KeptMails /\ HollowKept
    BY <1>0, <2>1, <2>2, <2>3, <2>4, UpdateKept, SameKept
  <2> QED
    BY <1>g, <1>i, <2>1, <2>5
<1>7. CASE DeleteItems(c)
  <2>1. Grows /\ KeptMails /\ HollowKept
    BY <1>0, <1>7, HandlerWrites, PrunedKept DEF DeleteItems
  <2>2. calls[c] \in DeleteCalls
    BY <1>7, HandlerWrites
  <2>3. [calls[c] EXCEPT !.at = "d_mail"] \in CallStates
    BY <2>2, CallKinds DEF DeleteCalls
  <2>4. CallLives([calls[c] EXCEPT !.at = "d_mail"], mails, lives, nextId)
    BY <2>2 DEF CallLives, DeleteCalls
  <2> QED
    BY <1>7, <1>g, <2>1, <2>3, <2>4 DEF DeleteItems, GoOn
<1>8. CASE DeleteTheMail(c)
  <2>1. Grows /\ KeptMails /\ HollowKept
    BY <1>0, <1>8, HandlerWrites, PrunedKept DEF DeleteTheMail
  <2> QED
    BY <1>8, <1>g, <1>i, <2>1, HandlerWrites
<1> QED
  BY <1>1, <1>3, <1>4, <1>5, <1>6, <1>7, <1>8

LEMMA LivesTicker ==
  ASSUME TypeOK, TypeOK', LivesInv, Ticker
  PROVE  LivesInv'
<1>0. UNCHANGED <<calls, nextId, lives>>
  BY TickerWrites
<1>1. Grows /\ KeptMails
  <2>1. CASE ReturnOne
    <3>1. PICK row \in ticker.mails :
            /\ row \in Rows /\ ~row.returned
            /\ ReturnedRow(row) \in Rows /\ mails' = UpdateMail(ReturnedRow(row))
      BY <2>1, ReturnOneRow
    <3>2. row.expired /\ RowLives(row, lives, nextId)
      BY DEF LivesInv, TickerLives
    <3>3. RowLives(ReturnedRow(row), lives, nextId)
      BY <3>1, <3>2, WithReturned DEF RowLives
    <3> QED
      BY <1>0, <3>1, <3>3, UpdateKept
  <2> QED
    BY <1>0, <2>1, TickerWrites, SameKept, PrunedKept
<1>2. \A c \in Chars : CallLives(calls'[c], mails', lives', nextId')
  BY <1>0, <1>1, CallLivesKept DEF TypeOK, LivesInv
<1>3. TickerLives(ticker', mails', lives', nextId')
  <2>1. CASE ExpiredMails
    <3>1. /\ mails' = mails /\ ticker'.at = "empty"
          /\ ticker'.mails = {mails[m] : m \in {x \in MailIds : mails[x] # None /\ mails[x].expired}}
      BY <2>1 DEF ExpiredMails
    <3>2. ASSUME NEW r \in ticker'.mails
          PROVE  /\ r.expired /\ RowLives(r, lives, nextId)
                 /\ ~HasContents(r) => Hollow(mails[r.id])
      <4>1. PICK m \in MailIds : mails[m] # None /\ mails[m].expired /\ r = mails[m]
        BY <3>1, <3>2
      <4>2. r.id = m /\ RowLives(r, lives, nextId)
        BY <4>1 DEF TypeOK, LivesInv
      <4> QED
        BY <4>1, <4>2 DEF HasContents, Hollow, RowLives
    <3> QED
      BY <1>0, <3>1, <3>2 DEF TickerLives
  <2>2. CASE ~ExpiredMails
    <3>1. ticker'.mails \subseteq ticker.mails /\ ticker'.at # "empty"
      BY <2>2, TickerHolds
    <3>2. ticker'.at = "mails" => \A r \in ticker'.mails : r.returned
      <4>1. CASE DeleteEmpty
        BY <4>1 DEF DeleteEmpty
      <4>2. CASE ReturnOne
        <5>1. PICK row : ticker' = [ticker EXCEPT !.mails = @ \ {row}]
          BY <4>2 DEF ReturnOne
        <5> QED
          BY <4>2, <5>1 DEF ReturnOne, TypeOK
      <4>3. CASE DeleteReturned
        BY <3>1, <4>3 DEF DeleteReturned
      <4>4. CASE DeleteReturnedMails \/ TickerFails
        BY <4>4 DEF DeleteReturnedMails, TickerFails, Rest
      <4> QED
        BY <2>2, <4>1, <4>2, <4>3, <4>4 DEF Ticker
    <3> QED
      BY <1>0, <3>1, <3>2 DEF LivesInv, TickerLives
  <2> QED
    BY <2>1, <2>2
<1> QED
  BY <1>1, <1>2, <1>3 DEF LivesInv, KeptMails

LEMMA LivesExpire ==
  ASSUME TypeOK, TypeOK', LivesInv, NEW m \in MailIds, Expire(m)
  PROVE  LivesInv'
<1>0. UNCHANGED <<calls, ticker, nextId>>
  BY DEF Expire
<1>1. Grows
  BY <1>0, ExpireEffect DEF Grows, TypeOK
<1>2. KeptMails
  <2> SUFFICES ASSUME NEW n \in MailIds, mails'[n] # None
               PROVE  /\ RowLives(mails'[n], lives', nextId')
                      /\ mails[n] # None /\ (mails'[n].has <=> mails[n].has)
                      /\ mails'[n].items \subseteq mails[n].items
    BY DEF KeptMails
  <2>1. CASE n # m
    <3>1. mails'[n] = mails[n] /\ mails[n] \in Rows /\ RowLives(mails[n], lives, nextId)
      BY <2>1, ExpireEffect DEF TypeOK, LivesInv
    <3> QED
      BY <1>1, <3>1, RowLivesGrow
  <2>2. CASE n = m
    <3>1. /\ mails[n] # None /\ (mails'[n].has <=> mails[n].has) /\ mails'[n].items = mails[n].items
          /\ (mails'[n].returned <=> mails[n].returned) /\ lives'[n] = lives[n] + 1
      BY <2>2, ExpireEffect
    <3>2. mails'[n].id = n /\ mails[n].id = n /\ lives[n] \in Nat
      BY <3>1 DEF TypeOK
    <3>3. RowLives(mails[n], lives, nextId)
      BY <3>1 DEF LivesInv
    <3> QED
      BY <1>0, <3>1, <3>2, <3>3 DEF RowLives
  <2> QED
    BY <2>1, <2>2
<1>3. HollowKept
  BY ExpireEffect DEF HollowKept, Hollow
<1>4. \A c \in Chars : CallLives(calls'[c], mails', lives', nextId')
  BY <1>0, <1>1, <1>2, CallLivesKept DEF TypeOK, LivesInv
<1>5. TickerLives(ticker', mails', lives', nextId')
  BY <1>0, <1>1, <1>3, TickerLivesKept DEF LivesInv
<1> QED
  BY <1>2, <1>4, <1>5 DEF LivesInv, KeptMails

LEMMA LivesStep ==
  ASSUME TypeOK, TypeOK', LivesInv, [Next]_vars
  PROVE  LivesInv'
<1>1. ASSUME NEW c \in Chars, Session(c) PROVE LivesInv'
  BY <1>1, LivesQuiet, LivesWrites DEF Session
<1>2. CASE UNCHANGED vars
  <2>1. UNCHANGED <<mails, calls, ticker, nextId, lives>>
    BY <1>2 DEF vars, world, bounds, history
  <2> QED
    BY <2>1 DEF LivesInv
<1> QED
  BY <1>1, <1>2, LivesTicker, LivesExpire DEF Next

\* A handler that writes to the mails goes on to its next statement.
LEMMA WriterMoves ==
  ASSUME TypeOK, NEW c \in Chars,
         \/ SendStores(c) \/ TakeMoneyEmpties(c) \/ RemoveMailItemDeletes(c)
         \/ RemoveMailItemSendsCod(c) \/ RemoveMailItemUpdates(c) \/ DeleteItems(c) \/ DeleteTheMail(c)
  PROVE  calls' # calls
<1> USE DEF GoOn, At
<1>1. calls[c] \in CallStates /\ DOMAIN calls = Chars /\ Idle.at = "idle"
  BY CallKinds DEF TypeOK
<1>2. CASE SendStores(c) \/ RemoveMailItemUpdates(c) \/ DeleteTheMail(c)
  <2>1. calls'[c] = Idle /\ calls[c].at # "idle"
    BY <1>1, <1>2 DEF SendStores, RemoveMailItemUpdates, DeleteTheMail
  <2> QED
    BY <1>1, <2>1
<1>3. CASE TakeMoneyEmpties(c)
  <2>1. calls'[c] \in {Idle, [at |-> "m_pay", row |-> calls[c].row]} /\ calls[c].at = "m_upd"
    BY <1>1, <1>3 DEF TakeMoneyEmpties
  <2> QED
    BY <1>1, <2>1
<1>4. CASE RemoveMailItemDeletes(c) \/ RemoveMailItemSendsCod(c)
  <2>1. calls[c] \in RemoveCalls
    BY <1>4, HandlerWrites
  <2>2. /\ calls'[c] \in {Idle, [calls[c] EXCEPT !.at = "i_cod"], [calls[c] EXCEPT !.at = "i_upd"]}
        /\ calls'[c] = [calls[c] EXCEPT !.at = "i_cod"] => calls[c].at = "i_del"
        /\ calls'[c] = [calls[c] EXCEPT !.at = "i_upd"] => calls[c].at \in {"i_del", "i_cod"}
        /\ calls[c].at # "idle"
    BY <1>1, <1>4, <2>1 DEF RemoveMailItemDeletes, RemoveMailItemSendsCod, RemoveCalls
  <2> QED
    BY <1>1, <2>1, <2>2 DEF RemoveCalls
<1>5. CASE DeleteItems(c)
  <2>1. calls[c] \in DeleteCalls
    BY <1>5, HandlerWrites
  <2>2. calls'[c] = [calls[c] EXCEPT !.at = "d_mail"] /\ calls[c].at = "d_items"
    BY <1>1, <1>5 DEF DeleteItems
  <2> QED
    BY <1>1, <2>1, <2>2 DEF DeleteCalls
<1> QED
  BY <1>2, <1>3, <1>4, <1>5

LEMMA DestroysStep ==
  ASSUME TypeOK, TypeOK', LivesInv, [Next]_vars
  PROVE  [DestroysExpiredTwice]_vars
<1> SUFFICES ASSUME NEW m \in MailIds, Next, calls' = calls, mails[m] # None,
                    mails[m].items # {} \/ mails[m].money > 0,
                    mails'[m] = None \/ mails'[m].items # mails[m].items
             PROVE  lives[m] >= 2
  BY DEF DestroysExpiredTwice
<1>0. mails' # mails
  OBVIOUS
<1>1. ASSUME NEW c \in Chars, Session(c) PROVE FALSE
  BY <1>0, <1>1, TypeQuiet, WriterMoves DEF Session
<1>2. ASSUME NEW r \in ticker.mails, r.id = m, r.returned PROVE lives[m] >= 2
  BY <1>2 DEF LivesInv, TickerLives, RowLives
<1>3. CASE DeleteEmpty
  <2>1. PICK r \in ticker.mails : ~HasContents(r) /\ r.id = m
    BY <1>3 DEF DeleteEmpty
  <2>2. Hollow(mails[m])
    BY <1>3, <2>1 DEF DeleteEmpty, LivesInv, TickerLives
  <2> QED
    BY <2>2 DEF Hollow
<1>4. CASE ReturnOne
  <2>1. PICK row \in ticker.mails : ReturnedRow(row) \in Rows /\ mails' = UpdateMail(ReturnedRow(row))
    BY <1>4, ReturnOneRow
  <2>2. mails'[m] # None /\ mails'[m].items = mails[m].items
    BY <2>1, UpdateMailEffect
  <2> QED
    BY <2>2
<1>5. CASE DeleteReturned
  <2>1. PICK r \in ticker.mails : r.id = m /\ r.returned
    BY <1>0, <1>5 DEF DeleteReturned
  <2> QED
    BY <1>2, <2>1
<1>6. CASE DeleteReturnedMails
  <2>1. PICK r \in ticker.mails : r.id = m
    BY <1>6 DEF DeleteReturnedMails
  <2>2. r.returned
    BY <1>6 DEF DeleteReturnedMails, LivesInv, TickerLives
  <2> QED
    BY <1>2, <2>1, <2>2
<1>7. CASE ExpiredMails \/ TickerFails
  BY <1>0, <1>7 DEF ExpiredMails, TickerFails
<1>8. ASSUME NEW n \in MailIds, Expire(n) PROVE FALSE
  BY <1>8, ExpireEffect
<1> QED
  BY <1>1, <1>3, <1>4, <1>5, <1>6, <1>7, <1>8 DEF Next, Ticker

\* ProcessExpiredMails: for all mails, characters and interleavings of stale
\* writes, the cleanup destroys money or items only of a mail that went back
\* to its sender and expired there too.
THEOREM MailsAreReturnedFirst == Spec => ReturnedBeforeDestroyed
<1>1. TypeOK /\ LivesInv /\ [Next]_vars => TypeOK' /\ LivesInv'
  BY TypeStep, LivesStep
<1>2. TypeOK /\ LivesInv /\ [Next]_vars => [DestroysExpiredTwice]_vars
  BY TypeStep, DestroysStep
<1> QED
  BY <1>1, <1>2, TypeInit, LivesInit, PTL DEF Spec, ReturnedBeforeDestroyed

-----------------------------------------------------------------------------
(* An item is in one place.                                                *)

\* Item i is attached to mail m; the handler k has taken it out of the bags and
\* not stored it; will take it; has handed it over and not yet removed it.
Attached(m, i) == mails[m] # None /\ i \in mails[m].items
Posts(k, i)    == k.at \in {"s_money", "s_send"} /\ i \in k.items
Claims(k, i)   == k.at \in {"i_pay", "i_add"} /\ k.item = i
Moves(k, i)    == k.at \in {"i_read", "i_del"} /\ k.item = i

\* A handler works on a mail of its own character that the cleanup does not hold.
OwnMails ==
  \A c \in Chars :
    /\ \A m \in MailOf(calls[c]) :
         /\ m < nextId /\ (mails[m] = None \/ mails[m].to = c)
         /\ \A r \in ticker.mails : r.id # m
    /\ calls[c].at \in {"m_upd", "i_del", "i_cod", "i_upd"} => calls[c].row.to = c

\* Bags, mails and handlers hold the item once, or twice where it is moved; it
\* is taken by one handler at a time, from the only place where it is.
Placed(i) ==
  /\ \A c \in Chars : bags[c][i] >= 0 /\ bags[c][i] <= 1
  /\ \A c, d \in Chars : bags[c][i] > 0 /\ bags[d][i] > 0 => c = d
  /\ \A m, n \in MailIds : Attached(m, i) /\ Attached(n, i) => m = n
  /\ \A c, d \in Chars : Posts(calls[c], i) /\ Posts(calls[d], i) => c = d
  /\ \A c, d \in Chars : Posts(calls[d], i) => ~(bags[c][i] > 0)
  /\ \A d \in Chars, m \in MailIds : Posts(calls[d], i) => ~Attached(m, i)
  /\ \A c \in Chars, m \in MailIds :
       bags[c][i] > 0 /\ Attached(m, i) => Moves(calls[c], i) /\ m \in MailOf(calls[c])
  /\ \A c \in Chars : Claims(calls[c], i) =>
       /\ \A d \in Chars : ~(bags[d][i] > 0) /\ ~Posts(calls[d], i)
       /\ \A m \in MailIds : Attached(m, i) => m \in MailOf(calls[c])
  /\ \A c \in Chars : Moves(calls[c], i) => bags[c][i] > 0
  /\ \A c \in Chars : calls[c].at = "s_items" /\ i \in calls[c].items => bags[c][i] > 0
  /\ \A c, d \in Chars : (Claims(calls[c], i) \/ Moves(calls[c], i))
                         /\ (Claims(calls[d], i) \/ Moves(calls[d], i)) => c = d

UniqueInv == stale = {} => OwnMails /\ \A i \in Items \ half : Placed(i)

LEMMA MailOfParts ==
  ASSUME NEW k \in CallStates
  PROVE  /\ k.at \in {"idle", "s_items", "s_money", "s_send"} => MailOf(k) = {}
         /\ k.at \in {"i_pay", "i_add", "i_read", "d_read"} => MailOf(k) = {k.id}
         /\ k.at \in {"m_upd", "m_pay", "i_del", "i_cod", "i_upd", "d_items", "d_mail"} => MailOf(k) = {k.row.id}
         /\ MailOf(k) \subseteq MailIds
<1>1. ASSUME k.at \in {"idle", "s_items", "s_money", "s_send"} PROVE MailOf(k) = {}
  BY <1>1, CallParts DEF MailOf, SendCalls, Idle
<1>2. ASSUME k.at \in {"i_pay", "i_add", "i_read", "d_read"} PROVE MailOf(k) = {k.id} /\ k.id \in MailIds
  BY <1>2, CallParts DEF MailOf, TakeCalls, AskCalls
<1>3. ASSUME k.at \in {"m_upd", "m_pay", "i_del", "i_cod", "i_upd", "d_items", "d_mail"}
      PROVE  MailOf(k) = {k.row.id} /\ k.row.id \in MailIds
  <2>1. k \in MoneyCalls \cup RemoveCalls \cup DeleteCalls
    BY <1>3, CallParts
  <2>2. "id" \notin DOMAIN k /\ "row" \in DOMAIN k /\ k.row \in Rows
    BY <2>1 DEF MoneyCalls, RemoveCalls, DeleteCalls
  <2> QED
    BY <2>2 DEF MailOf, Rows
<1> QED
  BY <1>1, <1>2, <1>3, CallParts

\* A handler d that goes on without gaining item i: what it posted, claimed or
\* moved, it did before, and what it no longer moves has left the mails.
Eases(d, i) ==
  /\ Posts(calls'[d], i) => Posts(calls[d], i)
  /\ Claims(calls'[d], i) => Claims(calls[d], i) /\ MailOf(calls'[d]) = MailOf(calls[d])
  /\ Moves(calls'[d], i) => Moves(calls[d], i) /\ MailOf(calls'[d]) = MailOf(calls[d])
  /\ Moves(calls[d], i) /\ ~Moves(calls'[d], i) => \A m \in MailIds : ~Attached(m, i)'
  /\ calls'[d].at = "s_items" /\ i \in calls'[d].items => bags[d][i] > 0

LEMMA PlacedEases ==
  ASSUME NEW i \in Items, Placed(i), \A c \in Chars : bags'[c][i] = bags[c][i],
         \A m \in MailIds : Attached(m, i)' => Attached(m, i),
         \A d \in Chars : Eases(d, i)
  PROVE  Placed(i)'
<1> DEFINE Has(c) == bags[c][i] > 0
<1>1. /\ \A c \in Chars : bags'[c][i] >= 0 /\ bags'[c][i] <= 1
      /\ \A c, d \in Chars : bags'[c][i] > 0 /\ bags'[d][i] > 0 => c = d
  BY DEF Placed
<1>2. \A m, n \in MailIds : Attached(m, i)' /\ Attached(n, i)' => m = n
  BY DEF Placed
<1>3. /\ \A c, d \in Chars : Posts(calls'[c], i) /\ Posts(calls'[d], i) => c = d
      /\ \A c, d \in Chars : Posts(calls'[d], i) => ~(bags'[c][i] > 0)
      /\ \A d \in Chars, m \in MailIds : Posts(calls'[d], i) => ~Attached(m, i)'
  BY DEF Placed, Eases
<1>4. \A c \in Chars, m \in MailIds :
        bags'[c][i] > 0 /\ Attached(m, i)' => Moves(calls'[c], i) /\ m \in MailOf(calls'[c])
  BY DEF Placed, Eases
<1>5. \A c \in Chars : Claims(calls'[c], i) =>
        /\ \A d \in Chars : ~(bags'[d][i] > 0) /\ ~Posts(calls'[d], i)
        /\ \A m \in MailIds : Attached(m, i)' => m \in MailOf(calls'[c])
  BY DEF Placed, Eases
<1>6. /\ \A c \in Chars : Moves(calls'[c], i) => bags'[c][i] > 0
      /\ \A c \in Chars : calls'[c].at = "s_items" /\ i \in calls'[c].items => bags'[c][i] > 0
  BY DEF Placed, Eases
<1>7. \A c, d \in Chars : (Claims(calls'[c], i) \/ Moves(calls'[c], i))
                          /\ (Claims(calls'[d], i) \/ Moves(calls'[d], i)) => c = d
  BY DEF Placed, Eases
<1> QED
  BY <1>1, <1>2, <1>3, <1>4, <1>5, <1>6, <1>7 DEF Placed, Posts, Claims, Moves

\* A handler that stays as it is.
LEMMA SameEases ==
  ASSUME NEW i \in Items, Placed(i), NEW d \in Chars, calls'[d] = calls[d]
  PROVE  Eases(d, i)
BY DEF Eases, Placed

\* A handler that is done, or only has to do with money or the whole mail.
Plain(k) == k.at \in {"idle", "m_upd", "m_pay", "i_cod", "i_upd", "d_read", "d_items", "d_mail"}
LEMMA PlainEases ==
  ASSUME NEW i \in Items, NEW d \in Chars, Plain(calls'[d]),
         ~Moves(calls[d], i) \/ \A m \in MailIds : ~Attached(m, i)'
  PROVE  Eases(d, i)
BY DEF Eases, Plain, Posts, Claims, Moves

\* OwnMails after a step of c: its mail is the one it had, or it is its own.
NewOwn(c, m) == m < nextId /\ mails[m] # None /\ mails[m].to = c /\ \A r \in ticker.mails : r.id # m
ToKept(c) ==
  \A m \in MailIds : m # nextId /\ mails'[m] # None =>
    mails[m] # None /\ (mails'[m].to = mails[m].to \/ (m \in MailOf(calls[c]) /\ mails'[m].to = c))

LEMMA OwnKept ==
  ASSUME TypeOK, TypeOK', OwnMails, nextId' >= nextId, ticker' = ticker, NEW c \in Chars, ToKept(c),
         \A d \in Chars \ {c} : calls'[d] = calls[d],
         \A m \in MailOf(calls'[c]) : m \in MailOf(calls[c]) \/ NewOwn(c, m),
         calls'[c].at \in {"m_upd", "i_del", "i_cod", "i_upd"} => calls'[c].row.to = c
  PROVE  OwnMails'
<1>0. nextId \in Nat /\ nextId' \in Nat
  BY DEF TypeOK
<1>1. ASSUME NEW d \in Chars, NEW m \in MailOf(calls'[d])
      PROVE  /\ m < nextId' /\ (mails'[m] = None \/ mails'[m].to = d)
             /\ \A r \in ticker'.mails : r.id # m
  <2>1. m \in MailIds /\ m \in Int
    BY MailOfParts DEF TypeOK, MailIds
  <2>2. m < nextId /\ (mails[m] = None \/ mails[m].to = d) /\ \A r \in ticker.mails : r.id # m
    <3>1. CASE d = c
      BY <3>1 DEF OwnMails, NewOwn
    <3>2. CASE d # c
      BY <3>2 DEF OwnMails
    <3> QED
      BY <3>1, <3>2
  <2>3. ASSUME mails'[m] # None PROVE mails'[m].to = d
    <3>1. mails[m] # None /\ mails[m].to = d
      BY <1>0, <2>1, <2>2, <2>3 DEF ToKept
    <3>2. m \in MailOf(calls[c]) => mails[m].to = c
      BY <3>1 DEF OwnMails
    <3> QED
      BY <1>0, <2>1, <2>2, <2>3, <3>1, <3>2 DEF ToKept
  <2> QED
    BY <1>0, <2>1, <2>2, <2>3
<1>2. ASSUME NEW d \in Chars, calls'[d].at \in {"m_upd", "i_del", "i_cod", "i_upd"}
      PROVE  calls'[d].row.to = d
  BY <1>2 DEF OwnMails
<1> QED
  BY <1>1, <1>2 DEF OwnMails, MailOf

\* The step of one handler that puts no item anywhere.
LEMMA UniqueEases ==
  ASSUME TypeOK, TypeOK', OwnMails, nextId' >= nextId, UNCHANGED <<bags, ticker>>, NEW c \in Chars, ToKept(c),
         \A d \in Chars \ {c} : calls'[d] = calls[d],
         \A m \in MailOf(calls'[c]) : m \in MailOf(calls[c]) \/ NewOwn(c, m),
         calls'[c].at \in {"m_upd", "i_del", "i_cod", "i_upd"} => calls'[c].row.to = c,
         \A i \in Items \ half' : Placed(i) /\ Eases(c, i),
         \A i \in Items, m \in MailIds : Attached(m, i)' => Attached(m, i)
  PROVE  OwnMails' /\ \A i \in Items \ half' : Placed(i)'
<1>1. OwnMails'
  BY OwnKept
<1>2. ASSUME NEW i \in Items \ half' PROVE Placed(i)'
  <2>1. \A d \in Chars : Eases(d, i)
    BY SameEases
  <2> QED
    BY <2>1, PlacedEases
<1> QED
  BY <1>1, <1>2

LEMMA UniqueInit == Init => UniqueInv
<1> SUFFICES ASSUME Init PROVE UniqueInv
  OBVIOUS
<1>1. \A c \in Chars : calls[c] = Idle /\ calls[c].at = "idle"
  BY CallKinds DEF Init
<1>2. \A c \in Chars : MailOf(calls[c]) = {}
  BY <1>1, CallKinds, MailOfParts
<1>3. OwnMails
  BY <1>1, <1>2 DEF OwnMails
<1>4. ASSUME NEW i \in Items PROVE Placed(i)
  <2>1. \A c \in Chars : /\ bags[c][i] = IF FirstOwner[i] = c THEN 1 ELSE 0
                         /\ bags[c][i] > 0 <=> FirstOwner[i] = c
    BY DEF Init
  <2>2. \A m \in MailIds : ~Attached(m, i)
    BY DEF Init, Attached
  <2>3. \A c \in Chars : ~Posts(calls[c], i) /\ ~Claims(calls[c], i) /\ ~Moves(calls[c], i)
    BY <1>1 DEF Posts, Claims, Moves
  <2> QED
    BY <1>1, <2>1, <2>2, <2>3 DEF Placed
<1> QED
  BY <1>3, <1>4 DEF UniqueInv

\* The histories only grow.
LEMMA HistoryGrows ==
  ASSUME [Next]_vars
  PROVE  stale \subseteq stale' /\ half \subseteq half'
<1> USE DEF world, bounds, history, Starts, Quietly
<1>1. ASSUME NEW c \in Chars, Session(c) PROVE stale \subseteq stale' /\ half \subseteq half'
  <2>1. CASE SendChecked(c) \/ TakeMoneyReads(c) \/ TakeItemReads(c) \/ DeleteReads(c)
    BY <2>1 DEF SendChecked, TakeMoneyReads, TakeItemReads, DeleteReads
  <2>2. CASE SendTakesItems(c) \/ SendTakesMoney(c) \/ SendStores(c) \/ TakeMoneyEmpties(c)
    BY <2>2 DEF SendTakesItems, SendTakesMoney, SendStores, TakeMoneyEmpties
  <2>3. CASE TakeMoneyPays(c) \/ TakeItemPays(c) \/ TakeItemAdds(c) \/ RemoveMailItemReads(c)
    BY <2>3 DEF TakeMoneyPays, TakeItemPays, TakeItemAdds, RemoveMailItemReads
  <2>4. CASE RemoveMailItemDeletes(c) \/ RemoveMailItemSendsCod(c) \/ RemoveMailItemUpdates(c)
    BY <2>4 DEF RemoveMailItemDeletes, RemoveMailItemSendsCod, RemoveMailItemUpdates
  <2>5. CASE DeleteReadsAgain(c) \/ DeleteItems(c) \/ DeleteTheMail(c) \/ CallFails(c)
    BY <2>5 DEF DeleteReadsAgain, DeleteItems, DeleteTheMail, CallFails
  <2> QED
    BY <1>1, <2>1, <2>2, <2>3, <2>4, <2>5 DEF Session
<1>2. CASE Ticker
  BY <1>2 DEF Ticker, ExpiredMails, DeleteEmpty, ReturnOne, DeleteReturned, DeleteReturnedMails, TickerFails
<1>3. ASSUME NEW m \in MailIds, Expire(m) PROVE stale \subseteq stale' /\ half \subseteq half'
  BY <1>3 DEF Expire
<1> QED
  BY <1>1, <1>2, <1>3 DEF Next, vars

\* The steps of a handler that change neither mails nor bags, and start no taking.
LEMMA UniqueQuiet ==
  ASSUME TypeOK, TypeOK', LivesInv, OwnMails, \A i \in Items \ half : Placed(i), stale' = {}, NEW c \in Chars,
         half \subseteq half',
         \/ SendChecked(c) \/ SendTakesMoney(c) \/ TakeMoneyReads(c) \/ TakeMoneyPays(c)
         \/ TakeItemPays(c) \/ (TakeItemAdds(c) /\ bags' = bags)
         \/ RemoveMailItemReads(c) \/ DeleteReads(c) \/ DeleteReadsAgain(c) \/ CallFails(c)
  PROVE  OwnMails' /\ \A i \in Items \ half' : Placed(i)'
<1>0. UNCHANGED <<mails, ticker, nextId>> /\ nextId \in Nat
  BY TypeQuiet DEF TypeOK
<1>b. bags' = bags
  BY DEF SendChecked, SendTakesMoney, TakeMoneyReads, TakeMoneyPays, TakeItemPays, RemoveMailItemReads,
         DeleteReads, DeleteReadsAgain, CallFails, Starts, Quietly, world
<1>t. ToKept(c)
  BY <1>0 DEF ToKept
<1>a. \A i \in Items, m \in MailIds : Attached(m, i)' => Attached(m, i)
  BY <1>0 DEF Attached
<1>2. calls[c] \in CallStates /\ calls'[c] \in CallStates
  BY DEF TypeOK
<1>g. ASSUME NEW k, calls' = [calls EXCEPT ![c] = k]
      PROVE  calls'[c] = k /\ \A d \in Chars \ {c} : calls'[d] = calls[d]
  BY <1>g DEF TypeOK
<1>e. ASSUME \A d \in Chars \ {c} : calls'[d] = calls[d],
             \A m \in MailOf(calls'[c]) : m \in MailOf(calls[c]) \/ NewOwn(c, m),
             calls'[c].at \in {"m_upd", "i_del", "i_cod", "i_upd"} => calls'[c].row.to = c,
             \A i \in Items \ half' : Eases(c, i)
      PROVE  OwnMails' /\ \A i \in Items \ half' : Placed(i)'
  BY <1>0, <1>b, <1>t, <1>a, <1>e, UniqueEases
\* What starts on mail m of c.
<1>s. ASSUME NEW m \in MailIds, NEW k, mails[m] # None, mails[m].to = c, Starts(c, k, m) PROVE NewOwn(c, m)
  <2>1. m < nextId
    BY <1>s DEF LivesInv, RowLives, TypeOK
  <2>2. \A r \in ticker.mails : r.id # m
    BY <1>s DEF Starts
  <2> QED
    BY <1>s, <2>1, <2>2 DEF NewOwn
<1>i. ASSUME calls'[c] = Idle PROVE MailOf(calls'[c]) = {} /\ Plain(calls'[c]) /\ calls'[c].at = "idle"
  BY <1>i, CallKinds, MailOfParts DEF Plain
<1> USE DEF GoOn, At
<1>3. CASE SendChecked(c)
  <2>1. PICK to \in Chars, money \in Prices \cup {0}, cod \in Prices \cup {0}, items \in SUBSET Items :
          /\ \A i \in items : bags[c][i] > 0
          /\ calls' = [calls EXCEPT ![c] = [at |-> "s_items", to |-> to, money |-> money, cod |-> cod, items |-> items]]
          /\ calls[c] = Idle
    BY <1>3 DEF SendChecked, Starts
  <2>2. calls'[c].at = "s_items" /\ calls'[c].items = items /\ calls[c].at = "idle"
    BY <1>g, <2>1, CallKinds
  <2>3. MailOf(calls'[c]) = {}
    BY <1>2, <2>2, MailOfParts
  <2>4. \A i \in Items : Eases(c, i)
    BY <2>1, <2>2 DEF Eases, Posts, Claims, Moves
  <2> QED
    BY <1>e, <1>g, <2>1, <2>2, <2>3, <2>4
<1>4. CASE SendTakesMoney(c)
  <2>1. calls[c] \in SendCalls /\ calls[c].at = "s_money"
    BY <1>2, <1>4, CallParts DEF SendTakesMoney
  <2>2. /\ calls'[c].at = "s_send" /\ calls'[c].items = calls[c].items
        /\ \A d \in Chars \ {c} : calls'[d] = calls[d]
    <3>1. calls'[c] = [calls[c] EXCEPT !.at = "s_send"] /\ \A d \in Chars \ {c} : calls'[d] = calls[d]
      BY <1>4, <1>g DEF SendTakesMoney
    <3> QED
      BY <2>1, <3>1 DEF SendCalls
  <2>3. MailOf(calls'[c]) = {}
    BY <1>2, <2>2, MailOfParts
  <2>4. \A i \in Items : Eases(c, i)
    BY <2>1, <2>2 DEF Eases, Posts, Claims, Moves
  <2> QED
    BY <1>e, <2>2, <2>3, <2>4
<1>5. CASE TakeMoneyReads(c)
  <2>1. PICK m \in MailIds :
          /\ mails[m] # None /\ mails[m].to = c /\ Starts(c, [at |-> "m_upd", row |-> mails[m]], m)
    BY <1>5 DEF TakeMoneyReads
  <2>2. /\ calls'[c].at = "m_upd" /\ calls'[c].row = mails[m] /\ calls[c].at = "idle"
        /\ \A d \in Chars \ {c} : calls'[d] = calls[d]
    <3>1. calls[c] = Idle /\ calls' = [calls EXCEPT ![c] = [at |-> "m_upd", row |-> mails[m]]]
      BY <2>1 DEF Starts
    <3> QED
      BY <1>g, <3>1, CallKinds
  <2>3. MailOf(calls'[c]) = {m} /\ NewOwn(c, m)
    <3>1. mails[m].id = m
      BY <2>1 DEF TypeOK
    <3>2. MailOf(calls'[c]) = {m}
      BY <1>2, <2>2, <3>1, MailOfParts
    <3>3. NewOwn(c, m)
      BY <1>s, <2>1
    <3> QED
      BY <3>2, <3>3
  <2>4. \A i \in Items : Eases(c, i)
    BY <2>2, PlainEases DEF Plain, Moves
  <2> QED
    BY <1>e, <2>1, <2>2, <2>3, <2>4
<1>6. CASE TakeMoneyPays(c)
  <2>1. calls'[c] = Idle /\ calls[c].at = "m_pay" /\ \A d \in Chars \ {c} : calls'[d] = calls[d]
    BY <1>6, <1>g DEF TakeMoneyPays
  <2>2. \A i \in Items : Eases(c, i)
    BY <1>i, <2>1, PlainEases DEF Moves
  <2> QED
    BY <1>e, <1>i, <2>1, <2>2
<1>7. CASE TakeItemPays(c) \/ (TakeItemAdds(c) /\ bags' = bags)
  <2>1. calls[c] \in TakeCalls /\ calls[c].at \in {"i_pay", "i_add"} /\ MailOf(calls[c]) = {calls[c].id}
    BY <1>2, <1>7, CallParts, MailOfParts DEF TakeItemPays, TakeItemAdds
  <2>2. CASE calls'[c] = Idle /\ \A d \in Chars \ {c} : calls'[d] = calls[d]
    <3>1. \A i \in Items : Eases(c, i)
      BY <1>i, <2>1, <2>2, PlainEases DEF Moves
    <3> QED
      BY <1>e, <1>i, <2>2, <3>1
  <2>3. CASE calls' = [calls EXCEPT ![c] = [calls[c] EXCEPT !.at = "i_add"]]
    <3>1. /\ calls'[c].at = "i_add" /\ calls'[c].id = calls[c].id /\ calls'[c].item = calls[c].item
          /\ \A d \in Chars \ {c} : calls'[d] = calls[d]
      <4>1. calls'[c] = [calls[c] EXCEPT !.at = "i_add"] /\ \A d \in Chars \ {c} : calls'[d] = calls[d]
        BY <1>g, <2>3
      <4> QED
        BY <2>1, <4>1 DEF TakeCalls
    <3>2. MailOf(calls'[c]) = MailOf(calls[c])
      BY <1>2, <2>1, <3>1, MailOfParts
    <3>3. \A i \in Items : Eases(c, i)
      BY <2>1, <3>1, <3>2 DEF Eases, Posts, Claims, Moves
    <3> QED
      BY <1>e, <3>1, <3>2, <3>3
  <2>4. ASSUME TakeItemAdds(c), bags' = bags, ~(calls' = [calls EXCEPT ![c] = Idle]) PROVE FALSE
    <3>1. calls[c].item \in Items
      BY <2>1 DEF TakeCalls
    <3>2. bags' = [bags EXCEPT ![c][calls[c].item] = @ + 1]
      BY <2>4 DEF TakeItemAdds
    <3>3. bags'[c][calls[c].item] = bags[c][calls[c].item] + 1 /\ bags[c][calls[c].item] \in Int
      BY <3>1, <3>2 DEF TypeOK
    <3> QED
      BY <2>4, <3>3
  <2> QED
    BY <1>7, <1>g, <2>2, <2>3, <2>4 DEF TakeItemPays
<1>8. CASE RemoveMailItemReads(c)
  <2> DEFINE m == calls[c].id
             k == [at |-> "i_del", row |-> mails[m], item |-> calls[c].item, cod |-> calls[c].cod]
  <2>1. calls[c] \in TakeCalls /\ calls[c].at = "i_read" /\ MailOf(calls[c]) = {m} /\ m \in MailIds
    BY <1>2, <1>8, CallParts, MailOfParts DEF RemoveMailItemReads, TakeCalls
  <2>2. mails[m] = None \/ mails[m].to = c
    BY <2>1 DEF OwnMails
  <2>3. CASE mails[m] = None
    <3>1. calls'[c] = Idle /\ \A d \in Chars \ {c} : calls'[d] = calls[d]
      BY <1>8, <1>g, <2>3 DEF RemoveMailItemReads, Quietly
    <3>2. ASSUME NEW i \in Items \ half', Moves(calls[c], i), NEW n \in MailIds PROVE ~Attached(n, i)'
      <4>1. bags[c][i] > 0 /\ (Attached(n, i) => n = m)
        BY <2>1, <3>2 DEF Placed
      <4> QED
        BY <1>0, <2>3, <4>1 DEF Attached
    <3>3. \A i \in Items \ half' : Eases(c, i)
      BY <1>i, <3>1, <3>2, PlainEases
    <3> QED
      BY <1>e, <1>i, <3>1, <3>3
  <2>4. CASE mails[m] # None
    <3>1. calls' = [calls EXCEPT ![c] = k]
      BY <1>8, <2>2, <2>4 DEF RemoveMailItemReads, Quietly
    <3>2. /\ calls'[c].at = "i_del" /\ calls'[c].row = mails[m] /\ calls'[c].item = calls[c].item
          /\ \A d \in Chars \ {c} : calls'[d] = calls[d]
      <4>1. calls'[c] = k /\ \A d \in Chars \ {c} : calls'[d] = calls[d]
        BY <1>g, <3>1
      <4> QED
        BY <4>1
    <3>3. MailOf(calls'[c]) = MailOf(calls[c])
      <4>1. mails[m].id = m
        BY <2>1, <2>4 DEF TypeOK
      <4> QED
        BY <1>2, <2>1, <3>2, <4>1, MailOfParts
    <3>4. \A i \in Items : Eases(c, i)
      BY <2>1, <3>2, <3>3 DEF Eases, Posts, Claims, Moves
    <3> QED
      BY <1>e, <2>2, <2>4, <3>2, <3>3, <3>4
  <2> QED
    BY <2>3, <2>4
<1>9. CASE DeleteReads(c)
  <2>1. PICK m \in MailIds :
          /\ mails[m] # None /\ mails[m].to = c /\ Starts(c, [at |-> "d_read", id |-> m], m)
    BY <1>9 DEF DeleteReads
  <2>2. /\ calls'[c].at = "d_read" /\ calls'[c].id = m /\ calls[c].at = "idle"
        /\ \A d \in Chars \ {c} : calls'[d] = calls[d]
    <3>1. calls[c] = Idle /\ calls' = [calls EXCEPT ![c] = [at |-> "d_read", id |-> m]]
      BY <2>1 DEF Starts
    <3> QED
      BY <1>g, <3>1, CallKinds
  <2>3. MailOf(calls'[c]) = {m} /\ NewOwn(c, m)
    BY <1>2, <1>s, <2>1, <2>2, MailOfParts
  <2>4. \A i \in Items : Eases(c, i)
    BY <2>2, PlainEases DEF Plain, Moves
  <2> QED
    BY <1>e, <2>2, <2>3, <2>4
<1>10. CASE DeleteReadsAgain(c)
  <2> DEFINE m == calls[c].id
  <2>1. calls[c] \in AskCalls /\ calls[c].at = "d_read" /\ MailOf(calls[c]) = {m} /\ m \in MailIds
    BY <1>2, <1>10, CallParts, MailOfParts DEF DeleteReadsAgain, AskCalls
  <2>2. CASE mails[m] = None
    <3>1. calls'[c] = Idle /\ \A d \in Chars \ {c} : calls'[d] = calls[d]
      BY <1>10, <1>g, <2>2 DEF DeleteReadsAgain, Quietly
    <3>2. \A i \in Items : Eases(c, i)
      BY <1>i, <2>1, <3>1, PlainEases DEF Moves
    <3> QED
      BY <1>e, <1>i, <3>1, <3>2
  <2>3. CASE mails[m] # None
    <3>1. /\ calls'[c].at = "d_items" /\ calls'[c].row = mails[m]
          /\ \A d \in Chars \ {c} : calls'[d] = calls[d]
      <4>1. calls'[c] = [at |-> "d_items", row |-> mails[m]] /\ \A d \in Chars \ {c} : calls'[d] = calls[d]
        BY <1>10, <1>g, <2>3 DEF DeleteReadsAgain, Quietly
      <4> QED
        BY <4>1
    <3>2. MailOf(calls'[c]) = {m}
      <4>1. mails[m].id = m
        BY <2>1, <2>3 DEF TypeOK
      <4> QED
        BY <1>2, <3>1, <4>1, MailOfParts
    <3>3. \A i \in Items : Eases(c, i)
      BY <2>1, <3>1, PlainEases DEF Plain, Moves
    <3> QED
      BY <1>e, <2>1, <3>1, <3>2, <3>3
  <2> QED
    BY <2>2, <2>3
<1>11. CASE CallFails(c)
  <2>1. calls'[c] = Idle /\ \A d \in Chars \ {c} : calls'[d] = calls[d]
    BY <1>11, <1>g DEF CallFails
  <2>2. \A i \in Items : Moves(calls[c], i) => i \in half'
    BY <1>11 DEF CallFails, Handed, Moves
  <2>3. \A i \in Items \ half' : Eases(c, i)
    BY <1>i, <2>1, <2>2, PlainEases
  <2> QED
    BY <1>e, <1>i, <2>1, <2>3
<1> QED
  BY <1>3, <1>4, <1>5, <1>6, <1>7, <1>8, <1>9, <1>10, <1>11

\* How the writes treat receivers and attachments.
NothingAttached == \A i \in Items, m \in MailIds : Attached(m, i)' => Attached(m, i)

LEMMA PrunedOwn ==
  ASSUME TypeOK, NEW c \in Chars, mails' = [m \in MailIds |-> mails'[m]],
         \A m \in MailIds : PrunedTo(m, mails'[m])
  PROVE  ToKept(c) /\ NothingAttached
<1>1. \A m \in MailIds : mails'[m] # None =>
        mails[m] # None /\ mails'[m].to = mails[m].to /\ mails'[m].items \subseteq mails[m].items
  BY PrunedEffect
<1> QED
  BY <1>1 DEF ToKept, NothingAttached, Attached

LEMMA UpdateOwn ==
  ASSUME TypeOK, NEW c \in Chars, NEW row \in Rows, row.to = c, row.id \in MailOf(calls[c]),
         mails' = UpdateMail(row)
  PROVE  ToKept(c) /\ NothingAttached
<1>1. \A m \in MailIds :
        /\ m # row.id \/ mails[m] = None => mails'[m] = mails[m]
        /\ m = row.id /\ mails[m] # None => mails'[m].to = c /\ mails'[m].items = mails[m].items
  BY UpdateMailEffect
<1> QED
  BY <1>1 DEF ToKept, NothingAttached, Attached

LEMMA SameOwn ==
  ASSUME NEW c \in Chars, mails' = mails
  PROVE  ToKept(c) /\ NothingAttached
BY DEF ToKept, NothingAttached, Attached

\* The steps of a handler that write to the mails and attach nothing.
LEMMA UniqueWrites ==
  ASSUME TypeOK, TypeOK', OwnMails, \A i \in Items \ half : Placed(i), NEW c \in Chars, half \subseteq half',
         \/ TakeMoneyEmpties(c) \/ RemoveMailItemDeletes(c)
         \/ RemoveMailItemSendsCod(c) \/ RemoveMailItemUpdates(c) \/ DeleteItems(c) \/ DeleteTheMail(c)
  PROVE  OwnMails' /\ \A i \in Items \ half' : Placed(i)'
<1>0. UNCHANGED <<bags, ticker>> /\ nextId \in Nat
  BY TypeWrites DEF TypeOK
<1>2. calls[c] \in CallStates /\ calls'[c] \in CallStates
  BY DEF TypeOK
<1>g. ASSUME NEW k, calls' = [calls EXCEPT ![c] = k]
      PROVE  calls'[c] = k /\ \A d \in Chars \ {c} : calls'[d] = calls[d]
  BY <1>g DEF TypeOK
<1>e. ASSUME nextId' >= nextId, \A d \in Chars \ {c} : calls'[d] = calls[d],
             \A m \in MailOf(calls'[c]) : m \in MailOf(calls[c]),
             calls'[c].at \in {"m_upd", "i_del", "i_cod", "i_upd"} => calls'[c].row.to = c,
             \A i \in Items \ half' : Eases(c, i), ToKept(c), NothingAttached
      PROVE  OwnMails' /\ \A i \in Items \ half' : Placed(i)'
  BY <1>0, <1>e, UniqueEases DEF NothingAttached
<1>i. ASSUME calls'[c] = Idle PROVE MailOf(calls'[c]) = {} /\ Plain(calls'[c]) /\ calls'[c].at = "idle"
  BY <1>i, CallKinds, MailOfParts DEF Plain
<1> USE DEF GoOn, At
<1>3. CASE TakeMoneyEmpties(c)
  <2> DEFINE row == [calls[c].row EXCEPT !.money = 0]
  <2>1. calls[c].row \in Rows /\ mails' = UpdateMail(row) /\ calls[c].at = "m_upd" /\ nextId' = nextId
    BY <1>3, HandlerWrites DEF TakeMoneyEmpties
  <2>2. calls[c].row.to = c /\ MailOf(calls[c]) = {calls[c].row.id}
    BY <1>2, <2>1, MailOfParts DEF OwnMails
  <2>3. row \in Rows /\ row.to = c /\ row.id = calls[c].row.id
    BY <2>1, <2>2, WithMoney
  <2> HIDE DEF row
  <2>4. ToKept(c) /\ NothingAttached
    BY <2>1, <2>2, <2>3, UpdateOwn
  <2>5. /\ calls'[c] \in {Idle, [at |-> "m_pay", row |-> calls[c].row]}
        /\ \A d \in Chars \ {c} : calls'[d] = calls[d]
    BY <1>3, <1>g DEF TakeMoneyEmpties
  <2>6. Plain(calls'[c]) /\ calls'[c].at \in {"idle", "m_pay"}
    BY <1>i, <2>5 DEF Plain
  <2>7. \A m \in MailOf(calls'[c]) : m \in MailOf(calls[c])
    <3>1. CASE calls'[c] = Idle
      BY <1>i, <3>1
    <3>2. CASE calls'[c] = [at |-> "m_pay", row |-> calls[c].row]
      BY <1>2, <2>2, <3>2, MailOfParts
    <3> QED
      BY <2>5, <3>1, <3>2
  <2>8. \A i \in Items : Eases(c, i)
    BY <2>1, <2>6, PlainEases DEF Moves
  <2> QED
    BY <1>0, <1>e, <2>1, <2>4, <2>5, <2>6, <2>7, <2>8
<1>4. CASE RemoveMailItemDeletes(c)
  <2> DEFINE m == calls[c].row.id
  <2>1. /\ calls[c] \in RemoveCalls /\ calls[c].at = "i_del" /\ m \in MailIds /\ nextId' = nextId
        /\ MailOf(calls[c]) = {m}
    BY <1>2, <1>4, HandlerWrites, MailOfParts DEF RemoveMailItemDeletes
  <2>2. ToKept(c) /\ NothingAttached
    BY <1>4, HandlerWrites, PrunedOwn
  <2>3. mails'[m] = None \/ calls[c].item \notin mails'[m].items
    <3>1. CASE mails[m] # None /\ calls[c].item \in mails[m].items
      <4>1. mails' = [mails EXCEPT ![m].items = @ \ {calls[c].item}]
        BY <1>4, <3>1 DEF RemoveMailItemDeletes
      <4>2. mails[m] \in Rows
        BY <2>1, <3>1 DEF TypeOK
      <4>3. mails'[m] = [mails[m] EXCEPT !.items = mails[m].items \ {calls[c].item}]
        BY <2>1, <4>1 DEF TypeOK
      <4>4. mails'[m].items = mails[m].items \ {calls[c].item}
        BY <4>2, <4>3 DEF Rows
      <4> QED
        BY <4>4
    <3>2. CASE ~(mails[m] # None /\ calls[c].item \in mails[m].items)
      BY <1>4, <3>2 DEF RemoveMailItemDeletes
    <3> QED
      BY <3>1, <3>2
  <2>4. ASSUME NEW i \in Items \ half', Moves(calls[c], i), NEW n \in MailIds PROVE ~Attached(n, i)'
    <3>1. bags[c][i] > 0 /\ (Attached(n, i) => n = m)
      BY <2>1, <2>4 DEF Placed
    <3>2. i = calls[c].item /\ (Attached(n, i)' => Attached(n, i))
      BY <2>2, <2>4 DEF Moves, NothingAttached
    <3> QED
      BY <2>3, <3>1, <3>2 DEF Attached
  <2>5. /\ calls'[c] \in {Idle, [calls[c] EXCEPT !.at = "i_cod"]}
        /\ \A d \in Chars \ {c} : calls'[d] = calls[d]
    BY <1>4, <1>g DEF RemoveMailItemDeletes
  <2>6. ASSUME calls'[c] = [calls[c] EXCEPT !.at = "i_cod"]
        PROVE  calls'[c].at = "i_cod" /\ calls'[c].row = calls[c].row /\ Plain(calls'[c])
    BY <2>1, <2>6 DEF RemoveCalls, Plain
  <2>7. Plain(calls'[c])
    BY <1>i, <2>5, <2>6
  <2>8. \A i \in Items \ half' : Eases(c, i)
    BY <2>4, <2>7, PlainEases
  <2>9. CASE calls'[c] = Idle
    BY <1>0, <1>e, <1>i, <2>1, <2>2, <2>5, <2>8, <2>9
  <2>10. CASE calls'[c] = [calls[c] EXCEPT !.at = "i_cod"]
    <3>1. MailOf(calls'[c]) = MailOf(calls[c])
      BY <1>2, <2>1, <2>6, <2>10, MailOfParts
    <3>2. calls'[c].row.to = c
      BY <2>1, <2>6, <2>10 DEF OwnMails
    <3> QED
      BY <1>0, <1>e, <2>1, <2>2, <2>5, <2>8, <3>1, <3>2
  <2> QED
    BY <2>5, <2>9, <2>10
<1>5. CASE RemoveMailItemSendsCod(c)
  <2>1. /\ calls[c] \in RemoveCalls /\ calls[c].row \in Rows /\ calls[c].at = "i_cod"
        /\ \/ AddMail(calls[c].row.to, calls[c].row.from, calls[c].row.cod, 0, {})
           \/ UNCHANGED <<mails, nextId>>
        /\ calls' = [calls EXCEPT ![c] = [calls[c] EXCEPT !.at = "i_upd"]]
    BY <1>5, HandlerWrites DEF RemoveMailItemSendsCod
  <2>2. calls[c].row.to \in Chars /\ calls[c].row.from \in Chars /\ calls[c].row.cod \in Nat
    BY <2>1 DEF Rows
  <2>3. ToKept(c) /\ NothingAttached /\ nextId' >= nextId
    <3>1. CASE UNCHANGED <<mails, nextId>>
      BY <1>0, <3>1, SameOwn
    <3>2. CASE AddMail(calls[c].row.to, calls[c].row.from, calls[c].row.cod, 0, {})
      <4>1. /\ nextId' = nextId + 1 /\ mails'[nextId].items = {}
            /\ \A m \in MailIds : m # nextId => mails'[m] = mails[m]
        BY <2>2, <3>2, AddMailEffect
      <4> QED
        BY <1>0, <4>1 DEF ToKept, NothingAttached, Attached
    <3> QED
      BY <2>1, <3>1, <3>2
  <2>4. /\ calls'[c].at = "i_upd" /\ calls'[c].row = calls[c].row /\ Plain(calls'[c])
        /\ \A d \in Chars \ {c} : calls'[d] = calls[d]
    <3>1. calls'[c] = [calls[c] EXCEPT !.at = "i_upd"] /\ \A d \in Chars \ {c} : calls'[d] = calls[d]
      BY <1>g, <2>1
    <3> QED
      BY <2>1, <3>1 DEF RemoveCalls, Plain
  <2>5. MailOf(calls'[c]) = MailOf(calls[c])
    BY <1>2, <2>1, <2>4, MailOfParts
  <2>6. calls'[c].row.to = c
    BY <2>1, <2>4 DEF OwnMails
  <2>7. \A i \in Items : Eases(c, i)
    BY <2>1, <2>4, PlainEases DEF Moves
  <2> QED
    BY <1>e, <2>3, <2>4, <2>5, <2>6, <2>7
<1>6. CASE RemoveMailItemUpdates(c)
  <2>1. /\ calls[c] \in RemoveCalls /\ calls[c].row \in Rows /\ calls[c].at = "i_upd" /\ nextId' = nextId
        /\ \/ mails' = UpdateMail([calls[c].row EXCEPT !.cod = 0])
           \/ mails' = UpdateMail(calls[c].row)
           \/ mails' = mails
        /\ calls' = [calls EXCEPT ![c] = Idle]
    BY <1>6, HandlerWrites DEF RemoveMailItemUpdates
  <2>2. calls[c].row.to = c /\ calls[c].row.id \in MailOf(calls[c])
    BY <1>2, <2>1, MailOfParts DEF OwnMails
  <2>3. LET row == [calls[c].row EXCEPT !.cod = 0]
        IN  row \in Rows /\ row.to = c /\ row.id \in MailOf(calls[c])
    BY <2>1, <2>2, WithCod
  <2>4. ToKept(c) /\ NothingAttached
    BY <2>1, <2>2, <2>3, UpdateOwn, SameOwn
  <2>5. calls'[c] = Idle /\ \A d \in Chars \ {c} : calls'[d] = calls[d]
    BY <1>g, <2>1
  <2>6. \A i \in Items : Eases(c, i)
    BY <1>i, <2>1, <2>5, PlainEases DEF Moves
  <2> QED
    BY <1>0, <1>e, <1>i, <2>1, <2>4, <2>5, <2>6
<1>7. CASE DeleteItems(c)
  <2>1. calls[c] \in DeleteCalls /\ calls[c].at = "d_items" /\ nextId' = nextId
    BY <1>7, HandlerWrites DEF DeleteItems
  <2>2. ToKept(c) /\ NothingAttached
    BY <1>7, HandlerWrites, PrunedOwn
  <2>3. /\ calls'[c].at = "d_mail" /\ calls'[c].row = calls[c].row /\ Plain(calls'[c])
        /\ \A d \in Chars \ {c} : calls'[d] = calls[d]
    <3> DEFINE k == [calls[c] EXCEPT !.at = "d_mail"]
    <3>1. calls' = [calls EXCEPT ![c] = k]
      BY <1>7 DEF DeleteItems, GoOn
    <3>2. k.at = "d_mail" /\ k.row = calls[c].row
      BY <2>1 DEF DeleteCalls
    <3> HIDE DEF k
    <3>3. calls'[c] = k /\ \A d \in Chars \ {c} : calls'[d] = calls[d]
      BY <1>g, <3>1
    <3> QED
      BY <3>2, <3>3 DEF Plain
  <2>4. MailOf(calls'[c]) = MailOf(calls[c])
    BY <1>2, <2>1, <2>3, MailOfParts
  <2>5. \A i \in Items : Eases(c, i)
    BY <2>1, <2>3, PlainEases DEF Moves
  <2> QED
    BY <1>0, <1>e, <2>1, <2>2, <2>3, <2>4, <2>5
<1>8. CASE DeleteTheMail(c)
  <2>1. calls'[c] = Idle /\ calls[c].at = "d_mail" /\ nextId' = nextId /\ \A d \in Chars \ {c} : calls'[d] = calls[d]
    BY <1>8, <1>g DEF DeleteTheMail
  <2>2. ToKept(c) /\ NothingAttached
    BY <1>8, HandlerWrites, PrunedOwn
  <2>3. \A i \in Items : Eases(c, i)
    BY <1>i, <2>1, PlainEases DEF Moves
  <2> QED
    BY <1>0, <1>e, <1>i, <2>1, <2>2, <2>3
<1> QED
  BY <1>3, <1>4, <1>5, <1>6, <1>7, <1>8

\* HandleSendMail takes the items out of the bags ...
LEMMA UniqueSendTakesItems ==
  ASSUME TypeOK, TypeOK', OwnMails, \A i \in Items \ half : Placed(i), NEW c \in Chars, half \subseteq half',
         SendTakesItems(c)
  PROVE  OwnMails' /\ \A i \in Items \ half' : Placed(i)'
<1>0. UNCHANGED <<mails, ticker, nextId>> /\ nextId \in Nat
  BY TypeQuiet DEF TypeOK
<1>1. calls[c] \in SendCalls /\ calls[c].at = "s_items" /\ calls[c].items \in SUBSET Items
  BY CallParts DEF SendTakesItems, At, TypeOK, SendCalls
<1>2. /\ calls'[c].at = "s_money" /\ calls'[c].items = calls[c].items /\ calls'[c] \in CallStates
      /\ \A d \in Chars \ {c} : calls'[d] = calls[d]
  BY <1>1 DEF SendTakesItems, GoOn, TypeOK, SendCalls
<1>3. MailOf(calls'[c]) = {}
  BY <1>2, MailOfParts
<1>4. OwnMails'
  BY <1>0, <1>2, <1>3, OwnKept, SameOwn
<1>5. ASSUME NEW i \in Items \ half' PROVE Placed(i)'
  <2>0. Placed(i) /\ i \in Items
    OBVIOUS
  <2>a. \A m \in MailIds : Attached(m, i)' <=> Attached(m, i)
    BY <1>0 DEF Attached
  <2>b. /\ \A d \in Chars \ {c} : bags'[d][i] = bags[d][i]
        /\ bags'[c][i] = IF i \in calls[c].items THEN bags[c][i] - 1 ELSE bags[c][i]
        /\ \A d \in Chars : bags[d][i] \in Int
    BY DEF SendTakesItems, TypeOK
  <2>1. CASE i \notin calls[c].items
    <3>1. \A d \in Chars : bags'[d][i] = bags[d][i]
      BY <2>1, <2>b
    <3>2. Eases(c, i)
      BY <1>1, <1>2, <2>1 DEF Eases, Posts, Claims, Moves
    <3>3. \A d \in Chars : Eases(d, i)
      BY <1>2, <2>0, <3>2, SameEases
    <3> QED
      BY <2>0, <2>a, <3>1, <3>3, PlacedEases
  <2>2. CASE i \in calls[c].items
    <3>1. bags[c][i] = 1 /\ \A d \in Chars \ {c} : bags[d][i] = 0
      BY <1>1, <2>0, <2>2, <2>b DEF Placed
    <3>2. \A d \in Chars : bags'[d][i] = 0
      BY <2>2, <2>b, <3>1
    <3>3. /\ \A d \in Chars : ~Posts(calls[d], i) /\ ~Claims(calls[d], i)
          /\ \A d \in Chars : Moves(calls[d], i) => d = c
          /\ \A d \in Chars : calls[d].at = "s_items" /\ i \in calls[d].items => d = c
      BY <2>0, <3>1 DEF Placed
    <3>4. ~Moves(calls[c], i) /\ ~Moves(calls'[c], i) /\ ~Claims(calls'[c], i)
      BY <1>1, <1>2 DEF Moves, Claims
    <3>5. \A m \in MailIds : ~Attached(m, i)'
      BY <2>0, <2>a, <3>1, <3>4 DEF Placed
    <3>6. \A d \in Chars : /\ Posts(calls'[d], i) => d = c
                           /\ ~Claims(calls'[d], i) /\ ~Moves(calls'[d], i)
                           /\ ~(calls'[d].at = "s_items" /\ i \in calls'[d].items)
      BY <1>2, <3>3, <3>4
    <3> HIDE DEF SendCalls
    <3> QED
      BY <3>2, <3>5, <3>6 DEF Placed, Posts, Claims, Moves
  <2> QED
    BY <2>1, <2>2
<1> QED
  BY <1>4, <1>5

\* ... and stores them with the mail.
LEMMA UniqueSendStores ==
  ASSUME TypeOK, TypeOK', LivesInv, OwnMails, \A i \in Items \ half : Placed(i), NEW c \in Chars,
         half \subseteq half', SendStores(c)
  PROVE  OwnMails' /\ \A i \in Items \ half' : Placed(i)'
<1>0. UNCHANGED <<bags, ticker>> /\ nextId \in Nat
  BY TypeWrites DEF TypeOK
<1>1. /\ calls[c] \in SendCalls /\ calls[c].at = "s_send" /\ calls' = [calls EXCEPT ![c] = Idle]
      /\ AddMail(c, calls[c].to, calls[c].money, calls[c].cod, calls[c].items)
  BY HandlerWrites DEF SendStores, At
<1>2. calls'[c] = Idle /\ calls'[c].at = "idle" /\ MailOf(calls'[c]) = {} /\ \A d \in Chars \ {c} : calls'[d] = calls[d]
  BY <1>1, CallKinds, MailOfParts DEF TypeOK
<1>3. /\ nextId \in MailIds /\ nextId' = nextId + 1 /\ mails'[nextId] # None
      /\ mails'[nextId].items = calls[c].items
      /\ \A m \in MailIds : m # nextId => mails'[m] = mails[m]
  <2>1. /\ calls[c].to \in Chars /\ calls[c].money \in Nat /\ calls[c].cod \in Nat
        /\ calls[c].items \in SUBSET Items
    BY <1>1 DEF SendCalls
  <2> QED
    BY <1>1, <2>1, AddMailEffect, MailAssumption
<1>4. mails[nextId] = None
  BY <1>0, <1>3 DEF LivesInv, RowLives, TypeOK
<1>5. OwnMails'
  <2>1. ToKept(c)
    BY <1>3 DEF ToKept
  <2> QED
    BY <1>0, <1>2, <1>3, <2>1, OwnKept
<1>6. ASSUME NEW i \in Items \ half' PROVE Placed(i)'
  <2>0. Placed(i) /\ i \in Items
    OBVIOUS
  <2>1. CASE i \notin calls[c].items
    <3>1. \A m \in MailIds : Attached(m, i)' => Attached(m, i)
      BY <1>3, <2>1 DEF Attached
    <3>2. Eases(c, i)
      BY <1>1, <1>2, PlainEases DEF Plain, Moves
    <3>3. \A d \in Chars : Eases(d, i)
      BY <1>2, <2>0, <3>2, SameEases
    <3> QED
      BY <1>0, <2>0, <3>1, <3>3, PlacedEases
  <2>2. CASE i \in calls[c].items
    <3>0. Posts(calls[c], i)
      BY <1>1, <2>2 DEF Posts
    <3>1. \A d \in Chars : ~(bags'[d][i] > 0) /\ bags'[d][i] >= 0 /\ bags'[d][i] <= 1
      BY <1>0, <2>0, <3>0 DEF Placed
    <3>2. \A m \in MailIds : Attached(m, i)' => m = nextId
      BY <1>3, <2>0, <3>0 DEF Placed, Attached
    <3>3. \A d \in Chars \ {c} : /\ ~Posts(calls[d], i) /\ ~Claims(calls[d], i) /\ ~Moves(calls[d], i)
                                 /\ ~(calls[d].at = "s_items" /\ i \in calls[d].items)
      BY <2>0, <3>0 DEF Placed
    <3>4. \A d \in Chars : /\ ~Posts(calls'[d], i) /\ ~Claims(calls'[d], i) /\ ~Moves(calls'[d], i)
                           /\ ~(calls'[d].at = "s_items" /\ i \in calls'[d].items)
      BY <1>2, <3>3 DEF Posts, Claims, Moves
    <3> QED
      BY <3>1, <3>2, <3>4 DEF Placed, Posts, Claims, Moves
  <2> QED
    BY <2>1, <2>2
<1> QED
  BY <1>5, <1>6

\* HandleMailTakeItem reads a mail with an item of its own ...
LEMMA UniqueTakeItemReads ==
  ASSUME TypeOK, TypeOK', LivesInv, OwnMails, \A i \in Items \ half : Placed(i), stale' = {}, NEW c \in Chars,
         half \subseteq half', TakeItemReads(c)
  PROVE  OwnMails' /\ \A i \in Items \ half' : Placed(i)'
<1>0. UNCHANGED <<mails, ticker, nextId>> /\ nextId \in Nat
  BY TypeQuiet DEF TypeOK
<1>1. PICK m \in MailIds, j \in Items :
        /\ mails[m] # None /\ mails[m].to = c /\ j \in mails[m].items
        /\ Starts(c, [at |-> "i_pay", id |-> m, item |-> j, cod |-> mails[m].cod], m)
  BY DEF TakeItemReads
<1>2. /\ calls[c] = Idle /\ calls[c].at = "idle" /\ bags' = bags
      /\ calls' = [calls EXCEPT ![c] = [at |-> "i_pay", id |-> m, item |-> j, cod |-> mails[m].cod]]
      /\ \A r \in ticker.mails : r.id # m
  BY <1>1, CallKinds DEF Starts, GoOn, world
<1>3. /\ calls'[c].at = "i_pay" /\ calls'[c].id = m /\ calls'[c].item = j /\ calls'[c] \in CallStates
      /\ \A d \in Chars \ {c} : calls'[d] = calls[d]
  BY <1>2 DEF TypeOK
<1>4. MailOf(calls'[c]) = {m} /\ MailOf(calls[c]) = {} /\ NewOwn(c, m)
  <2>1. m < nextId
    BY <1>1 DEF LivesInv, RowLives, TypeOK
  <2> QED
    BY <1>1, <1>2, <1>3, <2>1, CallKinds, MailOfParts DEF NewOwn
<1>5. OwnMails'
  BY <1>0, <1>3, <1>4, OwnKept, SameOwn
\* Nobody else works on a mail of c.
<1>6. \A d \in Chars : m \notin MailOf(calls[d])
  BY <1>1, <1>4 DEF OwnMails
<1>7. ASSUME NEW i \in Items \ half' PROVE Placed(i)'
  <2>0. Placed(i) /\ i \in Items
    OBVIOUS
  <2>a. \A n \in MailIds : Attached(n, i)' <=> Attached(n, i)
    BY <1>0 DEF Attached
  <2>1. CASE i # j
    <3>1. Eases(c, i)
      BY <1>2, <1>3, <2>1 DEF Eases, Posts, Claims, Moves
    <3>2. \A d \in Chars : Eases(d, i)
      BY <1>3, <2>0, <3>1, SameEases
    <3> QED
      BY <1>2, <2>0, <2>a, <3>2, PlacedEases
  <2>2. CASE i = j
    <3>0. Attached(m, i)
      BY <1>1, <2>2 DEF Attached
    <3>1. \A d \in Chars : ~(bags[d][i] > 0)
      BY <1>6, <2>0, <3>0 DEF Placed
    <3>2. \A d \in Chars : ~Posts(calls[d], i) /\ ~Claims(calls[d], i) /\ ~Moves(calls[d], i)
      BY <1>6, <2>0, <3>0, <3>1 DEF Placed
    <3>3. \A n \in MailIds : Attached(n, i)' => n = m
      BY <2>0, <2>a, <3>0 DEF Placed
    <3>4. \A d \in Chars : ~(calls[d].at = "s_items" /\ i \in calls[d].items)
      BY <2>0, <3>1 DEF Placed
    <3>5. /\ \A d \in Chars : ~Posts(calls'[d], i) /\ ~Moves(calls'[d], i) /\ (Claims(calls'[d], i) => d = c)
          /\ \A d \in Chars : ~(calls'[d].at = "s_items" /\ i \in calls'[d].items)
      BY <1>3, <3>2, <3>4 DEF Posts, Claims, Moves
    <3>6. \A d \in Chars : bags'[d][i] >= 0 /\ bags'[d][i] <= 1 /\ ~(bags'[d][i] > 0)
      BY <1>2, <2>0, <3>1 DEF Placed
    <3> QED
      BY <1>4, <3>3, <3>5, <3>6 DEF Placed, Posts, Claims, Moves
  <2> QED
    BY <2>1, <2>2
<1> QED
  BY <1>5, <1>7

\* ... and puts the item into the bags.
LEMMA UniqueTakeItemAdds ==
  ASSUME TypeOK, TypeOK', OwnMails, \A i \in Items \ half : Placed(i), NEW c \in Chars, half \subseteq half',
         TakeItemAdds(c), bags' # bags
  PROVE  OwnMails' /\ \A i \in Items \ half' : Placed(i)'
<1>0. UNCHANGED <<mails, ticker, nextId>> /\ nextId \in Nat
  BY TypeQuiet DEF TypeOK
<1>1. calls[c] \in TakeCalls /\ calls[c].at = "i_add" /\ calls[c].item \in Items
  BY CallParts DEF TakeItemAdds, At, TypeOK, TakeCalls
<1>2. /\ bags' = [bags EXCEPT ![c][calls[c].item] = @ + 1]
      /\ calls' = [calls EXCEPT ![c] = [calls[c] EXCEPT !.at = "i_read"]]
  BY DEF TakeItemAdds, GoOn
<1>3. /\ calls'[c].at = "i_read" /\ calls'[c].id = calls[c].id /\ calls'[c].item = calls[c].item
      /\ calls'[c] \in CallStates /\ \A d \in Chars \ {c} : calls'[d] = calls[d]
  BY <1>1, <1>2 DEF TypeOK, TakeCalls
<1>4. MailOf(calls'[c]) = MailOf(calls[c])
  <2>1. calls[c] \in CallStates
    BY DEF TypeOK
  <2>2. MailOf(calls[c]) = {calls[c].id}
    BY <1>1, <2>1, MailOfParts
  <2>3. MailOf(calls'[c]) = {calls'[c].id}
    BY <1>3, MailOfParts
  <2> QED
    BY <1>3, <2>2, <2>3
<1>5. OwnMails'
  BY <1>0, <1>3, <1>4, OwnKept, SameOwn
<1>6. ASSUME NEW i \in Items \ half' PROVE Placed(i)'
  <2>0. Placed(i) /\ i \in Items
    OBVIOUS
  <2>a. \A n \in MailIds : Attached(n, i)' <=> Attached(n, i)
    BY <1>0 DEF Attached
  <2>b. /\ \A d \in Chars \ {c} : bags'[d][i] = bags[d][i]
        /\ bags'[c][i] = IF i = calls[c].item THEN bags[c][i] + 1 ELSE bags[c][i]
        /\ \A d \in Chars : bags[d][i] \in Int
    BY <1>1, <1>2 DEF TypeOK
  <2>1. CASE i # calls[c].item
    <3>1. Eases(c, i)
      BY <1>1, <1>3, <2>1 DEF Eases, Posts, Claims, Moves
    <3>2. \A d \in Chars : Eases(d, i)
      BY <1>3, <2>0, <3>1, SameEases
    <3>3. \A d \in Chars : bags'[d][i] = bags[d][i]
      BY <2>1, <2>b
    <3> QED
      BY <2>0, <2>a, <3>2, <3>3, PlacedEases
  <2>2. CASE i = calls[c].item
    <3>0. Claims(calls[c], i)
      BY <1>1, <2>2 DEF Claims
    <3>1. /\ \A d \in Chars : bags[d][i] = 0 /\ ~Posts(calls[d], i)
          /\ \A n \in MailIds : Attached(n, i) => n \in MailOf(calls[c])
          /\ \A d \in Chars \ {c} : ~Claims(calls[d], i) /\ ~Moves(calls[d], i)
          /\ \A d \in Chars : ~(calls[d].at = "s_items" /\ i \in calls[d].items)
      <4>1. \A d \in Chars : bags[d][i] = 0
        BY <2>0, <2>b, <3>0 DEF Placed
      <4> QED
        BY <2>0, <3>0, <4>1 DEF Placed
    <3>2. bags'[c][i] = 1 /\ \A d \in Chars \ {c} : bags'[d][i] = 0
      BY <2>2, <2>b, <3>1
    <3>3. Moves(calls'[c], i) /\ ~Claims(calls'[c], i) /\ ~Posts(calls'[c], i) /\ calls'[c].at # "s_items"
      BY <1>3, <2>2 DEF Moves, Claims, Posts
    <3>4. \A d \in Chars : /\ ~Posts(calls'[d], i) /\ ~Claims(calls'[d], i) /\ (Moves(calls'[d], i) => d = c)
                           /\ ~(calls'[d].at = "s_items" /\ i \in calls'[d].items)
      BY <1>3, <3>1, <3>3
    <3>5. \A n, k \in MailIds : Attached(n, i)' /\ Attached(k, i)' => n = k
      BY <2>0, <2>a DEF Placed
    <3>6. \A n \in MailIds : Attached(n, i)' => n \in MailOf(calls'[c])
      BY <1>4, <2>a, <3>1
    <3>7. \A d \in Chars : bags'[d][i] >= 0 /\ bags'[d][i] <= 1 /\ (bags'[d][i] > 0 <=> d = c)
      BY <3>2
    <3> QED
      BY <3>3, <3>4, <3>5, <3>6, <3>7 DEF Placed, Posts, Claims, Moves
  <2> QED
    BY <2>1, <2>2
<1> QED
  BY <1>5, <1>6

\* A step of the cleanup, or of time: the handlers stay as they are.
LEMMA UniqueBeside ==
  ASSUME TypeOK, TypeOK', OwnMails, \A i \in Items \ half : Placed(i), half \subseteq half',
         UNCHANGED <<bags, calls, nextId>>, NothingAttached,
         \A c \in Chars : \A m \in MailOf(calls[c]) :
           /\ mails'[m] # None => mails[m] # None /\ mails'[m].to = mails[m].to
           /\ \A r \in ticker'.mails : r.id # m
  PROVE  OwnMails' /\ \A i \in Items \ half' : Placed(i)'
<1>1. OwnMails'
  <2>1. \A c \in Chars :
          /\ \A m \in MailOf(calls[c]) :
               /\ m < nextId /\ (mails'[m] = None \/ mails'[m].to = c)
               /\ \A r \in ticker'.mails : r.id # m
          /\ calls[c].at \in {"m_upd", "i_del", "i_cod", "i_upd"} => calls[c].row.to = c
    BY DEF OwnMails
  <2> QED
    BY <2>1 DEF OwnMails, MailOf
<1>2. ASSUME NEW i \in Items \ half' PROVE Placed(i)'
  <2>1. \A d \in Chars : Eases(d, i)
    BY SameEases
  <2> QED
    BY <2>1, PlacedEases DEF NothingAttached
<1> QED
  BY <1>1, <1>2

LEMMA UniqueTicker ==
  ASSUME TypeOK, TypeOK', OwnMails, \A i \in Items \ half : Placed(i), stale' = {}, half \subseteq half', Ticker
  PROVE  OwnMails' /\ \A i \in Items \ half' : Placed(i)'
<1>0. UNCHANGED <<bags, calls, nextId>>
  BY TickerWrites
<1>1. \A c \in Chars : \A m \in MailOf(calls[c]) : m \in MailIds /\ \A r \in ticker.mails : r.id # m
  BY MailOfParts DEF OwnMails, TypeOK
\* ExpiredMails would remember a mail that a handler works on.
<1>2. \A c \in Chars : \A m \in MailOf(calls[c]), r \in ticker'.mails : r.id # m
  <2>1. CASE ExpiredMails
    <3> DEFINE rows == {mails[m] : m \in {x \in MailIds : mails[x] # None /\ mails[x].expired}}
    <3>1. /\ ticker'.mails = rows
          /\ {r.id : r \in {x \in rows : \E c \in Chars : x.id \in MailOf(calls[c])}} \subseteq stale'
      BY <2>1 DEF ExpiredMails
    <3> HIDE DEF rows
    <3> QED
      BY <3>1
  <2>2. CASE ticker'.mails \subseteq ticker.mails
    BY <1>1, <2>2
  <2> QED
    BY <2>1, <2>2, TickerHolds
<1>3. /\ NothingAttached
      /\ \A c \in Chars : \A m \in MailOf(calls[c]) :
           mails'[m] # None => mails[m] # None /\ mails'[m].to = mails[m].to
  <2>1. CASE mails' = mails
    BY <2>1 DEF NothingAttached, Attached
  <2>2. CASE mails' = [m \in MailIds |-> mails'[m]] /\ \A m \in MailIds : PrunedTo(m, mails'[m])
    <3>1. \A m \in MailIds : mails'[m] # None =>
            mails[m] # None /\ mails'[m].to = mails[m].to /\ mails'[m].items \subseteq mails[m].items
      BY <2>2, PrunedEffect
    <3> QED
      BY <1>1, <3>1 DEF NothingAttached, Attached
  <2>3. CASE ReturnOne
    <3>1. PICK row \in ticker.mails :
            row \in Rows /\ ReturnedRow(row) \in Rows /\ mails' = UpdateMail(ReturnedRow(row))
      BY <2>3, ReturnOneRow
    <3>2. ReturnedRow(row).id = row.id
      BY <3>1, WithReturned
    <3>3. \A m \in MailIds :
            /\ m # row.id \/ mails[m] = None => mails'[m] = mails[m]
            /\ m = row.id /\ mails[m] # None => mails'[m].items = mails[m].items
      BY <3>1, <3>2, UpdateMailEffect
    <3>4. NothingAttached
      BY <3>3 DEF NothingAttached, Attached
    <3> QED
      BY <1>1, <3>1, <3>3, <3>4
  <2> QED
    BY <2>1, <2>2, <2>3, TickerWrites
<1> QED
  BY <1>0, <1>2, <1>3, UniqueBeside

LEMMA UniqueStep ==
  ASSUME TypeOK, TypeOK', LivesInv, UniqueInv, [Next]_vars
  PROVE  UniqueInv'
<1> SUFFICES ASSUME stale' = {} PROVE OwnMails' /\ \A i \in Items \ half' : Placed(i)'
  BY DEF UniqueInv
<1>0. OwnMails /\ (\A i \in Items \ half : Placed(i)) /\ half \subseteq half'
  BY HistoryGrows DEF UniqueInv
<1>1. ASSUME NEW c \in Chars, Session(c) PROVE OwnMails' /\ \A i \in Items \ half' : Placed(i)'
  BY <1>0, <1>1, UniqueQuiet, UniqueWrites, UniqueSendTakesItems, UniqueSendStores, UniqueTakeItemReads,
     UniqueTakeItemAdds DEF Session
<1>2. ASSUME NEW m \in MailIds, Expire(m) PROVE OwnMails' /\ \A i \in Items \ half' : Placed(i)'
  <2>1. UNCHANGED <<bags, calls, nextId, ticker>>
    BY <1>2 DEF Expire, world
  <2>2. \A n \in MailIds : mails'[n] # None =>
          mails[n] # None /\ mails'[n].to = mails[n].to /\ mails'[n].items = mails[n].items
    BY <1>2, ExpireEffect
  <2>3. \A c \in Chars : \A n \in MailOf(calls[c]) : n \in MailIds /\ \A r \in ticker.mails : r.id # n
    BY <1>0, MailOfParts DEF OwnMails, TypeOK
  <2>4. NothingAttached
    BY <2>2 DEF NothingAttached, Attached
  <2> QED
    BY <1>0, <2>1, <2>2, <2>3, <2>4, UniqueBeside
<1>3. CASE UNCHANGED vars
  <2>1. UNCHANGED <<bags, mails, calls, ticker, nextId, half>>
    BY <1>3 DEF vars, world, bounds, history
  <2>2. \A c \in Chars : \A n \in MailOf(calls[c]), r \in ticker.mails : r.id # n
    BY <1>0 DEF OwnMails
  <2>3. NothingAttached
    BY <2>1 DEF NothingAttached, Attached
  <2> QED
    BY <1>0, <2>1, <2>2, <2>3, UniqueBeside
<1> QED
  BY <1>0, <1>1, <1>2, <1>3, UniqueTicker DEF Next

\* Two places of an item are a bag and a mail, and then it is being moved.
LEMMA PlacedIsSingle ==
  ASSUME TypeOK, NEW i \in Items, Placed(i)
  PROVE  IsSingle(i) \/ ItemIsMoving(i)
<1> SUFFICES ASSUME ~ItemIsMoving(i) PROVE IsSingle(i)
  OBVIOUS
<1>1. \A c \in Chars : ~Moves(calls[c], i)
  BY DEF ItemIsMoving, Handed, Moves
<1>2. \A c \in Chars, m \in MailIds : ~(bags[c][i] > 0 /\ Attached(m, i))
  BY <1>1 DEF Placed
<1>3. ASSUME NEW x \in Places(i), NEW y \in Places(i) PROVE x = y
  <2>1. /\ \/ \E c \in Chars : bags[c][i] > 0 /\ x = <<"bags", c>>
           \/ \E m \in MailIds : Attached(m, i) /\ x = <<"mail", m>>
        /\ \/ \E c \in Chars : bags[c][i] > 0 /\ y = <<"bags", c>>
           \/ \E m \in MailIds : Attached(m, i) /\ y = <<"mail", m>>
    BY DEF Places, Attached
  <2> QED
    BY <1>2, <2>1 DEF Placed
<1> QED
  BY <1>3 DEF IsSingle, Placed

\* HandleSendMail, HandleMailTakeItem, RemoveMailItem, DeleteMail and the cleanup,
\* for all characters, items and failures: unless a session and a cleanup pass
\* worked on the same mail, an item is in one place or is being moved, or its
\* move failed half-way.
THEOREM ItemsAreInOnePlace == Spec => []ItemsAreUnique
<1>1. Init => TypeOK /\ LivesInv /\ UniqueInv
  BY TypeInit, LivesInit, UniqueInit
<1>2. TypeOK /\ LivesInv /\ UniqueInv /\ [Next]_vars => TypeOK' /\ LivesInv' /\ UniqueInv'
  BY TypeStep, LivesStep, UniqueStep
<1>3. TypeOK /\ UniqueInv => ItemsAreUnique
  BY PlacedIsSingle DEF UniqueInv, ItemsAreUnique
<1> QED
  BY <1>1, <1>2, <1>3, PTL DEF Spec


-----------------------------------------------------------------------------
(* No money is made.                                                       *)

\* What a character has and what its handler is moving; what a mail contains.
Wallets(pu, ca) == [c \in Chars |-> pu[c] + OnTheWay(ca[c])]
Contents(ms) == [m \in MailIds |-> IF ms[m] = None THEN 0 ELSE ms[m].money]
Held == SumOf(Wallets(purse, calls), Chars) + SumOf(Contents(mails), MailIds)

LEMMA FiniteParts == IsFiniteSet(Chars) /\ IsFiniteSet(MailIds) /\ IsFiniteSet(Items)
BY MailAssumption, FS_Interval DEF MailIds

\* Money is a sum of functions.
LEMMA MoneyIsHeld == Money = Held
<1> DEFINE w(c) == purse[c] + OnTheWay(calls[c])
           v(m) == IF mails[m] = None THEN 0 ELSE mails[m].money
           W(h) == h = [s \in SUBSET Chars |-> IF s = {} THEN 0 ELSE w(Pick(s)) + h[s \ {Pick(s)}]]
           V(h) == h = [s \in SUBSET MailIds |-> IF s = {} THEN 0 ELSE v(Pick(s)) + h[s \ {Pick(s)}]]
<1>1. Money = (CHOOSE h : W(h))[Chars] + (CHOOSE h : V(h))[MailIds]
  BY DEF Money, Total, MapThenSumSet, MapThenFoldSet, Pick
<1>2. \A h : W(h) <=> IsSumOf(h, Wallets(purse, calls), Chars)
  <2>1. \A s \in SUBSET Chars : s # {} => Wallets(purse, calls)[Pick(s)] = w(Pick(s))
    BY Picked DEF Wallets
  <2> QED
    BY <2>1 DEF IsSumOf
<1>3. \A h : V(h) <=> IsSumOf(h, Contents(mails), MailIds)
  <2>1. \A s \in SUBSET MailIds : s # {} => Contents(mails)[Pick(s)] = v(Pick(s))
    BY Picked DEF Contents
  <2> QED
    BY <2>1 DEF IsSumOf
<1> HIDE DEF W, V
<1>4. (CHOOSE h : W(h))[Chars] = SumOf(Wallets(purse, calls), Chars)
  BY <1>2, FiniteParts, SumExists, SumIsUnique
<1>5. (CHOOSE h : V(h))[MailIds] = SumOf(Contents(mails), MailIds)
  BY <1>3, FiniteParts, SumExists, SumIsUnique
<1> QED
  BY <1>1, <1>4, <1>5 DEF Held

\* A step that takes as much as it gives: character c and mail m together gain
\* nothing, nobody else does.
LEMMA NothingGained ==
  ASSUME NEW w \in [Chars -> Int], NEW x \in [Chars -> Int],
         NEW v \in [MailIds -> Int], NEW y \in [MailIds -> Int],
         NEW c \in Chars, NEW m \in MailIds,
         \A d \in Chars \ {c} : x[d] = w[d], \A n \in MailIds \ {m} : y[n] <= v[n],
         x[c] + y[m] <= w[c] + v[m]
  PROVE  SumOf(x, Chars) + SumOf(y, MailIds) <= SumOf(w, Chars) + SumOf(v, MailIds)
<1> DEFINE u == [v EXCEPT ![m] = y[m]]
<1>1. SumOf(w, Chars) \in Int /\ SumOf(x, Chars) = SumOf(w, Chars) + (x[c] - w[c])
  BY FiniteParts, SumOfChanged
<1>2. u \in [MailIds -> Int] /\ u[m] = y[m] /\ \A n \in MailIds \ {m} : u[n] = v[n]
  OBVIOUS
<1> HIDE DEF u
<1>3. SumOf(v, MailIds) \in Int /\ SumOf(u, MailIds) = SumOf(v, MailIds) + (u[m] - v[m])
  BY <1>2, FiniteParts, SumOfChanged
<1>4. \A n \in MailIds : y[n] <= u[n]
  BY <1>2
<1>5. SumOf(y, MailIds) \in Int /\ SumOf(y, MailIds) <= SumOf(u, MailIds)
  BY <1>2, <1>4, FiniteParts, SumIsMonotonic
<1>6. x[c] \in Int /\ w[c] \in Int /\ y[m] \in Int /\ v[m] \in Int
  OBVIOUS
<1> QED
  BY <1>1, <1>2, <1>3, <1>5, <1>6

LEMMA NowhereMore ==
  ASSUME NEW w \in [Chars -> Int], NEW x \in [Chars -> Int],
         NEW v \in [MailIds -> Int], NEW y \in [MailIds -> Int],
         \A d \in Chars : x[d] <= w[d], \A n \in MailIds : y[n] <= v[n]
  PROVE  SumOf(x, Chars) + SumOf(y, MailIds) <= SumOf(w, Chars) + SumOf(v, MailIds)
<1>1. SumOf(w, Chars) \in Int /\ SumOf(x, Chars) \in Int /\ SumOf(x, Chars) <= SumOf(w, Chars)
  BY FiniteParts, SumIsMonotonic
<1>2. SumOf(v, MailIds) \in Int /\ SumOf(y, MailIds) \in Int /\ SumOf(y, MailIds) <= SumOf(v, MailIds)
  BY FiniteParts, SumIsMonotonic
<1> QED
  BY <1>1, <1>2

-----------------------------------------------------------------------------
\* A handler will write back no more money than the mail has, and pay the sender
\* no more than its character paid.
CallMoney(k, ms) ==
  /\ k.at \in {"m_upd", "i_del", "i_cod", "i_upd"} =>
       ms[k.row.id] = None \/ k.row.money <= ms[k.row.id].money
  /\ k.at \in {"i_pay", "i_add", "i_read"} => ms[k.id] = None \/ ms[k.id].cod <= k.cod
  /\ k.at \in {"i_del", "i_cod"} => k.row.cod <= k.cod

\* The cleanup will write back what the mail has.
TickerMoney(t, ms) == \A r \in t.mails : ms[r.id] = None \/ r.money = ms[r.id].money

Copies ==
  /\ \A c \in Chars : CallMoney(calls[c], mails)
  /\ TickerMoney(ticker, mails)

MoneyInv ==
  /\ purse \in [Chars -> Int]
  /\ stale = {} => Copies /\ Held <= Purse * Cardinality(Chars)

LEMMA OnTheWayParts ==
  ASSUME NEW k \in CallStates
  PROVE  /\ OnTheWay(k) \in Nat
         /\ k.at = "s_send" => OnTheWay(k) = k.money
         /\ k.at = "m_pay" => OnTheWay(k) = k.row.money
         /\ k.at \in {"i_add", "i_read", "i_del", "i_cod"} => OnTheWay(k) = k.cod
         /\ k.at \in {"idle", "s_items", "s_money", "m_upd", "i_pay", "i_upd", "d_read", "d_items", "d_mail"}
              => OnTheWay(k) = 0
<1>1. /\ k.at = "s_send" => OnTheWay(k) = k.money
      /\ k.at = "m_pay" => OnTheWay(k) = k.row.money
      /\ k.at \in {"i_add", "i_read", "i_del", "i_cod"} => OnTheWay(k) = k.cod
      /\ k.at \in {"idle", "s_items", "s_money", "m_upd", "i_pay", "i_upd", "d_read", "d_items", "d_mail"}
           => OnTheWay(k) = 0
  BY DEF OnTheWay
<1>2. /\ k.at = "s_send" => k.money \in Nat
      /\ k.at = "m_pay" => k.row.money \in Nat
      /\ k.at \in {"i_add", "i_read", "i_del", "i_cod"} => k.cod \in Nat
  BY CallParts DEF SendCalls, MoneyCalls, TakeCalls, RemoveCalls, Rows
<1> QED
  BY <1>1, <1>2, CallParts

LEMMA HeldTypes ==
  /\ \A pu \in [Chars -> Int], ca \in [Chars -> CallStates] : Wallets(pu, ca) \in [Chars -> Int]
  /\ \A ms \in [MailIds -> Rows \cup {None}] : Contents(ms) \in [MailIds -> Int]
<1>1. ASSUME NEW pu \in [Chars -> Int], NEW ca \in [Chars -> CallStates], NEW c \in Chars
      PROVE  pu[c] + OnTheWay(ca[c]) \in Int
  BY OnTheWayParts
<1>2. \A r \in Rows : r.money \in Int
  BY DEF Rows
<1> QED
  BY <1>1, <1>2 DEF Wallets, Contents

LEMMA MoneyInit == Init => MoneyInv
<1> SUFFICES ASSUME Init PROVE MoneyInv
  OBVIOUS
<1>1. \A c \in Chars : calls[c] = Idle /\ calls[c].at = "idle" /\ OnTheWay(calls[c]) = 0
  BY CallKinds, OnTheWayParts DEF Init
<1>2. Wallets(purse, calls) = [c \in Chars |-> Purse]
  BY <1>1, MailAssumption DEF Wallets, Init
<1>3. Contents(mails) = [m \in MailIds |-> 0]
  BY DEF Contents, Init
<1>4. SumOf(Wallets(purse, calls), Chars) = Purse * Cardinality(Chars)
  BY <1>2, FiniteParts, MailAssumption, SumOfConstant
<1>5. SumOf(Contents(mails), MailIds) = 0 * Cardinality(MailIds) /\ Cardinality(MailIds) \in Nat
  BY <1>3, FiniteParts, SumOfConstant, FS_CardinalityType
<1>6. Held <= Purse * Cardinality(Chars)
  <2>1. Cardinality(Chars) \in Nat /\ Purse \in Nat
    BY FiniteParts, FS_CardinalityType, MailAssumption
  <2>2. SumOf(Contents(mails), MailIds) = 0
    BY <1>5
  <2>3. Purse * Cardinality(Chars) \in Nat
    BY <2>1
  <2> QED
    BY <1>4, <2>2, <2>3 DEF Held
<1>7. Copies
  BY <1>1 DEF Copies, CallMoney, TickerMoney, Init, Rest
<1>8. purse \in [Chars -> Int]
  BY MailAssumption DEF Init
<1> QED
  BY <1>6, <1>7, <1>8 DEF MoneyInv

\* A step leaves the other mails' money and payment alone.
OthersKept(c) ==
  \A m \in MailIds : m # nextId /\ mails'[m] # None =>
    /\ mails[m] # None
    /\ m \notin MailOf(calls[c]) => mails'[m].money = mails[m].money /\ mails'[m].cod = mails[m].cod

\* The copies of other handlers and of the cleanup, after a step of c.
LEMMA CopiesKept ==
  ASSUME TypeOK, TypeOK', LivesInv, OwnMails, Copies, NEW c \in Chars, OthersKept(c),
         \A d \in Chars \ {c} : calls'[d] = calls[d], ticker' = ticker,
         CallMoney(calls'[c], mails')
  PROVE  Copies'
<1>1. ASSUME NEW d \in Chars PROVE CallMoney(calls'[d], mails')
  <2>1. CASE d = c
    BY <2>1
  <2>2. CASE d # c
    <3>1. calls'[d] = calls[d] /\ calls[d] \in CallStates /\ CallMoney(calls[d], mails)
      BY <2>2 DEF TypeOK, Copies
    <3>2. ASSUME NEW m \in MailOf(calls[d]), mails'[m] # None
          PROVE  mails[m] # None /\ mails'[m].money = mails[m].money /\ mails'[m].cod = mails[m].cod
      <4>1. m \in MailIds /\ m < nextId /\ m \in Int /\ nextId \in Int /\ (mails[m] = None \/ mails[m].to = d)
        BY <3>1, MailOfParts DEF OwnMails, TypeOK, MailIds
      <4>2. m \in MailOf(calls[c]) => mails[m] = None \/ mails[m].to = c
        BY DEF OwnMails
      <4>3. mails[m] # None
        BY <3>2, <4>1 DEF OthersKept
      <4> QED
        BY <2>2, <3>2, <4>1, <4>2, <4>3 DEF OthersKept
    <3>3. /\ calls[d].at \in {"m_upd", "i_del", "i_cod", "i_upd"} => calls[d].row.id \in MailOf(calls[d])
          /\ calls[d].at \in {"i_pay", "i_add", "i_read"} => calls[d].id \in MailOf(calls[d])
      BY <3>1, MailOfParts
    <3> QED
      BY <3>1, <3>2, <3>3 DEF CallMoney
  <2> QED
    BY <2>1, <2>2
<1>2. ASSUME NEW r \in ticker.mails PROVE mails'[r.id] = None \/ r.money = mails'[r.id].money
  <2>1. r \in Rows /\ r.id \in MailIds /\ r.id \in Int /\ nextId \in Int /\ r.id < nextId
    BY DEF TypeOK, Rows, MailIds, LivesInv, TickerLives, RowLives
  <2>2. r.id \notin MailOf(calls[c])
    BY DEF OwnMails
  <2> QED
    BY <2>1, <2>2 DEF OthersKept, Copies, TickerMoney
<1> QED
  BY <1>1, <1>2 DEF Copies, TickerMoney

\* What the handler of c and mail m have changes, and together they gain nothing.
LEMMA HeldExchange ==
  ASSUME TypeOK, TypeOK', purse \in [Chars -> Int], purse' \in [Chars -> Int], NEW c \in Chars, NEW m \in MailIds,
         \A d \in Chars \ {c} : purse'[d] = purse[d] /\ calls'[d] = calls[d],
         \A n \in MailIds \ {m} : mails'[n] # None => mails[n] # None /\ mails'[n].money = mails[n].money,
         NEW a \in Int, NEW b \in Int,
         mails[m] = None => a = 0, mails[m] # None => a = mails[m].money,
         mails'[m] = None => b = 0, mails'[m] # None => b = mails'[m].money,
         purse'[c] + OnTheWay(calls'[c]) + b <= purse[c] + OnTheWay(calls[c]) + a
  PROVE  Held' <= Held
<1> DEFINE w == Wallets(purse, calls)
           x == Wallets(purse', calls')
           v == Contents(mails)
           y == Contents(mails')
<1>1. w \in [Chars -> Int] /\ x \in [Chars -> Int] /\ v \in [MailIds -> Int] /\ y \in [MailIds -> Int]
  BY HeldTypes DEF TypeOK
<1>2. \A d \in Chars \ {c} : x[d] = w[d]
  BY DEF Wallets
<1>3. \A n \in MailIds \ {m} : y[n] <= v[n]
  <2>1. \A n \in MailIds : mails[n] # None => mails[n].money \in Nat
    BY DEF TypeOK, Rows
  <2> QED
    BY <2>1 DEF Contents
<1>4. x[c] + y[m] <= w[c] + v[m]
  <2>1. x[c] = purse'[c] + OnTheWay(calls'[c]) /\ w[c] = purse[c] + OnTheWay(calls[c])
    BY DEF Wallets
  <2>2. v[m] = a /\ y[m] = b
    BY DEF Contents
  <2> HIDE DEF w, x, v, y
  <2> QED
    BY <2>1, <2>2
<1> HIDE DEF w, x, v, y
<1>5. SumOf(x, Chars) + SumOf(y, MailIds) <= SumOf(w, Chars) + SumOf(v, MailIds)
  BY <1>1, <1>2, <1>3, <1>4, NothingGained
<1> QED
  BY <1>5 DEF Held, w, x, v, y

\* Nothing gains.
LEMMA HeldNowhereMore ==
  ASSUME TypeOK, TypeOK', purse \in [Chars -> Int], purse' \in [Chars -> Int],
         \A d \in Chars : purse'[d] + OnTheWay(calls'[d]) <= purse[d] + OnTheWay(calls[d]),
         \A n \in MailIds : mails'[n] # None => mails[n] # None /\ mails'[n].money <= mails[n].money
  PROVE  Held' <= Held
<1> DEFINE w == Wallets(purse, calls)
           x == Wallets(purse', calls')
           v == Contents(mails)
           y == Contents(mails')
<1>1. w \in [Chars -> Int] /\ x \in [Chars -> Int] /\ v \in [MailIds -> Int] /\ y \in [MailIds -> Int]
  BY HeldTypes DEF TypeOK
<1>2. \A d \in Chars : x[d] <= w[d]
  BY DEF Wallets
<1>3. \A n \in MailIds : y[n] <= v[n]
  <2>1. \A n \in MailIds : mails[n] # None => mails[n].money \in Nat
    BY DEF TypeOK, Rows
  <2> QED
    BY <2>1 DEF Contents
<1> HIDE DEF w, x, v, y
<1>4. SumOf(x, Chars) + SumOf(y, MailIds) <= SumOf(w, Chars) + SumOf(v, MailIds)
  BY <1>1, <1>2, <1>3, NowhereMore
<1> QED
  BY <1>4 DEF Held, w, x, v, y

MoneyStep == purse' \in [Chars -> Int] /\ Copies' /\ Held' <= Held

\* What a letter costs is no gain.
LEMMA PostageIsNat == \A items \in SUBSET Items : Postage(Cardinality(items)) \in Nat
<1>1. ASSUME NEW items \in SUBSET Items PROVE Postage(Cardinality(items)) \in Nat
  <2>1. Cardinality(items) \in Nat
    BY FiniteParts, FS_Subset, FS_CardinalityType
  <2>2. \A n \in Nat : CostForOneMail * n \in Nat
    BY MailAssumption
  <2>3. \A n \in Nat : n % 256 \in Nat
    OBVIOUS
  <2> QED
    BY <2>1, <2>2, <2>3, MailAssumption DEF Postage
<1> QED
  BY <1>1

\* The steps of a handler that touch no mail.
LEMMA MoneyQuiet ==
  ASSUME TypeOK, TypeOK', LivesInv, OwnMails, Copies, purse \in [Chars -> Int], NEW c \in Chars,
         \/ SendChecked(c) \/ SendTakesItems(c) \/ SendTakesMoney(c)
         \/ TakeMoneyReads(c) \/ TakeMoneyPays(c)
         \/ TakeItemReads(c) \/ TakeItemPays(c) \/ TakeItemAdds(c)
         \/ RemoveMailItemReads(c) \/ DeleteReads(c) \/ DeleteReadsAgain(c) \/ CallFails(c)
  PROVE  MoneyStep
<1>0. UNCHANGED <<mails, ticker, nextId>> /\ calls[c] \in CallStates /\ purse[c] \in Int
  BY TypeQuiet DEF TypeOK
<1>q. ASSUME \A d \in Chars \ {c} : calls'[d] = calls[d], purse' \in [Chars -> Int],
             \A d \in Chars \ {c} : purse'[d] = purse[d],
             purse'[c] + OnTheWay(calls'[c]) <= purse[c] + OnTheWay(calls[c]), CallMoney(calls'[c], mails)
      PROVE  MoneyStep
  <2>2. Copies'
    BY <1>0, <1>q, CopiesKept DEF OthersKept
  <2>3. \A d \in Chars : purse'[d] + OnTheWay(calls'[d]) <= purse[d] + OnTheWay(calls[d])
    <3>1. \A d \in Chars : purse[d] + OnTheWay(calls[d]) \in Int
      BY OnTheWayParts DEF TypeOK
    <3> QED
      BY <1>q, <3>1
  <2>4. \A n \in MailIds : mails'[n] # None => mails[n] # None /\ mails'[n].money <= mails[n].money
    BY <1>0 DEF TypeOK, Rows
  <2> QED
    BY <1>q, <2>2, <2>3, <2>4, HeldNowhereMore DEF MoneyStep
<1>w. OnTheWay(calls[c]) \in Nat
  BY <1>0, OnTheWayParts
\* The purse stays, and the handler has no more on the way.
<1>p. ASSUME \A d \in Chars \ {c} : calls'[d] = calls[d], purse' = purse,
             OnTheWay(calls'[c]) <= OnTheWay(calls[c]), CallMoney(calls'[c], mails)
      PROVE  MoneyStep
  <2>2. OnTheWay(calls'[c]) \in Nat
    BY OnTheWayParts DEF TypeOK
  <2> QED
    BY <1>0, <1>w, <1>p, <1>q, <2>2
<1>g. ASSUME NEW k, calls' = [calls EXCEPT ![c] = k]
      PROVE  calls'[c] = k /\ \A d \in Chars \ {c} : calls'[d] = calls[d]
  BY <1>g DEF TypeOK
<1>i. CallMoney(Idle, mails) /\ OnTheWay(Idle) = 0
  BY CallKinds, OnTheWayParts DEF CallMoney
<1> USE DEF GoOn, At, Starts, Quietly, world
<1>1. CASE SendChecked(c)
  <2>1. PICK to \in Chars, money \in Prices \cup {0}, cod \in Prices \cup {0}, items \in SUBSET Items :
          Starts(c, [at |-> "s_items", to |-> to, money |-> money, cod |-> cod, items |-> items], None)
    BY <1>1 DEF SendChecked
  <2> DEFINE k == [at |-> "s_items", to |-> to, money |-> money, cod |-> cod, items |-> items]
  <2>2. calls' = [calls EXCEPT ![c] = k] /\ purse' = purse
    BY <2>1
  <2>3. OnTheWay(k) = 0 /\ CallMoney(k, mails)
    BY DEF OnTheWay, CallMoney
  <2> HIDE DEF k
  <2>s. calls'[c] = k /\ \A d \in Chars \ {c} : calls'[d] = calls[d]
    BY <1>g, <2>2
  <2> QED
    BY <1>p, <1>w, <2>2, <2>3, <2>s
<1>2. CASE SendTakesItems(c)
  <2> DEFINE k == [calls[c] EXCEPT !.at = "s_money"]
  <2>1. calls[c] \in SendCalls /\ calls' = [calls EXCEPT ![c] = k] /\ purse' = purse
    BY <1>0, <1>2, CallParts DEF SendTakesItems
  <2>2. OnTheWay(k) = 0 /\ CallMoney(k, mails)
    BY <2>1 DEF OnTheWay, CallMoney, SendCalls
  <2> HIDE DEF k
  <2>s. calls'[c] = k /\ \A d \in Chars \ {c} : calls'[d] = calls[d]
    BY <1>g, <2>1
  <2> QED
    BY <1>p, <1>w, <2>1, <2>2, <2>s
<1>3. CASE SendTakesMoney(c)
  <2> DEFINE k == [calls[c] EXCEPT !.at = "s_send"]
             post == Postage(Cardinality(calls[c].items))
  <2>1. /\ calls[c] \in SendCalls /\ calls[c].at = "s_money" /\ calls' = [calls EXCEPT ![c] = k]
        /\ purse' = [purse EXCEPT ![c] = @ - (post + calls[c].money)]
    BY <1>0, <1>3, CallParts DEF SendTakesMoney
  <2>2. OnTheWay(k) = calls[c].money /\ CallMoney(k, mails) /\ OnTheWay(calls[c]) = 0
    BY <2>1 DEF OnTheWay, CallMoney, SendCalls
  <2>3. calls[c].money \in Nat /\ post \in Nat
    BY <2>1, PostageIsNat DEF SendCalls
  <2> HIDE DEF k, post
  <2>4. /\ purse' \in [Chars -> Int] /\ purse'[c] = purse[c] - (post + calls[c].money)
        /\ \A d \in Chars \ {c} : purse'[d] = purse[d]
    BY <2>1, <2>3
  <2>s. calls'[c] = k /\ \A d \in Chars \ {c} : calls'[d] = calls[d]
    BY <1>g, <2>1
  <2> QED
    BY <1>0, <1>q, <2>1, <2>2, <2>3, <2>4, <2>s
<1>4. CASE TakeMoneyReads(c)
  <2>1. PICK m \in MailIds : mails[m] # None /\ Starts(c, [at |-> "m_upd", row |-> mails[m]], m)
    BY <1>4 DEF TakeMoneyReads
  <2> DEFINE k == [at |-> "m_upd", row |-> mails[m]]
  <2>2. calls' = [calls EXCEPT ![c] = k] /\ purse' = purse
    BY <2>1
  <2>3. mails[m].id = m /\ mails[m].money \in Nat
    BY <2>1 DEF TypeOK, Rows
  <2>4. OnTheWay(k) = 0 /\ CallMoney(k, mails)
    BY <2>3 DEF OnTheWay, CallMoney
  <2> HIDE DEF k
  <2>s. calls'[c] = k /\ \A d \in Chars \ {c} : calls'[d] = calls[d]
    BY <1>g, <2>2
  <2> QED
    BY <1>p, <1>w, <2>2, <2>4, <2>s
<1>5. CASE TakeMoneyPays(c)
  <2>1. /\ calls[c] \in MoneyCalls /\ calls[c].at = "m_pay" /\ calls' = [calls EXCEPT ![c] = Idle]
        /\ purse' = [purse EXCEPT ![c] = @ + calls[c].row.money]
    BY <1>0, <1>5, CallParts DEF TakeMoneyPays
  <2>2. OnTheWay(calls[c]) = calls[c].row.money /\ calls[c].row.money \in Nat
    BY <2>1 DEF OnTheWay, MoneyCalls, Rows
  <2>3. /\ purse' \in [Chars -> Int] /\ purse'[c] = purse[c] + calls[c].row.money
        /\ \A d \in Chars \ {c} : purse'[d] = purse[d]
    BY <2>1, <2>2
  <2>4. calls'[c] = Idle /\ \A d \in Chars \ {c} : calls'[d] = calls[d]
    BY <1>g, <2>1
  <2> QED
    BY <1>0, <1>i, <1>q, <2>1, <2>2, <2>3, <2>4
<1>6. CASE TakeItemReads(c)
  <2>1. PICK m \in MailIds, i \in Items :
          /\ mails[m] # None
          /\ Starts(c, [at |-> "i_pay", id |-> m, item |-> i, cod |-> mails[m].cod], m)
    BY <1>6 DEF TakeItemReads
  <2> DEFINE k == [at |-> "i_pay", id |-> m, item |-> i, cod |-> mails[m].cod]
  <2>2. calls' = [calls EXCEPT ![c] = k] /\ purse' = purse
    BY <2>1
  <2>3. mails[m].cod \in Nat
    BY <2>1 DEF TypeOK, Rows
  <2>4. OnTheWay(k) = 0 /\ CallMoney(k, mails)
    BY <2>3 DEF OnTheWay, CallMoney
  <2> HIDE DEF k
  <2>s. calls'[c] = k /\ \A d \in Chars \ {c} : calls'[d] = calls[d]
    BY <1>g, <2>2
  <2> QED
    BY <1>p, <1>w, <2>2, <2>4, <2>s
<1>7. CASE TakeItemPays(c)
  <2> DEFINE k == [calls[c] EXCEPT !.at = "i_add"]
  <2>1. /\ calls[c] \in TakeCalls /\ calls[c].at = "i_pay"
        /\ \/ purse' = [purse EXCEPT ![c] = @ - calls[c].cod] /\ calls' = [calls EXCEPT ![c] = k]
           \/ purse' = purse /\ calls' = [calls EXCEPT ![c] = Idle]
    BY <1>0, <1>7, CallParts DEF TakeItemPays
  <2>2. OnTheWay(calls[c]) = 0 /\ OnTheWay(k) = calls[c].cod /\ calls[c].cod \in Nat
    BY <2>1 DEF OnTheWay, TakeCalls
  <2>3. CallMoney(calls[c], mails)
    BY DEF Copies
  <2>4. CallMoney(k, mails)
    BY <2>1, <2>3 DEF CallMoney, TakeCalls
  <2> HIDE DEF k
  <2>5. CASE purse' = [purse EXCEPT ![c] = @ - calls[c].cod] /\ calls' = [calls EXCEPT ![c] = k]
    <3>1. /\ purse' \in [Chars -> Int] /\ purse'[c] = purse[c] - calls[c].cod
          /\ \A d \in Chars \ {c} : purse'[d] = purse[d]
      BY <2>2, <2>5
    <3>2. calls'[c] = k /\ \A d \in Chars \ {c} : calls'[d] = calls[d]
      BY <1>g, <2>5
    <3> QED
      BY <1>0, <1>q, <2>2, <2>4, <3>1, <3>2
  <2>6. CASE purse' = purse /\ calls' = [calls EXCEPT ![c] = Idle]
    <3>1. calls'[c] = Idle /\ \A d \in Chars \ {c} : calls'[d] = calls[d]
      BY <1>g, <2>6
    <3> QED
      BY <1>i, <1>p, <1>w, <2>6, <3>1
  <2> QED
    BY <2>1, <2>5, <2>6
<1>8. CASE TakeItemAdds(c)
  <2> DEFINE k == [calls[c] EXCEPT !.at = "i_read"]
  <2>1. /\ calls[c] \in TakeCalls /\ calls[c].at = "i_add" /\ purse' = purse
        /\ calls' = [calls EXCEPT ![c] = k] \/ calls' = [calls EXCEPT ![c] = Idle]
    BY <1>0, <1>8, CallParts DEF TakeItemAdds
  <2>2. OnTheWay(calls[c]) = calls[c].cod /\ OnTheWay(k) = calls[c].cod /\ calls[c].cod \in Nat
    BY <2>1 DEF OnTheWay, TakeCalls
  <2>3. CallMoney(calls[c], mails)
    BY DEF Copies
  <2>4. CallMoney(k, mails)
    BY <2>1, <2>3 DEF CallMoney, TakeCalls
  <2> HIDE DEF k
  <2>5. calls'[c] \in {k, Idle} /\ \A d \in Chars \ {c} : calls'[d] = calls[d]
    BY <1>g, <2>1
  <2> QED
    BY <1>i, <1>p, <1>w, <2>1, <2>2, <2>4, <2>5
<1>9. CASE RemoveMailItemReads(c)
  <2> DEFINE m == calls[c].id
             k == [at |-> "i_del", row |-> mails[m], item |-> calls[c].item, cod |-> calls[c].cod]
  <2>1. /\ calls[c] \in TakeCalls /\ calls[c].at = "i_read" /\ purse' = purse
        /\ \/ mails[m] # None /\ calls' = [calls EXCEPT ![c] = k]
           \/ calls' = [calls EXCEPT ![c] = Idle]
    BY <1>0, <1>9, CallParts DEF RemoveMailItemReads
  <2>2. OnTheWay(calls[c]) = calls[c].cod /\ OnTheWay(k) = calls[c].cod /\ calls[c].cod \in Nat /\ m \in MailIds
    BY <2>1 DEF OnTheWay, TakeCalls
  <2>3. CallMoney(calls[c], mails)
    BY DEF Copies
  <2>4. ASSUME mails[m] # None PROVE CallMoney(k, mails)
    <3>1. mails[m].id = m /\ mails[m].money \in Nat /\ mails[m].cod <= calls[c].cod
      BY <2>1, <2>2, <2>3, <2>4 DEF TypeOK, Rows, CallMoney
    <3> QED
      BY <3>1 DEF CallMoney
  <2> HIDE DEF k
  <2>5. CASE mails[m] # None /\ calls' = [calls EXCEPT ![c] = k]
    <3>1. calls'[c] = k /\ \A d \in Chars \ {c} : calls'[d] = calls[d]
      BY <1>g, <2>5
    <3> QED
      BY <1>p, <2>1, <2>2, <2>4, <2>5, <3>1
  <2>6. CASE calls' = [calls EXCEPT ![c] = Idle]
    <3>1. calls'[c] = Idle /\ \A d \in Chars \ {c} : calls'[d] = calls[d]
      BY <1>g, <2>6
    <3> QED
      BY <1>i, <1>p, <1>w, <2>1, <3>1
  <2> QED
    BY <2>1, <2>5, <2>6
<1>10. CASE DeleteReads(c)
  <2>1. PICK m \in MailIds : Starts(c, [at |-> "d_read", id |-> m], m)
    BY <1>10 DEF DeleteReads
  <2> DEFINE k == [at |-> "d_read", id |-> m]
  <2>2. calls' = [calls EXCEPT ![c] = k] /\ purse' = purse
    BY <2>1
  <2>3. OnTheWay(k) = 0 /\ CallMoney(k, mails)
    BY DEF OnTheWay, CallMoney
  <2> HIDE DEF k
  <2>s. calls'[c] = k /\ \A d \in Chars \ {c} : calls'[d] = calls[d]
    BY <1>g, <2>2
  <2> QED
    BY <1>p, <1>w, <2>2, <2>3, <2>s
<1>11. CASE DeleteReadsAgain(c)
  <2> DEFINE k == [at |-> "d_items", row |-> mails[calls[c].id]]
  <2>1. purse' = purse /\ (calls' = [calls EXCEPT ![c] = k] \/ calls' = [calls EXCEPT ![c] = Idle])
    BY <1>11 DEF DeleteReadsAgain
  <2>2. OnTheWay(k) = 0 /\ CallMoney(k, mails)
    BY DEF OnTheWay, CallMoney
  <2> HIDE DEF k
  <2>3. calls'[c] \in {k, Idle} /\ \A d \in Chars \ {c} : calls'[d] = calls[d]
    BY <1>g, <2>1
  <2> QED
    BY <1>i, <1>p, <1>w, <2>1, <2>2, <2>3
<1>12. CASE CallFails(c)
  <2>1. calls' = [calls EXCEPT ![c] = Idle] /\ purse' = purse
    BY <1>12 DEF CallFails
  <2>2. calls'[c] = Idle /\ \A d \in Chars \ {c} : calls'[d] = calls[d]
    BY <1>g, <2>1
  <2> QED
    BY <1>i, <1>p, <1>w, <2>1, <2>2
<1> QED
  BY <1>1, <1>2, <1>3, <1>4, <1>5, <1>6, <1>7, <1>8, <1>9, <1>10, <1>11, <1>12

\* A pruned mail keeps its money, or is gone with it.
LEMMA PrunedMoney ==
  ASSUME TypeOK, NEW c \in Chars, mails' = [m \in MailIds |-> mails'[m]],
         \A m \in MailIds : PrunedTo(m, mails'[m])
  PROVE  /\ OthersKept(c)
         /\ \A m \in MailIds : mails'[m] # None =>
              mails[m] # None /\ mails'[m].money = mails[m].money /\ mails'[m].cod = mails[m].cod
<1>1. \A m \in MailIds : mails'[m] # None =>
        mails[m] # None /\ mails'[m].money = mails[m].money /\ mails'[m].cod = mails[m].cod
  BY PrunedEffect
<1> QED
  BY <1>1 DEF OthersKept

\* The steps of a handler that write to the mails.
LEMMA MoneyWrites ==
  ASSUME TypeOK, TypeOK', LivesInv, OwnMails, Copies, purse \in [Chars -> Int], NEW c \in Chars,
         \/ SendStores(c) \/ TakeMoneyEmpties(c) \/ RemoveMailItemDeletes(c)
         \/ RemoveMailItemSendsCod(c) \/ RemoveMailItemUpdates(c) \/ DeleteItems(c) \/ DeleteTheMail(c)
  PROVE  MoneyStep
<1>0. /\ UNCHANGED <<ticker, purse>> /\ calls[c] \in CallStates /\ calls'[c] \in CallStates
      /\ purse[c] \in Int /\ nextId \in Nat
  <2>1. purse' = purse
    BY DEF SendStores, TakeMoneyEmpties, RemoveMailItemDeletes, RemoveMailItemSendsCod, RemoveMailItemUpdates,
           DeleteItems, DeleteTheMail, world
  <2> QED
    BY <2>1, TypeWrites DEF TypeOK
<1>w. OnTheWay(calls[c]) \in Nat /\ OnTheWay(calls'[c]) \in Nat
  BY <1>0, OnTheWayParts
<1>k. CallMoney(calls[c], mails)
  BY DEF Copies
<1>g. ASSUME NEW k, calls' = [calls EXCEPT ![c] = k]
      PROVE  calls'[c] = k /\ \A d \in Chars \ {c} : calls'[d] = calls[d]
  BY <1>g DEF TypeOK
<1>i. CallMoney(Idle, mails') /\ OnTheWay(Idle) = 0
  BY CallKinds, OnTheWayParts DEF CallMoney
<1>n. \A m \in MailIds : mails[m] # None => m # nextId /\ mails[m].money \in Nat
  <2>1. \A m \in MailIds : mails[m] # None => m < nextId /\ m \in Int /\ mails[m].money \in Nat
    BY DEF LivesInv, RowLives, TypeOK, Rows, MailIds
  <2> QED
    BY <1>0, <2>1
\* The handler writes its mail m, which then has money b ...
<1>x. ASSUME \A d \in Chars \ {c} : calls'[d] = calls[d], OthersKept(c), CallMoney(calls'[c], mails'),
             NEW m \in MailIds, \A n \in MailIds \ {m} : mails'[n] # None => mails[n] # None /\ mails'[n].money = mails[n].money,
             NEW a \in Nat, NEW b \in Nat,
             mails[m] = None => a = 0, mails[m] # None => a = mails[m].money,
             mails'[m] = None => b = 0, mails'[m] # None => b = mails'[m].money,
             OnTheWay(calls'[c]) + b <= OnTheWay(calls[c]) + a
      PROVE  MoneyStep
  <2>1. Copies'
    BY <1>0, <1>x, CopiesKept
  <2>2. \A d \in Chars \ {c} : purse'[d] = purse[d] /\ calls'[d] = calls[d]
    BY <1>0, <1>x
  <2>3. purse'[c] + OnTheWay(calls'[c]) + b <= purse[c] + OnTheWay(calls[c]) + a
    BY <1>0, <1>w, <1>x
  <2>4. Held' <= Held
    BY <1>0, <1>x, <2>2, <2>3, HeldExchange
  <2> QED
    BY <1>0, <2>1, <2>4 DEF MoneyStep
\* ... or no mail has more than before.
<1>y. ASSUME \A d \in Chars \ {c} : calls'[d] = calls[d], OthersKept(c), CallMoney(calls'[c], mails'),
             OnTheWay(calls'[c]) <= OnTheWay(calls[c]),
             \A n \in MailIds : mails'[n] # None => mails[n] # None /\ mails'[n].money <= mails[n].money
      PROVE  MoneyStep
  <2>1. Copies'
    BY <1>0, <1>y, CopiesKept
  <2>2. \A d \in Chars : purse'[d] + OnTheWay(calls'[d]) <= purse[d] + OnTheWay(calls[d])
    <3>1. \A d \in Chars : purse[d] + OnTheWay(calls[d]) \in Int
      BY OnTheWayParts DEF TypeOK
    <3> QED
      BY <1>0, <1>w, <1>y, <3>1
  <2>3. Held' <= Held
    BY <1>0, <1>y, <2>2, HeldNowhereMore
  <2> QED
    BY <1>0, <2>1, <2>3 DEF MoneyStep
<1> USE DEF GoOn, At
<1>1. CASE SendStores(c)
  <2>1. /\ calls[c] \in SendCalls /\ calls[c].at = "s_send" /\ calls' = [calls EXCEPT ![c] = Idle]
        /\ AddMail(c, calls[c].to, calls[c].money, calls[c].cod, calls[c].items)
    BY <1>1, HandlerWrites DEF SendStores
  <2>2. /\ calls[c].to \in Chars /\ calls[c].money \in Nat /\ calls[c].cod \in Nat
        /\ calls[c].items \in SUBSET Items
    BY <2>1 DEF SendCalls
  <2>3. /\ nextId \in MailIds /\ mails'[nextId] \in Rows /\ mails'[nextId].money = calls[c].money
        /\ \A m \in MailIds : m # nextId => mails'[m] = mails[m]
    BY <2>1, <2>2, AddMailEffect
  <2>4. calls'[c] = Idle /\ \A d \in Chars \ {c} : calls'[d] = calls[d]
    BY <1>g, <2>1
  <2>5. OnTheWay(calls[c]) = calls[c].money
    BY <1>0, <2>1, OnTheWayParts
  <2>6. OthersKept(c) /\ mails'[nextId] # None /\ mails[nextId] = None
    BY <1>n, <2>3, MailAssumption DEF OthersKept
  <2> QED
    BY <1>i, <1>x, <2>2, <2>3, <2>4, <2>5, <2>6
<1>2. CASE TakeMoneyEmpties(c)
  <2> DEFINE row == [calls[c].row EXCEPT !.money = 0]
             m == calls[c].row.id
  <2>1. /\ calls[c] \in MoneyCalls /\ calls[c].row \in Rows /\ mails' = UpdateMail(row) /\ calls[c].at = "m_upd"
        /\ calls' = [calls EXCEPT ![c] = IF mails[m] = None THEN Idle ELSE [at |-> "m_pay", row |-> calls[c].row]]
    BY <1>2, HandlerWrites DEF TakeMoneyEmpties
  <2>2. MailOf(calls[c]) = {m} /\ m \in MailIds
    BY <1>0, <2>1, MailOfParts
  <2>3. row \in Rows /\ row.id = m /\ row.money = 0
    BY <2>1, WithMoney
  <2> HIDE DEF row
  <2>4. \A n \in MailIds :
          /\ n # m \/ mails[n] = None => mails'[n] = mails[n]
          /\ n = m /\ mails[n] # None => mails'[n] # None /\ mails'[n].money = 0
    BY <2>1, <2>3, UpdateMailEffect
  <2>5. OthersKept(c)
    BY <2>2, <2>4 DEF OthersKept
  <2>6. OnTheWay(calls[c]) = 0
    BY <1>0, <2>1, OnTheWayParts
  <2>7. CASE mails[m] = None
    <3>1. calls'[c] = Idle /\ \A d \in Chars \ {c} : calls'[d] = calls[d]
      BY <1>g, <2>1, <2>7
    <3>2. \A n \in MailIds : mails'[n] # None => mails[n] # None /\ mails'[n].money <= mails[n].money
      BY <1>n, <2>4, <2>7
    <3> QED
      BY <1>i, <1>y, <2>5, <2>6, <3>1, <3>2
  <2>8. CASE mails[m] # None
    <3> DEFINE k == [at |-> "m_pay", row |-> calls[c].row]
    <3>1. calls'[c] = k /\ \A d \in Chars \ {c} : calls'[d] = calls[d]
      BY <1>g, <2>1, <2>8
    <3>2. k.at = "m_pay" /\ k.row = calls[c].row /\ CallMoney(k, mails')
      BY DEF CallMoney
    <3> HIDE DEF k
    <3>3. OnTheWay(calls'[c]) = calls[c].row.money /\ calls[c].row.money \in Nat
      BY <1>0, <2>1, <3>1, <3>2, OnTheWayParts DEF Rows
    <3>4. calls[c].row.money <= mails[m].money
      BY <1>k, <2>1, <2>8 DEF CallMoney
    <3>5. mails'[m] # None /\ mails'[m].money = 0 /\ mails[m].money \in Nat
      BY <1>n, <2>2, <2>4, <2>8
    <3>6. \A n \in MailIds \ {m} : mails'[n] # None => mails[n] # None /\ mails'[n].money = mails[n].money
      BY <2>4
    <3> QED
      BY <1>x, <2>2, <2>5, <2>6, <2>8, <3>1, <3>2, <3>3, <3>4, <3>5, <3>6
  <2> QED
    BY <2>7, <2>8
<1>3. CASE RemoveMailItemDeletes(c)
  <2> DEFINE k == [calls[c] EXCEPT !.at = "i_cod"]
             m == calls[c].row.id
  <2>1. /\ calls[c] \in RemoveCalls /\ calls[c].at = "i_del" /\ m \in MailIds
        /\ calls' = [calls EXCEPT ![c] = k] \/ calls' = [calls EXCEPT ![c] = Idle]
    BY <1>3, HandlerWrites DEF RemoveMailItemDeletes
  <2>2. /\ OthersKept(c)
        /\ \A n \in MailIds : mails'[n] # None => mails[n] # None /\ mails'[n].money = mails[n].money
    BY <1>3, HandlerWrites, PrunedMoney
  <2>3. \A n \in MailIds : mails'[n] # None => mails[n] # None /\ mails'[n].money <= mails[n].money
    BY <1>n, <2>2
  <2>4. k.at = "i_cod" /\ k.row = calls[c].row /\ k.cod = calls[c].cod
    BY <2>1 DEF RemoveCalls
  <2> HIDE DEF k
  <2>5. CallMoney(k, mails')
    BY <1>k, <2>1, <2>2, <2>4 DEF CallMoney
  <2>6. calls'[c] \in {k, Idle} /\ \A d \in Chars \ {c} : calls'[d] = calls[d]
    BY <1>g, <2>1
  <2>7. OnTheWay(calls[c]) = calls[c].cod
    BY <1>0, <2>1, OnTheWayParts
  <2>8. calls'[c] = k => OnTheWay(calls'[c]) = calls[c].cod
    BY <1>0, <2>4, OnTheWayParts
  <2>9. OnTheWay(calls'[c]) <= OnTheWay(calls[c])
    BY <1>i, <1>w, <2>6, <2>7, <2>8
  <2> QED
    BY <1>i, <1>y, <2>2, <2>3, <2>5, <2>6, <2>9
<1>4. CASE RemoveMailItemSendsCod(c)
  <2> DEFINE k == [calls[c] EXCEPT !.at = "i_upd"]
             m == calls[c].row.id
  <2>1. /\ calls[c] \in RemoveCalls /\ calls[c].row \in Rows /\ calls[c].at = "i_cod"
        /\ \/ AddMail(calls[c].row.to, calls[c].row.from, calls[c].row.cod, 0, {})
           \/ UNCHANGED <<mails, nextId>>
        /\ calls' = [calls EXCEPT ![c] = k]
    BY <1>4, HandlerWrites DEF RemoveMailItemSendsCod
  <2>2. /\ calls[c].row.to \in Chars /\ calls[c].row.from \in Chars /\ calls[c].row.cod \in Nat
        /\ m \in MailIds /\ m \in MailOf(calls[c]) /\ calls[c].cod \in Nat
    BY <1>0, <2>1, MailOfParts DEF Rows, RemoveCalls
  <2>3. k.at = "i_upd" /\ k.row = calls[c].row
    BY <2>1 DEF RemoveCalls
  <2> HIDE DEF k
  <2>4. calls'[c] = k /\ \A d \in Chars \ {c} : calls'[d] = calls[d]
    BY <1>g, <2>1
  <2>5. OnTheWay(calls[c]) = calls[c].cod /\ OnTheWay(calls'[c]) = 0
    BY <1>0, <2>1, <2>3, <2>4, OnTheWayParts
  <2>6. CASE UNCHANGED <<mails, nextId>>
    <3>1. CallMoney(k, mails')
      BY <1>k, <2>1, <2>3, <2>6 DEF CallMoney
    <3>2. OthersKept(c)
      BY <2>6 DEF OthersKept
    <3>3. \A n \in MailIds : mails'[n] # None => mails[n] # None /\ mails'[n].money <= mails[n].money
      BY <1>n, <2>6
    <3> QED
      BY <1>w, <1>y, <2>4, <2>5, <3>1, <3>2, <3>3
  <2>7. CASE AddMail(calls[c].row.to, calls[c].row.from, calls[c].row.cod, 0, {})
    <3>1. /\ nextId \in MailIds /\ mails'[nextId] \in Rows /\ mails'[nextId].money = calls[c].row.cod
          /\ \A n \in MailIds : n # nextId => mails'[n] = mails[n]
      BY <2>2, <2>7, AddMailEffect
    <3>2. OthersKept(c) /\ mails'[nextId] # None /\ mails[nextId] = None
      BY <1>n, <3>1, MailAssumption DEF OthersKept
    <3>3. m # nextId
      <4>1. m < nextId /\ m \in Int
        BY <2>2 DEF OwnMails, MailIds
      <4> QED
        BY <1>0, <4>1
    <3>4. CallMoney(k, mails')
      BY <1>k, <2>1, <2>2, <2>3, <3>1, <3>3 DEF CallMoney
    <3>5. calls[c].row.cod <= calls[c].cod
      BY <1>k, <2>1 DEF CallMoney
    <3> QED
      BY <1>x, <2>2, <2>4, <2>5, <3>1, <3>2, <3>4, <3>5
  <2> QED
    BY <2>1, <2>6, <2>7
<1>5. CASE RemoveMailItemUpdates(c)
  <2> DEFINE row == [calls[c].row EXCEPT !.cod = 0]
             m == calls[c].row.id
  <2>1. /\ calls[c] \in RemoveCalls /\ calls[c].row \in Rows /\ calls[c].at = "i_upd"
        /\ mails' = UpdateMail(row) \/ mails' = UpdateMail(calls[c].row) \/ mails' = mails
        /\ calls' = [calls EXCEPT ![c] = Idle]
    BY <1>5, HandlerWrites DEF RemoveMailItemUpdates
  <2>2. MailOf(calls[c]) = {m} /\ m \in MailIds /\ calls[c].row.money \in Nat
    BY <1>0, <2>1, MailOfParts DEF Rows
  <2>3. row \in Rows /\ row.id = m /\ row.money = calls[c].row.money
    BY <2>1, WithCod
  <2> HIDE DEF row
  <2>4. \A n \in MailIds :
          /\ n # m \/ mails[n] = None => mails'[n] = mails[n]
          /\ n = m /\ mails[n] # None => mails'[n] = mails[n] \/ mails'[n].money = calls[c].row.money
    <3>1. CASE mails' = UpdateMail(row)
      BY <2>3, <3>1, UpdateMailEffect
    <3>2. CASE mails' = UpdateMail(calls[c].row)
      BY <2>1, <3>2, UpdateMailEffect
    <3>3. CASE mails' = mails
      BY <3>3
    <3> QED
      BY <2>1, <3>1, <3>2, <3>3
  <2>5. OthersKept(c)
    BY <2>2, <2>4 DEF OthersKept
  <2>6. calls'[c] = Idle /\ \A d \in Chars \ {c} : calls'[d] = calls[d]
    BY <1>g, <2>1
  <2>7. mails[m] = None \/ calls[c].row.money <= mails[m].money
    BY <1>k, <2>1 DEF CallMoney
  <2>8. \A n \in MailIds : mails'[n] # None => mails[n] # None /\ mails'[n].money <= mails[n].money
    BY <1>n, <2>4, <2>7
  <2> QED
    BY <1>i, <1>w, <1>y, <2>5, <2>6, <2>8
<1>6. CASE DeleteItems(c)
  <2> DEFINE k == [calls[c] EXCEPT !.at = "d_mail"]
  <2>1. /\ calls[c] \in DeleteCalls /\ calls' = [calls EXCEPT ![c] = k]
    BY <1>6, HandlerWrites DEF DeleteItems
  <2>2. /\ OthersKept(c)
        /\ \A n \in MailIds : mails'[n] # None => mails[n] # None /\ mails'[n].money = mails[n].money
    BY <1>6, HandlerWrites, PrunedMoney
  <2>3. \A n \in MailIds : mails'[n] # None => mails[n] # None /\ mails'[n].money <= mails[n].money
    BY <1>n, <2>2
  <2>4. k.at = "d_mail"
    BY <2>1 DEF DeleteCalls
  <2> HIDE DEF k
  <2>5. CallMoney(k, mails')
    BY <2>4 DEF CallMoney
  <2>6. calls'[c] = k /\ \A d \in Chars \ {c} : calls'[d] = calls[d]
    BY <1>g, <2>1
  <2>7. OnTheWay(calls'[c]) = 0
    BY <1>0, <2>4, <2>6, OnTheWayParts
  <2> QED
    BY <1>w, <1>y, <2>2, <2>3, <2>5, <2>6, <2>7
<1>7. CASE DeleteTheMail(c)
  <2>1. calls'[c] = Idle /\ \A d \in Chars \ {c} : calls'[d] = calls[d]
    BY <1>7, <1>g DEF DeleteTheMail
  <2>2. /\ OthersKept(c)
        /\ \A n \in MailIds : mails'[n] # None => mails[n] # None /\ mails'[n].money = mails[n].money
    BY <1>7, HandlerWrites, PrunedMoney
  <2>3. \A n \in MailIds : mails'[n] # None => mails[n] # None /\ mails'[n].money <= mails[n].money
    BY <1>n, <2>2
  <2> QED
    BY <1>i, <1>w, <1>y, <2>1, <2>2, <2>3
<1> QED
  BY <1>1, <1>2, <1>3, <1>4, <1>5, <1>6, <1>7

\* A step of the cleanup, or of time: no mail gains, none that a handler works on
\* changes its money or its payment.
LEMMA MoneyBeside ==
  ASSUME TypeOK, TypeOK', Copies, purse \in [Chars -> Int], UNCHANGED <<purse, calls>>,
         \A m \in MailIds : mails'[m] # None => mails[m] # None /\ mails'[m].money <= mails[m].money,
         \A c \in Chars : \A m \in MailOf(calls[c]) : mails'[m] # None =>
           mails'[m].money = mails[m].money /\ mails'[m].cod = mails[m].cod,
         TickerMoney(ticker', mails')
  PROVE  MoneyStep
<1>1. ASSUME NEW c \in Chars PROVE CallMoney(calls'[c], mails')
  <2>1. calls'[c] = calls[c] /\ calls[c] \in CallStates /\ CallMoney(calls[c], mails) /\ MailOf(calls[c]) \subseteq MailIds
    BY MailOfParts DEF TypeOK, Copies
  <2>2. /\ calls[c].at \in {"m_upd", "i_del", "i_cod", "i_upd"} => calls[c].row.id \in MailOf(calls[c])
        /\ calls[c].at \in {"i_pay", "i_add", "i_read"} => calls[c].id \in MailOf(calls[c])
    BY <2>1, MailOfParts
  <2>3. \A m \in MailOf(calls[c]) : mails'[m] # None =>
          mails[m] # None /\ mails'[m].money = mails[m].money /\ mails'[m].cod = mails[m].cod
    BY <2>1
  <2> QED
    BY <2>1, <2>2, <2>3 DEF CallMoney
<1>2. \A d \in Chars : purse'[d] + OnTheWay(calls'[d]) <= purse[d] + OnTheWay(calls[d])
  <2>1. \A d \in Chars : purse[d] + OnTheWay(calls[d]) \in Int
    BY OnTheWayParts DEF TypeOK
  <2> QED
    BY <2>1
<1>3. purse' \in [Chars -> Int]
  OBVIOUS
<1>4. Held' <= Held
  BY <1>2, <1>3, HeldNowhereMore
<1> QED
  BY <1>1, <1>3, <1>4 DEF MoneyStep, Copies

LEMMA MoneyTicker ==
  ASSUME TypeOK, TypeOK', OwnMails, Copies, purse \in [Chars -> Int], Ticker
  PROVE  MoneyStep
<1>0. UNCHANGED <<purse, calls>>
  BY TickerWrites DEF Ticker, ExpiredMails, DeleteEmpty, ReturnOne, DeleteReturned, DeleteReturnedMails, TickerFails, world
<1>1. \A m \in MailIds : mails[m] # None => mails[m].id = m /\ mails[m].money \in Nat
  BY DEF TypeOK, Rows
<1>2. \A c \in Chars : \A m \in MailOf(calls[c]) : m \in MailIds /\ \A r \in ticker.mails : r.id # m
  BY MailOfParts DEF OwnMails, TypeOK
<1>3. \A r \in ticker.mails : r \in Rows /\ r.id \in MailIds
  BY DEF TypeOK, Rows
<1>4. CASE ExpiredMails
  <2>1. mails' = mails /\ ticker'.mails = {mails[m] : m \in {x \in MailIds : mails[x] # None /\ mails[x].expired}}
    BY <1>4 DEF ExpiredMails
  <2>2. TickerMoney(ticker', mails')
    BY <1>1, <2>1 DEF TickerMoney
  <2>3. \A m \in MailIds : mails'[m] # None => mails[m] # None /\ mails'[m].money <= mails[m].money
    BY <1>1, <2>1
  <2> QED
    BY <1>0, <2>1, <2>2, <2>3, MoneyBeside
<1>5. CASE ReturnOne
  <2>1. PICK row \in ticker.mails :
          /\ row \in Rows /\ ReturnedRow(row) \in Rows /\ mails' = UpdateMail(ReturnedRow(row))
          /\ ticker' = [ticker EXCEPT !.mails = @ \ {row}]
    BY <1>5, ReturnOneRow
  <2>2. ReturnedRow(row).id = row.id /\ ReturnedRow(row).money = row.money
    BY <2>1, WithReturned
  <2>3. \A m \in MailIds :
          /\ m # row.id \/ mails[m] = None => mails'[m] = mails[m]
          /\ m = row.id /\ mails[m] # None => mails'[m].money = row.money
    BY <2>1, <2>2, UpdateMailEffect
  <2>4. mails[row.id] = None \/ row.money = mails[row.id].money
    BY <2>1 DEF Copies, TickerMoney
  <2>5. \A m \in MailIds : mails'[m] # None => mails[m] # None /\ mails'[m].money = mails[m].money
    BY <2>3, <2>4
  <2>6. ticker'.mails \subseteq ticker.mails
    BY <2>1 DEF TypeOK
  <2>7. TickerMoney(ticker', mails')
    BY <1>3, <2>5, <2>6 DEF Copies, TickerMoney
  <2>8. \A c \in Chars : \A m \in MailOf(calls[c]) : mails'[m] = mails[m]
    BY <1>2, <2>1, <2>3
  <2>9. \A m \in MailIds : mails'[m] # None => mails[m] # None /\ mails'[m].money <= mails[m].money
    BY <1>1, <2>5
  <2> QED
    BY <1>0, <2>7, <2>8, <2>9, MoneyBeside
<1>6. CASE ~ExpiredMails /\ ~ReturnOne
  <2>1. ticker'.mails \subseteq ticker.mails
    BY <1>6, TickerHolds
  <2>2. \A m \in MailIds : mails'[m] # None =>
          mails[m] # None /\ mails'[m].money = mails[m].money /\ mails'[m].cod = mails[m].cod
    <3>1. CASE mails' = mails
      BY <3>1
    <3>2. CASE mails' = [m \in MailIds |-> mails'[m]] /\ \A m \in MailIds : PrunedTo(m, mails'[m])
      BY <3>2, PrunedEffect
    <3> QED
      BY <1>6, <3>1, <3>2, TickerWrites
  <2>3. TickerMoney(ticker', mails')
    BY <1>3, <2>1, <2>2 DEF Copies, TickerMoney
  <2>4. \A m \in MailIds : mails'[m] # None => mails[m] # None /\ mails'[m].money <= mails[m].money
    BY <1>1, <2>2
  <2>5. \A c \in Chars : \A m \in MailOf(calls[c]) : mails'[m] # None =>
          mails'[m].money = mails[m].money /\ mails'[m].cod = mails[m].cod
    BY <1>2, <2>2
  <2> QED
    BY <1>0, <2>3, <2>4, <2>5, MoneyBeside
<1> QED
  BY <1>4, <1>5, <1>6

\* Nothing happens to the mails' money.
LEMMA MoneyKept ==
  ASSUME TypeOK, TypeOK', Copies, purse \in [Chars -> Int], UNCHANGED <<purse, calls, ticker>>,
         \A m \in MailIds : mails'[m] # None =>
           mails[m] # None /\ mails'[m].money = mails[m].money /\ mails'[m].cod = mails[m].cod
  PROVE  MoneyStep
<1>1. \A m \in MailIds : mails[m] # None => mails[m].money \in Nat
  BY DEF TypeOK, Rows
<1>2. \A c \in Chars : MailOf(calls[c]) \subseteq MailIds
  BY MailOfParts DEF TypeOK
<1>3. TickerMoney(ticker', mails')
  BY DEF Copies, TickerMoney, TypeOK, Rows
<1>4. \A m \in MailIds : mails'[m] # None => mails[m] # None /\ mails'[m].money <= mails[m].money
  BY <1>1
<1>5. \A c \in Chars : \A m \in MailOf(calls[c]) : mails'[m] # None =>
        mails'[m].money = mails[m].money /\ mails'[m].cod = mails[m].cod
  BY <1>2
<1> QED
  BY <1>3, <1>4, <1>5, MoneyBeside

\* The game server's purses, also when the cleanup has interfered.
LEMMA PurseType ==
  ASSUME TypeOK, purse \in [Chars -> Int], [Next]_vars
  PROVE  purse' \in [Chars -> Int]
<1>1. ASSUME NEW c \in Chars, Session(c) PROVE purse' \in [Chars -> Int]
  <2>0. calls[c] \in CallStates
    BY DEF TypeOK
  <2> USE DEF At, GoOn, world
  <2>1. CASE SendTakesMoney(c)
    <3>1. calls[c] \in SendCalls /\ purse' = [purse EXCEPT ![c] = @ - (Postage(Cardinality(calls[c].items)) + calls[c].money)]
      BY <2>0, <2>1, CallParts DEF SendTakesMoney
    <3>2. calls[c].money \in Nat /\ Postage(Cardinality(calls[c].items)) \in Nat
      BY <3>1, PostageIsNat DEF SendCalls
    <3> QED
      BY <3>1, <3>2
  <2>2. CASE TakeMoneyPays(c)
    BY <2>0, <2>2, CallParts DEF TakeMoneyPays, MoneyCalls, Rows
  <2>3. CASE TakeItemPays(c)
    BY <2>0, <2>3, CallParts DEF TakeItemPays, TakeCalls
  <2>4. CASE SendChecked(c) \/ TakeMoneyReads(c) \/ TakeItemReads(c) \/ DeleteReads(c)
    BY <2>4 DEF SendChecked, TakeMoneyReads, TakeItemReads, DeleteReads, Starts
  <2>5. CASE SendTakesItems(c) \/ SendStores(c) \/ TakeMoneyEmpties(c) \/ TakeItemAdds(c)
    BY <2>5 DEF SendTakesItems, SendStores, TakeMoneyEmpties, TakeItemAdds
  <2>6. CASE RemoveMailItemReads(c) \/ RemoveMailItemDeletes(c) \/ RemoveMailItemSendsCod(c) \/ RemoveMailItemUpdates(c)
    BY <2>6 DEF RemoveMailItemReads, RemoveMailItemDeletes, RemoveMailItemSendsCod, RemoveMailItemUpdates, Quietly
  <2>7. CASE DeleteReadsAgain(c) \/ DeleteItems(c) \/ DeleteTheMail(c) \/ CallFails(c)
    BY <2>7 DEF DeleteReadsAgain, DeleteItems, DeleteTheMail, CallFails, Quietly
  <2> QED
    BY <1>1, <2>1, <2>2, <2>3, <2>4, <2>5, <2>6, <2>7 DEF Session
<1>2. CASE Ticker
  BY <1>2 DEF Ticker, ExpiredMails, DeleteEmpty, ReturnOne, DeleteReturned, DeleteReturnedMails, TickerFails, world
<1>3. ASSUME NEW m \in MailIds, Expire(m) PROVE purse' \in [Chars -> Int]
  BY <1>3 DEF Expire, world
<1> QED
  BY <1>1, <1>2, <1>3 DEF Next, vars, world

\* Sums are integers.
LEMMA HeldIsInt ==
  ASSUME NEW pu \in [Chars -> Int], NEW ca \in [Chars -> CallStates], NEW ms \in [MailIds -> Rows \cup {None}]
  PROVE  SumOf(Wallets(pu, ca), Chars) + SumOf(Contents(ms), MailIds) \in Int
<1> DEFINE w == Wallets(pu, ca)
           v == Contents(ms)
<1>1. w \in [Chars -> Int] /\ v \in [MailIds -> Int]
  BY HeldTypes
<1> HIDE DEF w, v
<1>2. (\A c \in Chars : w[c] <= w[c]) /\ \A m \in MailIds : v[m] <= v[m]
  BY <1>1
<1>3. SumOf(w, Chars) \in Int
  BY <1>1, <1>2, FiniteParts, SumIsMonotonic
<1>4. SumOf(v, MailIds) \in Int
  BY <1>1, <1>2, FiniteParts, SumIsMonotonic
<1> QED
  BY <1>3, <1>4 DEF w, v

LEMMA MoneyInvStep ==
  ASSUME TypeOK, TypeOK', LivesInv, UniqueInv, MoneyInv, [Next]_vars
  PROVE  MoneyInv'
<1>0. purse \in [Chars -> Int] /\ (stale' = {} => stale = {} /\ OwnMails /\ Copies)
  BY HistoryGrows DEF MoneyInv, UniqueInv
<1>h. Held \in Int /\ Purse * Cardinality(Chars) \in Int
  <2>1. Held \in Int
    BY <1>0, HeldIsInt DEF TypeOK, Held
  <2>2. Cardinality(Chars) \in Nat /\ Purse \in Nat
    BY FiniteParts, FS_CardinalityType, MailAssumption
  <2> QED
    BY <2>1, <2>2
<1>1. purse' \in [Chars -> Int]
  BY <1>0, PurseType
<1>2. ASSUME stale' = {} PROVE MoneyStep
  <2>0. OwnMails /\ Copies
    BY <1>0, <1>2
  <2>1. ASSUME NEW c \in Chars, Session(c) PROVE MoneyStep
    BY <1>0, <2>0, <2>1, MoneyQuiet, MoneyWrites DEF Session
  <2>2. CASE Ticker
    BY <1>0, <2>0, <2>2, MoneyTicker
  <2>3. ASSUME NEW m \in MailIds, Expire(m) PROVE MoneyStep
    <3>1. UNCHANGED <<purse, calls, ticker>>
      BY <2>3 DEF Expire, world
    <3>2. \A n \in MailIds : mails'[n] # None =>
            mails[n] # None /\ mails'[n].money = mails[n].money /\ mails'[n].cod = mails[n].cod
      BY <2>3, ExpireEffect
    <3> QED
      BY <1>0, <2>0, <3>1, <3>2, MoneyKept
  <2>4. CASE UNCHANGED vars
    BY <1>0, <2>0, <2>4, MoneyKept DEF vars, world
  <2> QED
    BY <2>1, <2>2, <2>3, <2>4 DEF Next
<1>3. ASSUME stale' = {} PROVE Held' <= Purse * Cardinality(Chars) /\ Copies'
  <2>1. Held <= Purse * Cardinality(Chars) /\ Copies' /\ Held' <= Held
    BY <1>0, <1>2, <1>3 DEF MoneyInv, MoneyStep
  <2>2. Held' \in Int
    BY <1>1, HeldIsInt DEF TypeOK, Held
  <2> QED
    BY <1>h, <2>1, <2>2
<1> QED
  BY <1>1, <1>3 DEF MoneyInv

\* RemoveMailMoneyForPlayer, RemoveMailItem with its payment on delivery, HandleSendMail,
\* DeleteMail and the cleanup, for all characters, purses, prices and failures:
\* purses, mails and running handlers never hold more money than at the start, unless
\* a session and a cleanup pass worked on the same mail.
THEOREM NoMoneyIsMade == Spec => []NoMoneyFromNothing
<1>1. Init => TypeOK /\ LivesInv /\ UniqueInv /\ MoneyInv
  BY TypeInit, LivesInit, UniqueInit, MoneyInit
<1>2. TypeOK /\ LivesInv /\ UniqueInv /\ MoneyInv /\ [Next]_vars => TypeOK' /\ LivesInv' /\ UniqueInv' /\ MoneyInv'
  BY TypeStep, LivesStep, UniqueStep, MoneyInvStep
<1>3. MoneyInv => NoMoneyFromNothing
  BY MoneyIsHeld DEF MoneyInv, NoMoneyFromNothing
<1> QED
  BY <1>1, <1>2, <1>3, PTL DEF Spec
=============================================================================
