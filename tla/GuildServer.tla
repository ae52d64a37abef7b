---------------------------- MODULE GuildServer ----------------------------
(***************************************************************************)
(* The guild server (apps/guildserver): the calls that change a guild, the *)
(* characters database they write to, and the in-memory cache every call   *)
(* reads from.                                                             *)
(*                                                                         *)
(* A call runs in its own goroutine and takes no lock across its steps:    *)
(*   Begin    finds the guilds of caller and target in the members' index, *)
(*   decide   reads the cached guild, checks rights and ranks (one action  *)
(*            per operation of guildServiceImpl),                          *)
(*   DbStep   executes the statement of guildsMySQLRepo,                   *)
(*   CacheStep does the same to guildsInMemCache and publishes the event.  *)
(* A gateway session waits for the answer of one call before it sends the  *)
(* next, so a character has one call at a time.  A nil dereference ends    *)
(* the process (no interceptor recovers); it comes back with Warmup.       *)
(***************************************************************************)
EXTENDS Integers, Sequences, FiniteSets, SequencesExt, FiniteSetsExt

CONSTANTS GuildChars,     \* characters
          Guilds,         \* guilds
          Nothing,        \* no guild (id 0), no row, no text
          Founder,        \* Founder[g]: the guild's master
          FirstMember,    \* FirstMember[c]: the guild_member row, or Nothing
          FirstInvite,    \* FirstInvite[c]: the guild_invites row, or Nothing
          FirstRights,    \* FirstRights[g][rid]: the guild_rank rows
          RightsChoices,  \* what a client may send as the rights of a rank
          GuildRankMax,   \* 10 in the code
          MaxCalls,       \* bound on the calls of a behaviour
          MaxGuildFaults  \* bound on failing statements

\* The master's rank, and the width of a rank (uint8).
GuildRankGuildMaster == 0
U8(n) == n % 256

GuildAssumption ==
  /\ GuildRankMax \in 2 .. 255 /\ MaxCalls \in Nat /\ MaxGuildFaults \in Nat
  /\ Nothing \notin Guilds /\ Nothing \notin GuildChars
  /\ FirstMember \in
       [GuildChars -> [g : Guilds, rank : 0 .. 255, note : GuildChars \cup {Nothing}] \cup {Nothing}]
  /\ FirstInvite \in [GuildChars -> Guilds \cup {Nothing}]
  /\ Founder \in [Guilds -> GuildChars]
  /\ \A g \in Guilds : FirstMember[Founder[g]] =
                         [g |-> g, rank |-> GuildRankGuildMaster, note |-> Nothing]
  /\ \A c \in GuildChars : FirstMember[c] # Nothing /\ FirstMember[c].rank = GuildRankGuildMaster
                           => c = Founder[FirstMember[c].g]
  /\ DOMAIN FirstRights = Guilds
  /\ \A g \in Guilds : \E n \in 2 .. GuildRankMax :
       FirstRights[g] = [rid \in 0 .. n - 1 |-> FirstRights[g][rid]]
ASSUME GuildConstants == GuildAssumption

VARIABLES
  db,          \* [member, rights, invite, motd]: the tables of the realm
  index,       \* guildMembersCache: character -> guild of its GuildMember
  entries,     \* cache[g].GuildMembers: the objects listed for c, oldest first
  ranks,       \* cache[g].GuildRanks, in slice order
  motd,        \* cache[g].MessageOfTheDay (Info behaves alike)
  guildCalls,  \* the call each character has in flight, or NoCall
  callsLeft,   \* calls that may still begin
  guildFaults, \* statements that may still fail
  raced,       \* characters two calls in flight wanted to change (history)
  stripped     \* guilds that were down to the master's rank (history)

cacheVars    == <<index, entries, ranks, motd>>
guildHistory == <<callsLeft, guildFaults, raced, stripped>>
guildVars    == <<db, cacheVars, guildCalls, guildHistory>>

NoCall == [at |-> "idle"]
-----------------------------------------------------------------------------
\* rankForMember, rankWithID, guildMemberForMemberGuid: nil is the empty set.
RankWithID(g, rid) == {r \in Range(ranks[g]) : r.rid = rid}
MemberOf(g, c) ==
  IF c \in GuildChars /\ entries[g][c] # <<>> THEN {Head(entries[g][c])} ELSE {}
RankForMember(g, c) == UNION {RankWithID(g, m.rank) : m \in MemberOf(g, c)}

\* lowestRankInGuild: the highest id, 0 when there is none.
LowestRankInGuild(g) == Max({0} \cup {r.rid : r \in Range(ranks[g])})

\* HasRight: every right contains the bit of RightEmpty, and a rank has the
\* right when the common bits are anything else than that bit alone.
RightEmpty == {"empty"}
HasRight(rk, right) == rk.rights \cap (RightEmpty \cup {right}) # RightEmpty

\* The one rank a non-nil pointer leads to.
The(S) == CHOOSE r \in S : TRUE

\* The rows as LoadAllForRealm and Warmup put them into the cache, ordered by id.
NthRank(rows, n) == CHOOSE rid \in DOMAIN rows : Cardinality({x \in DOMAIN rows : x < rid}) = n - 1
RanksFrom(rows) ==
  [i \in 1 .. Cardinality(DOMAIN rows) |->
     [rid |-> NthRank(rows, i), rights |-> rows[NthRank(rows, i)]]]
IndexFrom(rows) == [c \in GuildChars |-> IF rows[c] = Nothing THEN Nothing ELSE rows[c].g]
EntriesFrom(rows) ==
  [g \in Guilds |-> [c \in GuildChars |->
     IF rows[c] # Nothing /\ rows[c].g = g
     THEN <<[rank |-> rows[c].rank, note |-> rows[c].note]>> ELSE <<>>]]

GuildInit ==
  /\ db = [member |-> FirstMember, rights |-> FirstRights,
           invite |-> FirstInvite, motd |-> [g \in Guilds |-> Nothing]]
  /\ index = IndexFrom(FirstMember)
  /\ entries = EntriesFrom(FirstMember)
  /\ ranks = [g \in Guilds |-> RanksFrom(FirstRights[g])]
  /\ motd = [g \in Guilds |-> Nothing]
  /\ guildCalls = [c \in GuildChars |-> NoCall]
  /\ callsLeft = MaxCalls /\ guildFaults = MaxGuildFaults
  /\ raced = {} /\ stripped = {}
-----------------------------------------------------------------------------
\* The process dies of a panic, or for any other reason, and is started again:
\* the calls in flight are gone, Warmup reads everything from the database.
Warmup(d) ==
  /\ index' = IndexFrom(d.member)
  /\ entries' = EntriesFrom(d.member)
  /\ ranks' = [g \in Guilds |-> RanksFrom(d.rights[g])]
  /\ motd' = d.motd
  /\ guildCalls' = [c \in GuildChars |-> NoCall]
  /\ raced' = {}
  /\ UNCHANGED <<callsLeft, guildFaults, stripped>>
Panic == Warmup(db) /\ UNCHANGED db

\* The call of u goes on with r, or ends.
Proceeds(u, r) == guildCalls' = [guildCalls EXCEPT ![u] = r]
Refuse(u)  == Proceeds(u, NoCall) /\ UNCHANGED <<db, cacheVars, guildHistory>>
Write(u, w) ==
  /\ Proceeds(u, [at |-> "db", w |-> w])
  /\ UNCHANGED <<db, cacheVars, guildHistory>>

\* The character whose guild_member row the call will change, if any.
Subject(call) ==
  CASE call.at = "idle"   -> Nothing
    [] call.at = "decide" -> IF call.op \in {"leave", "kick", "promote", "demote", "note", "offnote"}
                             THEN call.t ELSE Nothing
    [] call.at = "accept" -> call.c
    [] OTHER              -> IF call.w.k \in {"join", "part", "rank", "note"}
                             THEN call.w.c ELSE Nothing
Began(u, call) ==
  /\ guildCalls[u] = NoCall /\ callsLeft > 0
  /\ Proceeds(u, call)
  /\ callsLeft' = callsLeft - 1
  /\ raced' = raced \cup
       {c \in GuildChars : Subject(call) = c /\ \E v \in GuildChars : Subject(guildCalls[v]) = c}
  /\ UNCHANGED <<db, cacheVars, guildFaults, stripped>>

\* guildByMemberGUID and GuildIDByRealmAndMemberGUID: the caller's guild, and
\* for the calls about another character that one's, read from the index.
OwnOps    == {"leave", "motd", "rights", "addrank", "droprank"}
TargetOps == {"kick", "promote", "demote", "note", "offnote"}
Begin(u) ==
  /\ index[u] # Nothing
  /\ \E op \in OwnOps \cup TargetOps \cup {"invite"}, t \in GuildChars :
       /\ op \in OwnOps => t = u
       /\ op \in TargetOps => index[t] = index[u]
       /\ op = "invite" => index[t] = Nothing
       /\ Began(u, [at |-> "decide", op |-> op, g |-> index[u], t |-> t])

\* InviteAccepted up to the removal of the invitation: the row says which guild.
InviteAccepted(u) ==
  /\ db.invite[u] # Nothing
  /\ Began(u, [at |-> "accept", c |-> u, g |-> db.invite[u]])

Deciding(u, ops) == guildCalls[u].at = "decide" /\ guildCalls[u].op \in ops

InviteMember(u) ==
  /\ Deciding(u, {"invite"})
  /\ LET call == guildCalls[u]  rank == RankForMember(call.g, u)
     IN  IF rank # {} /\ HasRight(The(rank), "invite")
         THEN Write(u, [k |-> "invite", c |-> call.t, g |-> call.g, by |-> u])
         ELSE Refuse(u)

\* Fault: the guild master may leave.
LeaveMasterToo(u) ==
  /\ Deciding(u, {"leave"})
  /\ LET rank == RankForMember(guildCalls[u].g, u)
     IN  IF rank = {} THEN Panic
         ELSE Write(u, [k |-> "part", c |-> u])

Leave(u) ==
  /\ Deciding(u, {"leave"})
  /\ LET rank == RankForMember(guildCalls[u].g, u)
     IN  IF rank = {} THEN Panic
         ELSE IF The(rank).rid = GuildRankGuildMaster THEN Refuse(u)
         ELSE Write(u, [k |-> "part", c |-> u])

Kick(u) ==
  /\ Deciding(u, {"kick"})
  /\ LET call == guildCalls[u]
         kicker == RankForMember(call.g, u)
         target == RankForMember(call.g, call.t)
     IN  IF kicker = {} THEN Panic
         ELSE IF ~HasRight(The(kicker), "remove") THEN Refuse(u)
         ELSE IF target = {} THEN Panic
         ELSE IF The(kicker).rid >= The(target).rid THEN Refuse(u)
         ELSE Write(u, [k |-> "part", c |-> call.t])

\* PromoteMember and DemoteMember (updateRank).  Promoting rank 0 wraps.
NewRank(op, rid) == U8(IF op = "promote" THEN rid - 1 ELSE rid + 1)
NewRankRefused(op, g, mine, target, new) ==
  IF op = "promote" THEN mine >= new
                    ELSE mine >= target \/ new > LowestRankInGuild(g)
UpdateRank(u) ==
  /\ Deciding(u, {"promote", "demote"})
  /\ LET call == guildCalls[u]
         rank == RankForMember(call.g, u)
         target == RankForMember(call.g, call.t)
         new == NewRank(call.op, The(target).rid)
     IN  IF rank = {} THEN Panic
         ELSE IF ~HasRight(The(rank), call.op) THEN Refuse(u)
         ELSE IF target = {} THEN Panic
         ELSE IF NewRankRefused(call.op, call.g, The(rank).rid, The(target).rid, new)
              THEN Refuse(u)
         ELSE Write(u, [k |-> "rank", c |-> call.t, rank |-> new,
                        known |-> RankWithID(call.g, new) # {}])

\* SetMessageOfTheDay; SetGuildInfo is the same with another column and right.
SetMessageOfTheDay(u) ==
  /\ Deciding(u, {"motd"})
  /\ LET rank == RankForMember(guildCalls[u].g, u)
     IN  IF rank = {} THEN Panic
         ELSE IF ~HasRight(The(rank), "motd") THEN Refuse(u)
         ELSE Write(u, [k |-> "motd", g |-> guildCalls[u].g, text |-> u])

\* SetMemberPublicNote, and SetMemberOfficerNote, which looks for the member
\* whose GUID is the guild's id.
SetMemberNote(u) ==
  /\ Deciding(u, {"note", "offnote"})
  /\ LET call == guildCalls[u]
         rank == RankForMember(call.g, IF call.op = "note" THEN u ELSE call.g)
     IN  IF rank = {} THEN Panic
         ELSE IF ~HasRight(The(rank), call.op) THEN Refuse(u)
         ELSE Write(u, [k |-> "note", c |-> call.t, text |-> u, g |-> call.g, by |-> u])

\* UpdateGuildRank, AddGuildRank, DeleteLastGuildRank: for the master only.
UpdateGuildRank(u) ==
  /\ Deciding(u, {"rights"})
  /\ LET g == guildCalls[u].g  rank == RankForMember(g, u)
     IN  IF rank = {} THEN Panic
         ELSE IF The(rank).rid # GuildRankGuildMaster THEN Refuse(u)
         ELSE \E rid \in 0 .. GuildRankMax - 1, rights \in RightsChoices :
                Write(u, [k |-> "rights", g |-> g, rid |-> rid, rights |-> rights])

AddGuildRank(u) ==
  /\ Deciding(u, {"addrank"})
  /\ LET g == guildCalls[u].g  rank == RankForMember(g, u)
     IN  IF rank = {} THEN Panic
         ELSE IF \/ The(rank).rid # GuildRankGuildMaster
                 \/ Len(ranks[g]) >= GuildRankMax THEN Refuse(u)
         ELSE Write(u, [k |-> "addrank", g |-> g, rid |-> U8(LowestRankInGuild(g) + 1)])

DeleteLastGuildRank(u) ==
  /\ Deciding(u, {"droprank"})
  /\ LET g == guildCalls[u].g  rank == RankForMember(g, u)
     IN  IF rank = {} THEN Panic
         ELSE IF The(rank).rid # GuildRankGuildMaster THEN Refuse(u)
         ELSE Write(u, [k |-> "droprank", g |-> g, rid |-> LowestRankInGuild(g)])
-----------------------------------------------------------------------------
(* The statements of guildsMySQLRepo.                                      *)

RowsUpTo(rows, rid) == [r \in {x \in DOMAIN rows : x < rid} |-> rows[r]]
RowsWith(rows, rid, rights) ==
  [r \in DOMAIN rows \cup {rid} |-> IF r = rid THEN rights ELSE rows[r]]

\* guild_member is unique in guid, guild_rank in (guildid, rid).
Duplicate(w) ==
  \/ w.k = "join" /\ db.member[w.c] # Nothing
  \/ w.k = "addrank" /\ w.rid \in DOMAIN db.rights[w.g]
Statement(w) ==
  CASE w.k = "invite"   -> [db EXCEPT !.invite[w.c] = w.g]
    [] w.k = "join"     -> [db EXCEPT !.member[w.c] = [g |-> w.g, rank |-> w.rank, note |-> Nothing]]
    [] w.k = "part"     -> [db EXCEPT !.member[w.c] = Nothing]
    [] w.k = "rank"     -> IF db.member[w.c] = Nothing THEN db
                           ELSE [db EXCEPT !.member[w.c].rank = w.rank]
    [] w.k = "note"     -> IF db.member[w.c] = Nothing THEN db
                           ELSE [db EXCEPT !.member[w.c].note = w.text]
    [] w.k = "motd"     -> [db EXCEPT !.motd[w.g] = w.text]
    [] w.k = "rights"   -> IF w.rid \notin DOMAIN db.rights[w.g] THEN db
                           ELSE [db EXCEPT !.rights[w.g][w.rid] = w.rights]
    [] w.k = "addrank"  -> [db EXCEPT !.rights[w.g] = RowsWith(@, w.rid, RightEmpty)]
    [] w.k = "droprank" -> [db EXCEPT !.rights[w.g] = RowsUpTo(@, w.rid)]

DbStep(u) ==
  /\ guildCalls[u].at = "db"
  /\ ~Duplicate(guildCalls[u].w)
  /\ db' = Statement(guildCalls[u].w)
  /\ stripped' = stripped \cup {g \in Guilds : Cardinality(DOMAIN db'.rights[g]) <= 1}
  /\ Proceeds(u, [guildCalls[u] EXCEPT !.at = "cache"])
  /\ UNCHANGED <<cacheVars, callsLeft, guildFaults, raced>>

\* InviteAccepted goes on: the invitation is removed, and the new member gets
\* the lowest rank the cached guild has at that moment.
RemoveGuildInvite(u) ==
  /\ guildCalls[u].at = "accept"
  /\ db' = [db EXCEPT !.invite[u] = Nothing]
  /\ Proceeds(u, [at |-> "db", w |-> [k |-> "join", c |-> u, g |-> guildCalls[u].g,
                                  rank |-> LowestRankInGuild(guildCalls[u].g)]])
  /\ UNCHANGED <<cacheVars, guildHistory>>

\* A statement fails: on a duplicate key always, otherwise now and then.  The
\* call ends with the error, before it touches the cache.
DbFails(u) ==
  /\ guildCalls[u].at \in {"db", "accept"}
  /\ Proceeds(u, NoCall)
  /\ IF guildCalls[u].at = "db" /\ Duplicate(guildCalls[u].w) THEN UNCHANGED guildFaults
     ELSE guildFaults > 0 /\ guildFaults' = guildFaults - 1
  /\ UNCHANGED <<db, cacheVars, callsLeft, raced, stripped>>
-----------------------------------------------------------------------------
(* guildsInMemCache after the statement, under cacheMutex, and what the     *)
(* service still reads for the event it publishes.                         *)

\* Fault: only the index forgets the member.
UnlistFromIndex(c) ==
  /\ index' = [index EXCEPT ![c] = Nothing]
  /\ entries' = entries

\* RemoveGuildMember: the guild is the one the index names now, and the first
\* object of the character in its list goes.
Unlist(c) ==
  /\ index' = [index EXCEPT ![c] = Nothing]
  /\ entries' = IF index[c] = Nothing THEN entries
                ELSE [entries EXCEPT ![index[c]][c] = Tail(@)]

\* The object the index leads to is the youngest one of the character's guild.
Youngest(c) == Len(entries[index[c]][c])
UpdateObject(c, field, value) ==
  entries' = IF index[c] = Nothing THEN entries
             ELSE [entries EXCEPT ![index[c]][c][Youngest(c)][field] = value]

\* Fault: the slice is cut one later.
CutRanksLate(g, rid) ==
  IF rid > Len(ranks[g]) THEN ranks[g] ELSE SubSeq(ranks[g], 1, rid + 1)

\* DeleteLowestGuildRank cuts the slice at the rank's id.
CutRanks(g, rid) ==
  IF rid > Len(ranks[g]) THEN ranks[g] ELSE SubSeq(ranks[g], 1, rid)

CacheStep(u) ==
  /\ guildCalls[u].at = "cache"
  /\ LET w == guildCalls[u].w
         done == Proceeds(u, NoCall) /\ UNCHANGED <<db, guildHistory>>
     IN  \/ /\ w.k = "invite"
            /\ MemberOf(w.g, w.by) # {}
            /\ done /\ UNCHANGED cacheVars
         \/ /\ w.k = "join"
            /\ index' = [index EXCEPT ![w.c] = w.g]
            /\ entries' = [entries EXCEPT ![w.g][w.c] =
                             Append(@, [rank |-> w.rank, note |-> Nothing])]
            /\ done /\ UNCHANGED <<ranks, motd>>
         \/ w.k = "part" /\ Unlist(w.c) /\ done /\ UNCHANGED <<ranks, motd>>
         \/ /\ w.k = "rank" /\ w.known
            /\ UpdateObject(w.c, "rank", w.rank)
            /\ done /\ UNCHANGED <<index, ranks, motd>>
         \/ /\ w.k = "note"
            /\ MemberOf(w.g, w.c) # {} /\ MemberOf(w.g, w.by) # {}
            /\ UpdateObject(w.c, "note", w.text)
            /\ done /\ UNCHANGED <<index, ranks, motd>>
         \/ /\ w.k = "motd" /\ motd' = [motd EXCEPT ![w.g] = w.text]
            /\ done /\ UNCHANGED <<index, entries, ranks>>
         \/ /\ w.k = "rights"
            /\ ranks' = [ranks EXCEPT ![w.g] = [i \in DOMAIN @ |->
                 IF @[i].rid = w.rid THEN [rid |-> w.rid, rights |-> w.rights] ELSE @[i]]]
            /\ done /\ UNCHANGED <<index, entries, motd>>
         \/ /\ w.k = "addrank"
            /\ ranks' = [ranks EXCEPT ![w.g] =
                           Append(@, [rid |-> w.rid, rights |-> RightEmpty])]
            /\ done /\ UNCHANGED <<index, entries, motd>>
         \/ /\ w.k = "droprank"
            /\ ranks' = [ranks EXCEPT ![w.g] = CutRanks(w.g, w.rid)]
            /\ done /\ UNCHANGED <<index, entries, motd>>

\* The write is done, and the event's payload dereferences a nil pointer: the
\* inviter or a note's member is no longer listed, the new rank does not exist.
PanicAfterWrite(u) ==
  /\ guildCalls[u].at = "cache"
  /\ LET w == guildCalls[u].w
     IN  \/ w.k = "invite" /\ MemberOf(w.g, w.by) = {}
         \/ w.k = "note" /\ {} \in {MemberOf(w.g, w.c), MemberOf(w.g, w.by)}
         \/ w.k = "rank" /\ ~w.known
  /\ Panic

GuildNext ==
  \/ \E u \in GuildChars :
       \/ Begin(u) \/ InviteAccepted(u)
       \/ InviteMember(u) \/ Leave(u) \/ Kick(u) \/ UpdateRank(u)
       \/ SetMessageOfTheDay(u) \/ SetMemberNote(u)
       \/ UpdateGuildRank(u) \/ AddGuildRank(u) \/ DeleteLastGuildRank(u)
       \/ DbStep(u) \/ RemoveGuildInvite(u) \/ DbFails(u)
       \/ CacheStep(u) \/ PanicAfterWrite(u)
  \/ Panic

GuildSpec == GuildInit /\ [][GuildNext]_guildVars
-----------------------------------------------------------------------------
\* The row of a character and what the cache says of it.
Shows(c, row) ==
  /\ index[c] = (IF row = Nothing THEN Nothing ELSE row.g)
  /\ \A g \in Guilds :
       entries[g][c] = IF row # Nothing /\ row.g = g
                       THEN <<[rank |-> row.rank, note |-> row.note]>> ELSE <<>>
RowIsCached(c) == Shows(c, db.member[c])
Unsettled(c) == \E v \in GuildChars : Subject(guildCalls[v]) = c

\* The cache agrees with guild_member: once no call about a character is in
\* flight, it is listed in exactly the guild, with the rank and the note of its
\* row, whatever calls about other characters, failing statements and crashes
\* came between - unless two calls about this very character overlapped
\* (AddGuildMember, RemoveGuildMember and SetMemberRank of guildsInMemCache).
MembersAgree == \A c \in GuildChars : RowIsCached(c) \/ Unsettled(c) \/ c \in raced

\* A guild keeps its master: no sequence of promotions, demotions, kicks and
\* leaves, decided on ranks that may be stale when they are written, removes the
\* founder, takes his rank for anyone else or moves it - but for the promotion
\* of rank 0, which wraps around (Leave, Kick and updateRank of guilds.go).  A
\* guild stripped to one rank gives that rank to everyone who joins.
GuildKeepsMaster ==
  \A g \in Guilds :
    LET master == db.member[Founder[g]]
    IN  /\ master # Nothing /\ master.g = g
        /\ master.rank \in {GuildRankGuildMaster, U8(GuildRankGuildMaster - 1)}
        /\ g \notin stripped =>
             \A c \in GuildChars : db.member[c] # Nothing /\ db.member[c].g = g
                              /\ db.member[c].rank = GuildRankGuildMaster => c = Founder[g]

\* The cached ranks are the rows of guild_rank, in order and without a gap, so
\* that cutting the slice at an id cuts the right ranks (DeleteLowestGuildRank
\* of guildsInMemCache), and never more than GuildRankMax - as long as the guild
\* has one master, whose session sends one call at a time.
RankCall(g) ==
  \E v \in GuildChars :
    /\ guildCalls[v].at \in {"db", "cache"}
    /\ guildCalls[v].w.k \in {"rights", "addrank", "droprank"}
    /\ guildCalls[v].w.g = g
RanksAreExact ==
  \A g \in Guilds :
    g \notin stripped /\ ~RankCall(g) =>
      /\ ranks[g] = RanksFrom(db.rights[g])
      /\ DOMAIN db.rights[g] = 0 .. Len(ranks[g]) - 1
      /\ Len(ranks[g]) <= GuildRankMax

\* What the repository says and the code does not keep.  "PromoteMember promotes
\* guild member to the 1 rank higher" (guilds.go:77): the promotion of the master
\* writes rank 255.
PromotionRaises ==
  [][\A c \in GuildChars : db.member[c] # Nothing /\ db'.member[c] # Nothing
       /\ (\E u \in GuildChars : guildCalls[u].at = "db" /\ guildCalls'[u].at = "cache"
                            /\ guildCalls[u].w.k = "rank" /\ guildCalls[u].w.c = c)
       => db'.member[c].rank \in {db.member[c].rank} \cup 0 .. GuildRankMax - 1]_guildVars

\* "These ranks can be modified, but they cannot be deleted" (repo/guilds.go:31):
\* the rank a member holds is deleted under him, and his next call panics.
MembersHaveRanks ==
  \A c \in GuildChars : db.member[c] # Nothing => db.member[c].rank \in DOMAIN db.rights[db.member[c].g]
=============================================================================
