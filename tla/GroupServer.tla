---------------------------- MODULE GroupServer ----------------------------
(***************************************************************************)
(* The group server of one realm: apps/groupserver/service/group.go (the   *)
(* requests), service/group-cache_inmem.go (the cache in front of MySQL)   *)
(* and repo/group_mysql.go (the tables).                                   *)
(*                                                                         *)
(* Every write goes to MySQL first and then, under cacheLock, to the       *)
(* cache; a request is the sequence of these steps, and others happen in   *)
(* between.  The cache keeps two maps: groups by id, and members by        *)
(* player.  The second holds Go pointers into the Members slice of the     *)
(* group, so the slices' backing arrays are part of the state: a group     *)
(* has at most one array of each capacity, and a pointer is a group, a     *)
(* capacity and an index.                                                  *)
(*                                                                         *)
(* Names, roles, flags and subgroups are left out: nothing here sets a     *)
(* role, so no member is an assistant.  Published events change nothing in *)
(* this process.                                                           *)
(***************************************************************************)
EXTENDS Integers, Sequences, FiniteSets, SequencesExt

CONSTANTS
  Players,
  Procs,                      \* requests in progress at the same time
  MaxGroupSize, MaxRaidSize,
  Icons, Targets,             \* raid target icons, what can carry one
  MaxGroups, MaxRequests, MaxLogins, MaxFaults  \* bounds; a fault is a failed statement or a restart

ASSUME GroupAssumption ==
  /\ IsFiniteSet(Players)
  /\ MaxGroupSize \in Nat /\ MaxRaidSize \in Nat
  /\ \A n \in {MaxGroups, MaxRequests, MaxLogins, MaxFaults} : n \in Nat

Nobody == "nobody"   \* guid 0
NoPtr == <<>>        \* a nil pointer
Gids == 1 .. MaxGroups

VARIABLES
  \* MySQL
  rows,     \* groups: the settings of the existing ones, by id
  memberOf, \* group_member: the group of a player; 0 is no row
  invites,  \* group_invites, by invited player
  lastId,   \* AUTO_INCREMENT
  \* the cache
  cached,   \* the ids in groupsCache
  object,   \* the Group objects: settings, and Members as array and length
  arrays,   \* the arrays: [guid, online] of each slot, by group and capacity
  ptr,      \* groupMembersCache
  \* around it
  op,       \* the requests in progress
  online,   \* players with a session
  events,   \* login and logout events not yet handled
  requests, logins, failures, restarts

dbVars == <<rows, memberOf, invites, lastId>>
cacheVars == <<cached, object, arrays, ptr>>
boundVars == <<requests, logins, failures, restarts>>
vars == <<dbVars, cacheVars, op, online, events, boundVars>>

Idle == [kind |-> "idle"]
NoInvite == [inviter |-> Nobody, group |-> 0]
NewSettings(leader) ==
  [leader |-> leader, raid |-> FALSE, icons |-> [i \in Icons |-> Nobody],
   difficulty |-> 0, loot |-> 0]

Init ==
  /\ rows = <<>> /\ memberOf = [p \in Players |-> 0]
  /\ invites = [p \in Players |-> NoInvite] /\ lastId = 0
  /\ cached = {} /\ object = <<>> /\ arrays = <<>> /\ ptr = [p \in Players |-> NoPtr]
  /\ op = [c \in Procs |-> Idle] /\ online = Players /\ events = <<>>
  /\ requests = 0 /\ logins = 0 /\ failures = 0 /\ restarts = 0

-----------------------------------------------------------------------------
(* The cache's data structures                                             *)

Slot(p, on) == [guid |-> p, online |-> on]

\* The Members slice of a group.
Members(g) == SubSeq(arrays[g][object[g].cap], 1, object[g].len)
MemberSet(g) == {Members(g)[i].guid : i \in 1 .. object[g].len}
IndexOf(g, p) == SelectInSeq(Members(g), LAMBDA m : m.guid = p)

IsFull(g) == object[g].len >= IF object[g].settings.raid THEN MaxRaidSize ELSE MaxGroupSize

\* GroupIDByPlayer, 0 when the player has no entry.
GroupIDByPlayer(p) == IF ptr[p] = NoPtr THEN 0 ELSE ptr[p].group

\* The map f with an entry for k.
With(f, k, v) == [x \in DOMAIN f \cup {k} |-> IF x = k THEN v ELSE f[x]]

\* The capacity after append: doubled when the slice is full.
Grown(len, cap) == IF len < cap THEN cap ELSE IF cap = 0 THEN 1 ELSE 2 * cap

\* append: in place while the capacity lasts, else in a larger array.
\* What lies in the array behind the slice is overwritten, not cleared.
Appended(g, slot) ==
  LET len == object[g].len
      cap == object[g].cap
      old == arrays[g][cap]
  IN  [cap   |-> Grown(len, cap),
       slots |-> IF len < Len(old) THEN [old EXCEPT ![len + 1] = slot] ELSE Append(old, slot)]

\* Fault: the member after the one found is overwritten.
ShiftedFromNext(slots, i, len) ==
  [j \in DOMAIN slots |-> IF j \in (i + 1) .. (len - 1) THEN slots[j + 1] ELSE slots[j]]

\* append(Members[:i], Members[i+1:]...) moves the tail down in the same array.
ShiftedDown(slots, i, len) ==
  [j \in DOMAIN slots |-> IF j \in i .. (len - 1) THEN slots[j + 1] ELSE slots[j]]

\* A Group object over a new array, and the pointer to one of its members.
NewObject(settings, cap, slots) == [settings |-> settings, cap |-> cap, len |-> Len(slots)]
NewArray(cap, slots) == [c \in {cap} |-> slots]
PointerTo(g, cap, slots, p) ==
  [group |-> g, cap |-> cap, index |-> SelectInSeq(slots, LAMBDA s : s.guid = p)]

-----------------------------------------------------------------------------
(* Reading requests: the checks a request makes before its first write     *)

Start(c, next) ==
  /\ op[c] = Idle /\ requests < MaxRequests
  /\ requests' = requests + 1 /\ op' = [op EXCEPT ![c] = next]
  /\ UNCHANGED <<logins, failures, restarts>>

Quietly == UNCHANGED <<dbVars, cacheVars, online, events>>

\* The caller has a session, the invited player had one when the gateway asked.
Invite(c, inviter, invited) ==
  /\ {inviter, invited} \subseteq online
  /\ GroupIDByPlayer(invited) = 0
  /\ LET g == GroupIDByPlayer(inviter)
     IN  /\ g # 0 => /\ IndexOf(g, inviter) > 0 /\ object[g].settings.leader = inviter
                     /\ ~IsFull(g)
         /\ Start(c, [kind |-> "invite", inviter |-> inviter, invited |-> invited, group |-> g])
  /\ Quietly

\* An invite for a group that exists is read together with the group.
AcceptInvite(c, p) ==
  /\ p \in online /\ invites[p] # NoInvite
  /\ Start(c, IF invites[p].group = 0
              THEN [kind |-> "insertGroup", inviter |-> invites[p].inviter, invited |-> p]
              ELSE [kind |-> "insertMember", group |-> invites[p].group, player |-> p])
  /\ Quietly

\* A group of two is disbanded.
RemoveOrDisband(g, target) ==
  IF object[g].len <= 2 THEN [kind |-> "deleteMembers", group |-> g]
  ELSE [kind |-> "deleteMember", player |-> target]

Uninvite(c, initiator, target) ==
  LET g == GroupIDByPlayer(initiator)
  IN  /\ initiator \in online /\ g \in cached
      /\ IndexOf(g, target) > 0 /\ object[g].settings.leader = initiator
      /\ Start(c, RemoveOrDisband(g, target))
      /\ Quietly

\* The first other member that counts as online.
Successor(g, p) ==
  LET i == SelectInSeq(Members(g), LAMBDA m : m.online /\ m.guid # p)
  IN  IF i = 0 THEN Nobody ELSE Members(g)[i].guid

Set(g, field, value) == object' = [object EXCEPT ![g].settings[field] = value]

\* A leader hands over first; that is an Update of its own.
Leave(c, p) ==
  LET g == GroupIDByPlayer(p)
  IN  /\ p \in online /\ g \in cached /\ IndexOf(g, p) > 0
      /\ IF object[g].len > 2 /\ object[g].settings.leader = p
         THEN /\ Set(g, "leader", Successor(g, p))
              /\ Start(c, [kind |-> "update", group |-> g, leaving |-> p])
         ELSE /\ Start(c, RemoveOrDisband(g, p))
              /\ UNCHANGED object
      /\ UNCHANGED <<dbVars, cached, arrays, ptr, online, events>>

\* getGroupWithLeader
LeadsGroup(p, g) ==
  /\ p \in online /\ g = GroupIDByPlayer(p) /\ g \in cached
  /\ object[g].settings.leader = p

\* The setting changes in the shared object before MySQL is asked.
UpdateRequest(c, g, field, value) ==
  /\ Set(g, field, value)
  /\ Start(c, [kind |-> "update", group |-> g, leaving |-> Nobody])
  /\ UNCHANGED <<dbVars, cached, arrays, ptr, online, events>>

ChangeLeader(c, p, newLeader) ==
  \E g \in Gids : /\ LeadsGroup(p, g) /\ IndexOf(g, newLeader) > 0
                  /\ UpdateRequest(c, g, "leader", newLeader)

ConvertToRaid(c, p) == \E g \in Gids : LeadsGroup(p, g) /\ UpdateRequest(c, g, "raid", TRUE)

\* SetLootMethod: method, threshold and looter are one setting here.
SetLootMethod(c, p) ==
  \E g \in Gids : LeadsGroup(p, g) /\ UpdateRequest(c, g, "loot", 1 - object[g].settings.loot)

\* The first icon of this target is cleared, then the new one is set.
IconsWith(icons, icon, target) ==
  LET before == {i \in Icons : icons[i] = target}
      first == CHOOSE i \in before : \A j \in before : i <= j
  IN  [(IF before = {} THEN icons ELSE [icons EXCEPT ![first] = Nobody]) EXCEPT ![icon] = target]

\* In a raid only the leader may.
SetTargetIcon(c, p, icon, target) ==
  LET g == GroupIDByPlayer(p)
  IN  /\ p \in online /\ g \in cached
      /\ object[g].settings.raid => object[g].settings.leader = p
      /\ UpdateRequest(c, g, "icons", IconsWith(object[g].settings.icons, icon, target))

\* SetDungeonDifficulty, SetRaidDifficulty: the character service is asked
\* where the members are before the setting changes.
SetDifficulty(c, p) ==
  /\ \E g \in Gids : LeadsGroup(p, g) /\ Start(c, [kind |-> "askCharacters", group |-> g])
  /\ Quietly

-----------------------------------------------------------------------------
(* The steps of a request: statements, then the cache                      *)

Continue(c, next) == op' = [op EXCEPT ![c] = next]
Finish(c) == Continue(c, Idle)
At(c, kind) == op[c].kind = kind /\ UNCHANGED <<online, events, boundVars>>

\* AddInvite: REPLACE, one invite per invited player.
WriteInvite(c) ==
  /\ At(c, "invite") /\ Finish(c)
  /\ invites' = [invites EXCEPT ![op[c].invited] =
                    [inviter |-> op[c].inviter, group |-> op[c].group]]
  /\ UNCHANGED <<rows, memberOf, lastId, cacheVars>>

\* Create: the group's row, then a row per member; memberGuid is the key.
InsertGroup(c) ==
  /\ At(c, "insertGroup") /\ lastId < MaxGroups
  /\ lastId' = lastId + 1
  /\ rows' = With(rows, lastId + 1, NewSettings(op[c].inviter))
  /\ Continue(c, [kind |-> "insertFounder", group |-> lastId + 1, left |-> 2,
                  founders |-> <<op[c].inviter, op[c].invited>>])
  /\ UNCHANGED <<memberOf, invites, cacheVars>>

InsertFounder(c) ==
  /\ At(c, "insertFounder") /\ op[c].left > 0
  /\ LET p == op[c].founders[3 - op[c].left]
     IN  IF memberOf[p] = 0
         THEN /\ memberOf' = [memberOf EXCEPT ![p] = op[c].group]
              /\ Continue(c, [op[c] EXCEPT !.left = @ - 1])
         ELSE Finish(c) /\ UNCHANGED memberOf
  /\ UNCHANGED <<rows, invites, lastId, cacheVars>>

\* Both founders count as online, whether they are or not.
CacheGroup(c) ==
  /\ At(c, "insertFounder") /\ op[c].left = 0 /\ Finish(c)
  /\ LET g == op[c].group
         slots == [i \in 1 .. 2 |-> Slot(op[c].founders[i], TRUE)]
     IN  /\ cached' = cached \cup {g}
         /\ object' = With(object, g, NewObject(NewSettings(op[c].founders[1]), 2, slots))
         /\ arrays' = With(arrays, g, NewArray(2, slots))
         /\ ptr' = [p \in Players |-> IF p \in ToSet(op[c].founders) THEN PointerTo(g, 2, slots, p) ELSE ptr[p]]
  /\ UNCHANGED dbVars

InsertMember(c) ==
  /\ At(c, "insertMember")
  /\ IF memberOf[op[c].player] = 0
     THEN /\ memberOf' = [memberOf EXCEPT ![op[c].player] = op[c].group]
          /\ Continue(c, [op[c] EXCEPT !.kind = "cacheMember"])
     ELSE Finish(c) /\ UNCHANGED memberOf
  /\ UNCHANGED <<rows, invites, lastId, cacheVars>>

\* AddMember; when the group has been disbanded this dereferences nil.
CacheMember(c) ==
  LET g == op[c].group
      p == op[c].player
      new == Appended(g, Slot(p, TRUE))
  IN  /\ At(c, "cacheMember") /\ g \in cached /\ Finish(c)
      /\ arrays' = [arrays EXCEPT ![g] = With(@, new.cap, new.slots)]
      /\ object' = [object EXCEPT ![g].cap = new.cap, ![g].len = @ + 1]
      /\ ptr' = [ptr EXCEPT ![p] = [group |-> g, cap |-> new.cap, index |-> object[g].len + 1]]
      /\ UNCHANGED <<dbVars, cached>>

DeleteMember(c) ==
  /\ At(c, "deleteMember")
  /\ memberOf' = [memberOf EXCEPT ![op[c].player] = 0]
  /\ Continue(c, [op[c] EXCEPT !.kind = "uncacheMember"])
  /\ UNCHANGED <<rows, invites, lastId, cacheVars>>

\* Fault: only the slice is updated.
PointersKept(p) == ptr

PointersWithout(p) == [ptr EXCEPT ![p] = NoPtr]

\* RemoveMember: the group is looked up through the pointer.
UncacheMember(c) ==
  LET p == op[c].player
      g == GroupIDByPlayer(p)
  IN  /\ At(c, "uncacheMember") /\ g \in cached /\ Finish(c)
      /\ IF IndexOf(g, p) > 0
         THEN /\ arrays' = [arrays EXCEPT ![g][object[g].cap] =
                              ShiftedDown(@, IndexOf(g, p), object[g].len)]
              /\ object' = [object EXCEPT ![g].len = @ - 1]
              /\ ptr' = PointersWithout(p)
         ELSE UNCHANGED <<arrays, object, ptr>>
      /\ UNCHANGED <<dbVars, cached>>

\* Delete: the members' rows, the group's row, the cache.
DeleteMembers(c) ==
  /\ At(c, "deleteMembers")
  /\ memberOf' = [p \in Players |-> IF memberOf[p] = op[c].group THEN 0 ELSE memberOf[p]]
  /\ Continue(c, [op[c] EXCEPT !.kind = "deleteGroup"])
  /\ UNCHANGED <<rows, invites, lastId, cacheVars>>

DeleteGroup(c) ==
  /\ At(c, "deleteGroup")
  /\ rows' = [g \in DOMAIN rows \ {op[c].group} |-> rows[g]]
  /\ Continue(c, [op[c] EXCEPT !.kind = "uncacheGroup"])
  /\ UNCHANGED <<memberOf, invites, lastId, cacheVars>>

UncacheGroup(c) ==
  LET g == op[c].group
  IN  /\ At(c, "uncacheGroup") /\ g \in cached /\ Finish(c)
      /\ ptr' = [p \in Players |-> IF p \in MemberSet(g) THEN NoPtr ELSE ptr[p]]
      /\ cached' = cached \ {g}
      /\ UNCHANGED <<dbVars, object, arrays>>

\* The difficulty is set unless a member is inside an instance or the
\* character service cannot be reached.
AskCharacters(c) ==
  /\ At(c, "askCharacters")
  /\ \/ /\ Set(op[c].group, "difficulty", 1 - object[op[c].group].settings.difficulty)
        /\ Continue(c, [kind |-> "update", group |-> op[c].group, leaving |-> Nobody])
     \/ UNCHANGED object /\ Finish(c)
  /\ UNCHANGED <<dbVars, cached, arrays, ptr>>

\* UPDATE of all settings, as they are in the object now.
UpdateGroup(c) ==
  LET g == op[c].group
  IN  /\ At(c, "update")
      /\ rows' = [h \in DOMAIN rows |-> IF h = g THEN object[g].settings ELSE rows[h]]
      /\ Continue(c, [op[c] EXCEPT !.kind = "cacheUpdate"])
      /\ UNCHANGED <<memberOf, invites, lastId, cacheVars>>

\* Update puts the object into the map, also when it was deleted meanwhile.
CacheUpdate(c) ==
  /\ At(c, "cacheUpdate")
  /\ cached' = cached \cup {op[c].group}
  /\ IF op[c].leaving = Nobody THEN Finish(c)
     ELSE Continue(c, [kind |-> "deleteMember", player |-> op[c].leaving])
  /\ UNCHANGED <<dbVars, object, arrays, ptr>>

Statements == {"invite", "insertGroup", "insertFounder", "insertMember", "deleteMember",
               "deleteMembers", "deleteGroup", "update"}

\* MySQL returns an error, and so does the request.
StatementFails(c) ==
  /\ op[c].kind \in Statements /\ (op[c].kind = "insertFounder" => op[c].left > 0)
  /\ failures + restarts < MaxFaults /\ failures' = failures + 1
  /\ Finish(c)
  /\ UNCHANGED <<dbVars, cacheVars, online, events, requests, logins, restarts>>

-----------------------------------------------------------------------------
(* Sessions, and the restart of the server                                 *)

\* A gateway publishes the event when a character enters or leaves the world.
LogInOut(p) ==
  /\ logins < MaxLogins /\ logins' = logins + 1
  /\ online' = IF p \in online THEN online \ {p} ELSE online \cup {p}
  /\ events' = Append(events, [player |-> p, on |-> p \notin online])
  /\ UNCHANGED <<dbVars, cacheVars, op, requests, failures, restarts>>

\* HandleCharacterLoggedIn, HandleCharacterLoggedOut write through the pointer.
HandleLogInOut ==
  /\ events # <<>> /\ events' = Tail(events)
  /\ LET e == Head(events)
         at == ptr[e.player]
     IN  arrays' = IF at = NoPtr THEN arrays
                   ELSE [arrays EXCEPT ![at.group][at.cap][at.index].online = e.on]
  /\ UNCHANGED <<dbVars, cached, object, ptr, op, online, boundVars>>

\* The capacity append gives a slice that grows one by one to n.
CapFor[n \in 0 .. Cardinality(Players)] == IF n = 0 THEN 0 ELSE Grown(n - 1, CapFor[n - 1])

\* Warmup: LoadAllForRealm skips rows of members whose group has no row.
Warmup ==
  \E order \in [DOMAIN rows -> UNION {SetToSeqs({p \in Players : memberOf[p] = g}) : g \in DOMAIN rows}] :
    /\ \A g \in DOMAIN rows : ToSet(order[g]) = {p \in Players : memberOf[p] = g}
    /\ LET slots(g) == [i \in DOMAIN order[g] |-> Slot(order[g][i], order[g][i] \in online)]
           cap(g) == CapFor[Len(order[g])]
       IN  /\ cached' = DOMAIN rows
           /\ object' = [g \in DOMAIN rows |-> NewObject(rows[g], cap(g), slots(g))]
           /\ arrays' = [g \in DOMAIN rows |-> NewArray(cap(g), slots(g))]
           /\ ptr' = [p \in Players |->
                        IF memberOf[p] \in DOMAIN rows
                        THEN PointerTo(memberOf[p], cap(memberOf[p]), slots(memberOf[p]), p)
                        ELSE NoPtr]
    /\ op' = [c \in Procs |-> Idle] /\ events' = <<>>

Restart ==
  /\ failures + restarts < MaxFaults /\ restarts' = restarts + 1
  /\ Warmup /\ UNCHANGED <<dbVars, online, requests, logins, failures>>

\* A nil group is dereferenced; nothing recovers, so the process ends.
Panics(c) ==
  /\ op[c].kind \in {"cacheMember", "uncacheMember", "uncacheGroup"}
  /\ (IF op[c].kind = "uncacheMember" THEN GroupIDByPlayer(op[c].player) ELSE op[c].group) \notin cached

Panic(c) == Panics(c) /\ Warmup /\ UNCHANGED <<dbVars, online, boundVars>>

-----------------------------------------------------------------------------
Request(c) ==
  \/ \E p \in Players : AcceptInvite(c, p) \/ Leave(c, p) \/ ConvertToRaid(c, p)
                        \/ SetLootMethod(c, p) \/ SetDifficulty(c, p)
  \/ \E p, q \in Players : Invite(c, p, q) \/ Uninvite(c, p, q) \/ ChangeLeader(c, p, q)
  \/ \E p \in Players, i \in Icons, t \in Targets \cup {Nobody} : SetTargetIcon(c, p, i, t)

Step(c) ==
  \/ WriteInvite(c) \/ InsertGroup(c) \/ InsertFounder(c) \/ CacheGroup(c)
  \/ InsertMember(c) \/ CacheMember(c) \/ DeleteMember(c) \/ UncacheMember(c)
  \/ DeleteMembers(c) \/ DeleteGroup(c) \/ UncacheGroup(c)
  \/ AskCharacters(c) \/ UpdateGroup(c) \/ CacheUpdate(c) \/ StatementFails(c)

Next ==
  \/ \E c \in Procs : Request(c) \/ Step(c) \/ Panic(c)
  \/ \E p \in Players : LogInOut(p)
  \/ HandleLogInOut \/ Restart

Spec == Init /\ [][Next]_vars

-----------------------------------------------------------------------------
Settings == [leader : Players \cup {Nobody}, raid : BOOLEAN,
             icons : [Icons -> Targets \cup {Nobody}], difficulty : {0, 1}, loot : {0, 1}]

TypeOK ==
  /\ lastId \in 0 .. MaxGroups /\ DOMAIN rows \subseteq 1 .. lastId
  /\ \A g \in DOMAIN rows : rows[g] \in Settings
  /\ memberOf \in [Players -> 0 .. lastId]
  /\ cached \subseteq DOMAIN object /\ DOMAIN arrays = DOMAIN object
  /\ \A g \in DOMAIN object :
       /\ object[g].settings \in Settings
       /\ object[g].cap \in DOMAIN arrays[g]
       /\ object[g].len \in 0 .. Len(arrays[g][object[g].cap])
       /\ \A cap \in DOMAIN arrays[g] : Len(arrays[g][cap]) <= cap
  /\ \A p \in Players : ptr[p] # NoPtr => ptr[p].index \in DOMAIN arrays[ptr[p].group][ptr[p].cap]
  /\ online \subseteq Players

Quiet == \A c \in Procs : op[c] = Idle

\* Between requests the cache is what it says, an "in mem cached proxy of groups
\* repo" (group-cache_inmem.go:14): of every cached group it has each member
\* MySQL has, and unless a statement failed no other, each once, and the row's
\* settings.
CacheAgreesWithDb ==
  Quiet => \A g \in cached :
    LET inDb == {p \in Players : memberOf[p] = g}
    IN  /\ inDb \subseteq MemberSet(g)
        /\ failures = 0 => /\ MemberSet(g) = inDb /\ Cardinality(inDb) = object[g].len
                           /\ g \in DOMAIN rows /\ object[g].settings = rows[g]

\* Whatever happened to its slot, the pointer kept for a member still leads to
\* the member's group, and players outside any group have none (GroupIDByPlayer,
\* group-cache_inmem.go:47), unless a statement failed half way through Delete.
LookupFindsGroup ==
  Quiet /\ failures = 0 => \A p \in Players :
    IF GroupIDByPlayer(p) = 0 THEN \A g \in cached : p \notin MemberSet(g)
    ELSE GroupIDByPlayer(p) \in cached /\ p \in MemberSet(GroupIDByPlayer(p))

\* The pointer of a member refers to the member inside the group, as the
\* comment on groupMembersCache says (group-cache_inmem.go:23).
PointsIntoGroup ==
  Quiet => \A g \in cached : \A i \in 1 .. object[g].len :
    ptr[Members(g)[i].guid] = [group |-> g, cap |-> object[g].cap, index |-> i]
=============================================================================
