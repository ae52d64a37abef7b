----------------------------- MODULE Matchmaking -----------------------------
(***************************************************************************)
(* Battleground matchmaking: apps/matchmakingserver.  One queue of one     *)
(* realm (service/battleground-queue.go), the links from players to the    *)
(* queue or to a battleground (service/battleground_service.go) and the    *)
(* battlegrounds (battleground/battleground.go, repo/battleground_inmem.go).*)
(*                                                                         *)
(* A request to queue a group also looks for a match, with the lock of     *)
(* the queue, of the links or of the battlegrounds held for one step at a  *)
(* time; everything else happens in between.  Battlegrounds are read as    *)
(* copies, and saving a copy replaces what the others have changed.        *)
(*                                                                         *)
(* The gateway sends the leader apart from the members, and a team, never  *)
(* TeamAny, so a player is in the lists of one team only.  Levels,         *)
(* brackets, queue slots and what the events say are left out; a player    *)
(* leaving the queue or a battleground, which takes the three locks one    *)
(* after the other, is one step here.                                      *)
(***************************************************************************)
EXTENDS Integers, Sequences, FiniteSets, SequencesExt

CONSTANTS
  Parties,              \* [leader, members, team]: the groups that may queue
  Procs,                \* requests to queue in progress at the same time
  MinPlayers, MaxPlayers,   \* per team, of the template
  MaxBgs, MaxRequests, MaxFailures   \* bounds

Teams == {"alliance", "horde"}
PlayersOf(g) == g.members \cup {g.leader}
Players == UNION {PlayersOf(g) : g \in Parties}
Instances == 1 .. MaxBgs

ASSUME MatchmakingAssumption ==
  /\ MinPlayers \in Nat \ {0} /\ MaxPlayers \in Nat /\ MinPlayers <= MaxPlayers
  /\ MaxBgs \in Nat /\ MaxRequests \in Nat /\ MaxFailures \in Nat
  /\ IsFiniteSet(Parties)
  /\ \A g \in Parties : g.team \in Teams /\ IsFiniteSet(g.members) /\ g.leader \notin g.members

VARIABLES
  queued,    \* queuedGroups
  leaderOf,  \* playersGroupLeaderByPlayer, a partial function
  links,     \* playersQueueOrBattleground: 0 is the queue, i > 0 battleground i
  bgs,       \* the battleground objects, by instance
  lastBg,
  op,        \* the requests to queue in progress
  expiring,  \* the invite the expiry loop has found overdue, or <<>>
  requests, failures

queueVars == <<queued, leaderOf>>
vars == <<queueVars, links, bgs, lastBg, op, expiring, requests, failures>>

QueueLink == 0
Idle == [kind |-> "idle"]

Init ==
  /\ queued = {} /\ leaderOf = <<>> /\ links = [p \in Players |-> <<>>]
  /\ bgs = <<>> /\ lastBg = 0
  /\ op = [c \in Procs |-> Idle] /\ expiring = <<>>
  /\ requests = 0 /\ failures = 0

-----------------------------------------------------------------------------
(* Battlegrounds                                                           *)

\* "listed": the object is in the repository, where its end removes it.
NewBg == [invited |-> [t \in Teams |-> <<>>], active |-> [t \in Teams |-> <<>>],
          ended |-> FALSE, listed |-> TRUE]

FreeSlots(bg, team) ==
  LET taken == Len(bg.active[team]) + Len(bg.invited[team])
  IN  IF taken > MaxPlayers THEN 0 ELSE MaxPlayers - taken

WithoutPlayer(lists, p) == [t \in Teams |-> RemoveFirst(lists[t], p)]

RemovePlayerFromInvite(bg, p) == [bg EXCEPT !.invited = WithoutPlayer(@, p)]

RemovePlayer(bg, p) == RemovePlayerFromInvite([bg EXCEPT !.active = WithoutPlayer(@, p)], p)

PlayersSeq(groups) ==
  FlattenSeq([i \in DOMAIN groups |-> Append(SetToSeq(groups[i].members), groups[i].leader)])

\* InviteGroups of the battleground: the members, then the leader.
Invited(bg, groups, team) == [bg EXCEPT !.invited[team] = @ \o PlayersSeq(groups)]

ActiveIn(bg) == UNION {ToSet(bg.active[t]) : t \in Teams}
InvitedIn(bg) == UNION {ToSet(bg.invited[t]) : t \in Teams}
Listed == {i \in DOMAIN bgs : bgs[i].listed}

-----------------------------------------------------------------------------
(* Links                                                                   *)

\* removeQueueForGroupMembers, removeBattlegroundLinkForPlayer
LinkRemoved(ls, players, link) ==
  [p \in Players |-> IF p \in players THEN RemoveFirst(ls[p], link) ELSE ls[p]]

\* addQueueForGroupMembers, addBattlegroundForGroupMembers
LinkAdded(ls, players, link) ==
  [p \in Players |-> IF p \in players THEN Append(ls[p], link) ELSE ls[p]]

-----------------------------------------------------------------------------
(* The choice of groups                                                    *)

Size(g) == Cardinality(g.members) + 1
Total(groups) == MapThenSumSet(LAMBDA i : Size(groups[i]), DOMAIN groups)
Abs(n) == IF n < 0 THEN -n ELSE n

\* Fault: the maximum is left to the pruning.
EnoughPlayers(total, min, max) == total >= min

Fits(total, min, max) == total \in min .. max

\* What the search holds: the groups taken, their difference to maxPlayers, and
\* the best choice found so far.
Searches == [current : Seq(Parties), diff : Nat, best : [groups : Seq(Parties), total : Nat, diff : Nat]]

Better(s, min, max) ==
  LET total == Total(s.current)
  IN  IF /\ Fits(total, min, max)
         /\ total > s.best.total \/ (total = s.best.total /\ s.diff < s.best.diff)
      THEN [groups |-> s.current, total |-> total, diff |-> s.diff]
      ELSE s.best

\* With group g, unless that cannot come closer than the best choice, then
\* without it.  The difference of an exclusion is that of its parent.
WithAndWithout(rest, g, s, max) ==
  LET with  == Abs(Total(s.current) + Size(g) - max)
      after == IF with <= s.best.diff
               THEN rest[[current |-> Append(s.current, g), diff |-> with, best |-> s.best]]
               ELSE s.best
  IN  rest[[s EXCEPT !.best = after]]

\* findBestGroups: a search with pruning for the groups that fill a team best,
\* by the number of groups left to decide about.
Backtrack(groups, min, max) ==
  LET search[left \in 0 .. Len(groups)] ==
        IF left = 0 THEN [s \in Searches |-> Better(s, min, max)]
        ELSE [s \in Searches |-> WithAndWithout(search[left - 1], groups[Len(groups) - left + 1], s, max)]
  IN  search[Len(groups)]

FindBestGroups(groups, min, max) ==
  Backtrack(groups, min, max)[
    [current |-> <<>>, diff |-> max, best |-> [groups |-> <<>>, total |-> 0, diff |-> max]]].groups

\* The groups of a team, largest first, equal ones in any order.
Sorted(team) ==
  {s \in SetToSeqs({g \in queued : g.team = team}) :
     \A i \in 1 .. (Len(s) - 1) : Size(s[i]) >= Size(s[i + 1])}

\* balancedGroups: when the totals differ by more than one, the larger team is
\* searched again with the smaller total plus one as its maximum.
Balanced(a, h, min, max) ==
  LET bestA == FindBestGroups(a, min, max)
      bestH == FindBestGroups(h, min, max)
  IN  [alliance |-> IF Total(bestA) - Total(bestH) > 1
                    THEN FindBestGroups(a, min, Total(bestH) + 1) ELSE bestA,
       horde    |-> IF Total(bestH) - Total(bestA) > 1
                    THEN FindBestGroups(h, min, Total(bestA) + 1) ELSE bestH]

\* A group counts as its members, without the leader.
Taking(acc, g, team) ==
  IF acc.slots > 0 /\ g.team = team /\ Cardinality(g.members) <= acc.slots
  THEN [groups |-> Append(acc.groups, g), slots |-> acc.slots - Cardinality(g.members)]
  ELSE acc

\* findGroupsForGivenSlots: greedy in the random order of a Go map.
GroupsForSlots(order, slots, team) ==
  LET taken[n \in 0 .. Len(order)] ==
        IF n = 0 THEN [groups |-> <<>>, slots |-> slots] ELSE Taking(taken[n - 1], order[n], team)
  IN  taken[Len(order)].groups

-----------------------------------------------------------------------------
(* AddGroupToQueue and process                                             *)

Continue(c, next) == op' = [op EXCEPT ![c] = next]
At(c, kind) == op[c].kind = kind /\ UNCHANGED <<expiring, requests>>

Enqueue(c, g) ==
  /\ op[c] = Idle /\ requests < MaxRequests /\ requests' = requests + 1
  /\ \A p \in PlayersOf(g) : links[p] = <<>>
  /\ Continue(c, [kind |-> "link", group |-> g])
  /\ UNCHANGED <<queueVars, links, bgs, lastBg, expiring, failures>>

AddLinks(c) ==
  /\ At(c, "link")
  /\ links' = LinkAdded(links, PlayersOf(op[c].group), QueueLink)
  /\ Continue(c, [op[c] EXCEPT !.kind = "enqueue"])
  /\ UNCHANGED <<queueVars, bgs, lastBg, failures>>

\* queuedGroups is keyed by the leader.
AddQueuedGroup(c) ==
  LET g == op[c].group
  IN  /\ At(c, "enqueue")
      /\ queued' = {h \in queued : h.leader # g.leader} \cup {g}
      /\ leaderOf' = [p \in DOMAIN leaderOf \cup PlayersOf(g) |->
                        IF p \in PlayersOf(g) THEN g.leader ELSE leaderOf[p]]
      /\ Continue(c, [op[c] EXCEPT !.kind = "read"])
      /\ UNCHANGED <<links, bgs, lastBg, failures>>

\* BattlegroundsThatNeedPlayers returns deep copies.
ReadBattlegrounds(c) ==
  LET open == {i \in Listed : \E t \in Teams : FreeSlots(bgs[i], t) > 0}
  IN  /\ At(c, "read")
      /\ Continue(c, [kind |-> "next", group |-> op[c].group, copies |-> [i \in open |-> bgs[i]]])
      /\ UNCHANGED <<queueVars, links, bgs, lastBg, failures>>

NextBattleground(c) ==
  /\ At(c, "next")
  /\ \E i \in DOMAIN op[c].copies :
       Continue(c, [kind |-> "pick", group |-> op[c].group, at |-> i, team |-> "alliance", saved |-> FALSE,
                    copy |-> op[c].copies[i],
                    copies |-> [j \in DOMAIN op[c].copies \ {i} |-> op[c].copies[j]]])
  /\ UNCHANGED <<queueVars, links, bgs, lastBg, failures>>

\* Once saved, the copy is the stored object.
Object(o) == IF o.saved THEN bgs[o.at] ELSE o.copy

\* The horde comes after the alliance, then the next battleground.
NextTeam(o) ==
  IF o.team = "alliance"
  THEN [kind |-> "pick", group |-> o.group, at |-> o.at, team |-> "horde", saved |-> o.saved,
        copy |-> o.copy, copies |-> o.copies]
  ELSE [kind |-> "next", group |-> o.group, copies |-> o.copies]

PickGroups(c) ==
  /\ At(c, "pick")
  /\ \E order \in SetToSeqs(queued) :
       LET o == op[c]
           groups == GroupsForSlots(order, FreeSlots(Object(o), o.team), o.team)
       IN  Continue(c, IF groups = <<>> THEN NextTeam(o)
                       ELSE [kind |-> "save", group |-> o.group, at |-> o.at, team |-> o.team, saved |-> o.saved,
                             copy |-> o.copy, copies |-> o.copies, groups |-> groups])
  /\ UNCHANGED <<queueVars, links, bgs, lastBg, failures>>

\* InviteGroups of the service: the copy, with the invites, replaces what is
\* stored, unless it has ended.
SaveInvites(c) ==
  LET bg == Invited(Object(op[c]), op[c].groups, op[c].team)
  IN  /\ At(c, "save")
      /\ bgs' = [bgs EXCEPT ![op[c].at] = [bg EXCEPT !.listed = ~bg.ended]]
      /\ Continue(c, [op[c] EXCEPT !.kind = "relink", !.saved = TRUE])
      /\ UNCHANGED <<queueVars, links, lastBg, failures>>

\* The invites cannot be published: they stay in the object, which is not saved
\* now, and the groups in the queue.
InviteFails(c) ==
  LET bg == Invited(Object(op[c]), op[c].groups, op[c].team)
  IN  /\ At(c, "save") /\ failures < MaxFailures /\ failures' = failures + 1
      /\ bgs' = IF op[c].saved THEN [bgs EXCEPT ![op[c].at] = bg] ELSE bgs
      /\ Continue(c, NextTeam([op[c] EXCEPT !.copy = bg]))
      /\ UNCHANGED <<queueVars, links, lastBg>>

PlayersIn(groups) == UNION {PlayersOf(groups[i]) : i \in DOMAIN groups}

\* Fault: the queue links stay.
QueueLinksKept(players, i) == LinkAdded(links, players, i)

Relinked(players, i) == LinkAdded(LinkRemoved(links, players, QueueLink), players, i)

Relink(c) ==
  /\ At(c, "relink")
  /\ links' = Relinked(PlayersIn(op[c].groups), op[c].at)
  /\ Continue(c, [op[c] EXCEPT !.kind = "dequeue"])
  /\ UNCHANGED <<queueVars, bgs, lastBg, failures>>

\* removeGroupFromQueue; the leader stays in leaderOf.
Dequeued(groups) ==
  LET leaders == {groups[i].leader : i \in DOMAIN groups}
      members == UNION {groups[i].members : i \in DOMAIN groups}
  IN  /\ queued' = {g \in queued : g.leader \notin leaders}
      /\ leaderOf' = [p \in DOMAIN leaderOf \ members |-> leaderOf[p]]

Dequeue(c) ==
  /\ At(c, "dequeue") /\ Dequeued(op[c].groups)
  /\ Continue(c, IF op[c].team = "both" THEN Idle ELSE NextTeam(op[c]))
  /\ UNCHANGED <<links, bgs, lastBg, failures>>

\* No battleground left to fill: a new one, if both teams can be filled.
PickTeams(c) ==
  /\ At(c, "next") /\ op[c].copies = <<>>
  /\ \E a \in Sorted("alliance"), h \in Sorted("horde") :
       LET teams == Balanced(a, h, MinPlayers, MaxPlayers)
       IN  Continue(c, IF teams.alliance = <<>> \/ teams.horde = <<>> THEN Idle
                       ELSE [kind |-> "start", group |-> op[c].group, teams |-> teams])
  /\ UNCHANGED <<queueVars, links, bgs, lastBg, failures>>

\* CreateBattleground: the game server starts it, the groups are invited.
CreateBattleground(c) ==
  LET teams == op[c].teams
  IN  /\ At(c, "start") /\ lastBg < MaxBgs
      /\ lastBg' = lastBg + 1
      /\ bgs' = [i \in DOMAIN bgs \cup {lastBg + 1} |->
                   IF i = lastBg + 1 THEN Invited(Invited(NewBg, teams.horde, "horde"), teams.alliance, "alliance")
                   ELSE bgs[i]]
      /\ Continue(c, [kind |-> "relink", at |-> lastBg + 1, team |-> "both", saved |-> TRUE,
                      groups |-> teams.horde \o teams.alliance])
      /\ UNCHANGED <<queueVars, links, failures>>

\* No game server, or it fails: AddGroupToQueue takes the links of its own
\* group back, but the group stays queued.
CreateFails(c) ==
  /\ At(c, "start") /\ failures < MaxFailures /\ failures' = failures + 1
  /\ links' = LinkRemoved(links, PlayersOf(op[c].group), QueueLink)
  /\ Continue(c, Idle)
  /\ UNCHANGED <<queueVars, bgs, lastBg>>

-----------------------------------------------------------------------------
(* What else happens to players and battlegrounds                          *)

Others == UNCHANGED <<lastBg, op, requests, failures>>

\* UpdateBattleground works on the stored object, under the lock.
PlayerJoinedBattleground(i, p) ==
  /\ i \in Listed
  /\ \E t \in Teams :
       /\ p \in ToSet(bgs[i].invited[t])
       /\ bgs' = [bgs EXCEPT ![i] = [RemovePlayer(@, p) EXCEPT !.active[t] = Append(@, p)]]
  /\ UNCHANGED <<queueVars, links, expiring>> /\ Others

\* One that is not in the repository any more keeps the link.
LeaveBattleground(st, i, p) ==
  IF i \in DOMAIN st.bgs /\ st.bgs[i].listed
  THEN [st EXCEPT !.bgs[i] = RemovePlayer(@, p), !.links = LinkRemoved(@, {p}, i)]
  ELSE st

\* The group of the player leaves the queue, the leader stays in leaderOf.
LeaveQueue(st, p) ==
  LET out == {g \in st.queued : p \in DOMAIN st.leaderOf /\ g.leader = st.leaderOf[p]}
      members == UNION {g.members : g \in out}
  IN  [st EXCEPT !.links = LinkRemoved(@, UNION {PlayersOf(g) : g \in out}, QueueLink),
                 !.queued = @ \ out,
                 !.leaderOf = [q \in DOMAIN @ \ members |-> @[q]]]

Stored == [queued |-> queued, leaderOf |-> leaderOf, links |-> links, bgs |-> bgs]
Becomes(st) ==
  queued' = st.queued /\ leaderOf' = st.leaderOf /\ links' = st.links /\ bgs' = st.bgs

\* The game server reports a player it has.
PlayerLeftBattleground(i, p) ==
  /\ i \in DOMAIN bgs /\ p \in ActiveIn(bgs[i])
  /\ Becomes(LeaveBattleground(Stored, i, p))
  /\ UNCHANGED expiring /\ Others

\* BattlegroundStatusChanged to StatusEnded; only active players are unlinked.
BattlegroundEnded(i) ==
  /\ i \in Listed
  /\ bgs' = [bgs EXCEPT ![i].ended = TRUE, ![i].listed = FALSE]
  /\ links' = LinkRemoved(links, ActiveIn(bgs[i]), i)
  /\ UNCHANGED <<queueVars, expiring>> /\ Others

WithoutEach(list, gone) ==
  LET left[n \in 0 .. Len(gone)] == IF n = 0 THEN list ELSE RemoveFirst(left[n - 1], gone[n])
  IN  left[Len(gone)]

\* OnGameServerRemoved: every battleground here is on that server.
GameServerRemoved ==
  /\ Listed # {}
  /\ bgs' = [i \in DOMAIN bgs |-> [bgs[i] EXCEPT !.listed = FALSE]]
  /\ links' = [p \in Players |-> WithoutEach(links[p], SetToSeq({i \in Listed : p \in ActiveIn(bgs[i])}))]
  /\ UNCHANGED <<queueVars, expiring>> /\ Others

Leaves(st, link, p) == IF link = QueueLink THEN LeaveQueue(st, p) ELSE LeaveBattleground(st, link, p)

\* Along the links the player has, the battlegrounds and the queue.
LeavesAll(st, p) ==
  LET after[n \in 0 .. Len(st.links[p])] ==
        IF n = 0 THEN st ELSE Leaves(after[n - 1], st.links[p][n], p)
  IN  after[Len(st.links[p])]

\* PlayerBecomeOffline does the same.
RemovePlayerFromQueue(p) ==
  links[p] # <<>> /\ Becomes(LeavesAll(Stored, p)) /\ UNCHANGED expiring /\ Others

\* ProcessExpiredBattlegroundInvites reads copies, too.
FindExpired(i, p) ==
  /\ expiring = <<>> /\ i \in Listed /\ p \in InvitedIn(bgs[i])
  /\ expiring' = <<i, p>>
  /\ UNCHANGED <<queueVars, links, bgs>> /\ Others

\* A failed update (the battleground is gone) only logs.
ExpireInvite ==
  /\ expiring # <<>> /\ expiring' = <<>>
  /\ LET i == expiring[1]
         p == expiring[2]
     IN  IF i \in Listed
         THEN Becomes(LeavesAll([Stored EXCEPT !.bgs[i] = RemovePlayerFromInvite(@, p)], p))
         ELSE UNCHANGED <<queueVars, links, bgs>>
  /\ Others

-----------------------------------------------------------------------------
Step(c) ==
  \/ AddLinks(c) \/ AddQueuedGroup(c) \/ ReadBattlegrounds(c) \/ NextBattleground(c)
  \/ PickGroups(c) \/ SaveInvites(c) \/ InviteFails(c) \/ Relink(c) \/ Dequeue(c)
  \/ PickTeams(c) \/ CreateBattleground(c) \/ CreateFails(c)

Next ==
  \/ \E c \in Procs : Step(c) \/ \E g \in Parties : Enqueue(c, g)
  \/ \E i \in Instances, p \in Players :
       PlayerJoinedBattleground(i, p) \/ PlayerLeftBattleground(i, p) \/ FindExpired(i, p)
  \/ \E i \in Instances : BattlegroundEnded(i)
  \/ \E p \in Players : RemovePlayerFromQueue(p)
  \/ GameServerRemoved \/ ExpireInvite

Spec == Init /\ [][Next]_vars

-----------------------------------------------------------------------------
InQueue == UNION {PlayersOf(g) : g \in queued}
Quiet == \A c \in Procs : op[c] = Idle

OfTeam(team) == UNION {PlayersOf(g) : g \in {h \in Parties : h.team = team}}

\* The queue holds known groups, the links lead to the queue or to a
\* battleground that was created, and a team only has players of its faction.
TypeOK ==
  /\ queued \subseteq Parties /\ DOMAIN leaderOf \subseteq Players
  /\ \A p \in DOMAIN leaderOf : leaderOf[p] \in {g.leader : g \in Parties}
  /\ \A p \in Players : ToSet(links[p]) \subseteq 0 .. lastBg
  /\ lastBg \in 0 .. MaxBgs /\ DOMAIN bgs = 1 .. lastBg
  /\ \A i \in DOMAIN bgs, t \in Teams :
       ToSet(bgs[i].invited[t]) \cup ToSet(bgs[i].active[t]) \subseteq OfTeam(t)
  /\ expiring = <<>> \/ expiring \in Instances \X Players

\* While no match is in progress, the players in the queue are exactly those
\* with a link to it, whoever left, expired or logged out in the middle of the
\* match, unless the creation of a battleground failed.
QueueLinksAreExact ==
  Quiet /\ failures = 0 =>
    \A p \in Players : Cardinality({j \in DOMAIN links[p] : links[p][j] = QueueLink})
                       = IF p \in InQueue THEN 1 ELSE 0

\* A battleground starts with both teams within the limits of its template,
\* leaders included, for every choice that findBestGroups and the search of
\* balancedGroups with a lower maximum make.
StartsWithinLimits ==
  [][\A i \in DOMAIN bgs' \ DOMAIN bgs, t \in Teams :
       Len(bgs'[i].invited[t]) \in MinPlayers .. MaxPlayers]_vars
=============================================================================
