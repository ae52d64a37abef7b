---------------------------- MODULE ChatChannels ----------------------------
(***************************************************************************)
(* A chat channel in the chat server: ChannelManager, the ActiveChannel    *)
(* objects it hands out and the rows they are written through to.          *)
(*                                                                         *)
(* A request of a player finds the channel object under the manager's      *)
(* lock and then works on the object under the object's own lock; between  *)
(* the two, and between the parts of a ban or of a new password, other     *)
(* requests run.  The clean-up forgets an empty channel while a request    *)
(* may hold its object.  A write to the database may fail; most operations *)
(* then put the object back, a change of owner does not always.  After a   *)
(* restart the channel is read from the database and members that are not  *)
(* online are removed.                                                     *)
(*                                                                         *)
(* One channel, with ownership, and one chat server; a player has one      *)
(* request at a time, as its gateway session is a loop.  The permission    *)
(* checks of a request are one step here; the operation is the next.       *)
(***************************************************************************)
EXTENDS Naturals, Sequences, FiniteSets, Functions, SequencesExt

CONSTANTS
    Players,
    RightModerators,  \* moderators by channels_rights
    Nil,              \* no channel, no owner, no request
    MaxId,            \* bound: rows the channel is given, one after another
    Initials,         \* member rows the server may start with
    ChannelBudgets    \* bound: requests, failed writes, clean-ups and restarts

Owner == "owner"
Mod   == "mod"
Muted == "muted"

Ids == 1..MaxId
Passwords == {"", "secret"}

\* A row of channels; fresh says it was used less than a month ago.
DbRows == [id : Ids, password : Passwords, announce : BOOLEAN, fresh : BOOLEAN]

\* What channels_members has of a channel: some players with their flags.
MemberRows == UNION {[S -> SUBSET {Owner, Mod, Muted}] : S \in SUBSET Players}

OwnersOf(members) == {p \in DOMAIN members : Owner \in members[p]}

ASSUME ChannelAssumption ==
    /\ Nil \notin Players \cup Nat \cup DbRows
    /\ MaxId \in Nat \ {0}
    /\ Initials \subseteq MemberRows
    /\ \A init \in Initials : init # <<>> => \E p \in Players : OwnersOf(init) = {p}

VARIABLES
    active,           \* ChannelManager.channels: the channel's object
    objs,             \* every ActiveChannel object since the start
    req,              \* per player: its request in the server
    online,           \* players with a session
    logouts,          \* CharacterLoggedOut events on their way
    db,               \* channels, channels_members and channels_bans
    confirmed,        \* players whose ban was confirmed and whom nobody unbanned
                      \* meanwhile or since
    torn,             \* what went wrong for good so far
    remaining         \* what is left of the budget

chatVars == <<active, objs, req, online, logouts, db, confirmed, torn, remaining>>

\* The members of a channel when p joins.
WithMember(members, p, flags) ==
    [q \in DOMAIN members \cup {p} |-> IF q = p THEN flags ELSE members[q]]

\* The prepared statements.
SaveChannelMember(d, id, p, flags) == [d EXCEPT !.members[id] = WithMember(@, p, flags)]
RemoveChannelMember(d, id, p)      == [d EXCEPT !.members[id] = Restrict(@, DOMAIN @ \ {p})]
UpdateMemberFlags(d, id, p, flags) ==
    IF p \in DOMAIN d.members[id] THEN [d EXCEPT !.members[id][p] = flags] ELSE d
UpdateChannel(d, id, ch) ==
    IF d.row # Nil /\ d.row.id = id
    THEN [d EXCEPT !.row = [id |-> id, password |-> ch.password, announce |-> ch.announce, fresh |-> TRUE]]
    ELSE d

\* Fault: the bans are not read.
LoadChannelWithoutBans(d, o) ==
    [id |-> d.row.id, password |-> d.row.password, announce |-> d.row.announce, moderation |-> FALSE,
     owner |-> o, members |-> d.members[d.row.id], banned |-> {}]

\* GetOrCreateChannel, the part that builds the object from the rows; o is
\* the last member read with the owner's flag.
LoadChannel(d, o) ==
    [id |-> d.row.id, password |-> d.row.password, announce |-> d.row.announce, moderation |-> FALSE,
     owner |-> o, members |-> d.members[d.row.id], banned |-> d.bans[d.row.id]]

LastOwner(d) == LET os == OwnersOf(d.members[d.row.id]) IN IF os = {} THEN {Nil} ELSE os

\* CreateChannel: a new row under the next id.
CreateChannel(d, pw) ==
    [d EXCEPT !.row = [id |-> d.next, password |-> pw, announce |-> TRUE, fresh |-> TRUE], !.next = @ + 1]

ChatInit ==
    /\ remaining \in ChannelBudgets
    /\ online = Players
    /\ \E init \in Initials :
        LET d == [row |-> IF init = <<>> THEN Nil
                          ELSE [id |-> 1, password |-> "", announce |-> TRUE, fresh |-> TRUE],
                  next |-> IF init = <<>> THEN 1 ELSE 2,
                  members |-> [i \in Ids |-> IF i = 1 THEN init ELSE <<>>],
                  bans |-> [i \in Ids |-> {}]]
        IN /\ db = d
           /\ IF init = <<>> THEN active = Nil /\ objs = <<>>
              ELSE /\ active = 1
                   /\ \E o \in LastOwner(d) : objs = <<LoadChannel(d, o)>>
    /\ req = [p \in Players |-> Nil]
    /\ logouts = {}
    /\ confirmed = {}
    /\ torn = {}

Spend(what) == remaining' = [remaining EXCEPT ![what] = @ - 1]

(***************************************************************************)
(* The parts of a request.                                                 *)
(***************************************************************************)
Asks(p, r) ==
    /\ p \in online
    /\ req[p] = Nil
    /\ remaining.requests > 0
    /\ Spend("requests")
    /\ req' = [req EXCEPT ![p] = r]
    /\ UNCHANGED <<online, logouts, confirmed, torn>>

Done(p) == req' = [req EXCEPT ![p] = Nil]

Doing(p, op) == req[p] # Nil /\ req[p].op = op

\* A request works on an object the clean-up has dropped meanwhile.
DroppedMark(k) == IF k = active THEN {} ELSE {"dropped"}

\* JoinChannel and GetOrCreateChannel: with cm.mu held, so in one step, the
\* object of the map or a new one with what the database has.
AskJoin(p, pw) ==
    /\ IF active # Nil
       THEN UNCHANGED <<active, objs, db>> /\ Asks(p, [op |-> "join", obj |-> active, password |-> pw])
       ELSE LET d == IF db.row = Nil THEN CreateChannel(db, pw) ELSE db
            IN /\ d.next - 1 \in Ids
               /\ db' = d
               /\ \E o \in LastOwner(d) : objs' = Append(objs, LoadChannel(d, o))
               /\ active' = Len(objs) + 1
               /\ Asks(p, [op |-> "join", obj |-> Len(objs) + 1, password |-> pw])

InitialFlags(ch, p) == (IF ch.members = <<>> THEN {Owner} ELSE {})
                         \cup (IF p \in RightModerators THEN {Mod} ELSE {})

\* Fault: a failed write leaves the member in the object.
JoinChannelKeepsMember(p) ==
    /\ Doing(p, "join")
    /\ LET k  == req[p].obj
           ch == objs[k]
       IN IF p \in ch.banned \/ ch.password \notin {"", req[p].password} \/ p \in DOMAIN ch.members
          THEN UNCHANGED <<objs, db, torn, remaining>>
          ELSE LET flags == InitialFlags(ch, p)
                   new   == [ch EXCEPT !.owner = IF Owner \in flags THEN p ELSE @,
                                       !.members = WithMember(@, p, flags)]
               IN /\ objs' = [objs EXCEPT ![k] = new]
                  /\ torn' = torn \cup DroppedMark(k)
                  /\ \/ /\ db' = SaveChannelMember(db, ch.id, p, flags)
                        /\ UNCHANGED remaining
                     \/ /\ remaining.errors > 0
                        /\ Spend("errors")
                        /\ UNCHANGED db
    /\ Done(p)
    /\ UNCHANGED <<active, online, logouts, confirmed>>

\* ActiveChannel.JoinChannel: refused for a banned player or a wrong
\* password; the first member becomes the owner; a failed write takes the
\* member back, not the owner.
JoinChannel(p) ==
    /\ Doing(p, "join")
    /\ LET k  == req[p].obj
           ch == objs[k]
       IN IF p \in ch.banned \/ ch.password \notin {"", req[p].password} \/ p \in DOMAIN ch.members
          THEN UNCHANGED <<objs, db, torn, remaining>>
          ELSE LET flags == InitialFlags(ch, p)
                   new   == [ch EXCEPT !.owner = IF Owner \in flags THEN p ELSE @]
               IN /\ torn' = torn \cup DroppedMark(k)
                  /\ \/ /\ objs' = [objs EXCEPT ![k] = [new EXCEPT !.members = WithMember(@, p, flags)]]
                        /\ db' = SaveChannelMember(db, ch.id, p, flags)
                        /\ UNCHANGED remaining
                     \/ /\ remaining.errors > 0
                        /\ Spend("errors")
                        /\ objs' = [objs EXCEPT ![k] = new]
                        /\ UNCHANGED db
    /\ Done(p)
    /\ UNCHANGED <<active, online, logouts, confirmed>>

\* The next owner: a moderator if there is one, else any member.
Heirs(members) ==
    LET mods == {p \in DOMAIN members : Mod \in members[p]}
    IN IF mods # {} THEN mods ELSE DOMAIN members

\* Member n becomes the owner,
Crowned(ch, n) == [ch EXCEPT !.owner = n, !.members[n] = @ \cup {Owner}]

\* in the object and in its row; the write may fail and is then only logged.
Crown(k, ch, d, n) ==
    /\ objs' = [objs EXCEPT ![k] = Crowned(ch, n)]
    /\ \/ /\ db' = UpdateMemberFlags(d, ch.id, n, Crowned(ch, n).members[n])
          /\ UNCHANGED remaining
          /\ torn' = torn \cup DroppedMark(k)
       \/ /\ remaining.errors > 0
          /\ Spend("errors")
          /\ db' = d
          /\ torn' = torn \cup DroppedMark(k) \cup {"owner"}

\* Fault: ownership goes on only when a moderator is left.
LeaveChannelNoHeir(k, p) ==
    LET ch   == objs[k]
        rest == [ch EXCEPT !.members = Restrict(@, DOMAIN @ \ {p})]
        d    == RemoveChannelMember(db, ch.id, p)
    IN /\ p \in DOMAIN ch.members
       /\ IF Owner \in ch.members[p] /\ \E n \in DOMAIN rest.members : Mod \in rest.members[n]
          THEN \E n \in Heirs(rest.members) : Crown(k, rest, d, n)
          ELSE /\ objs' = [objs EXCEPT ![k] = rest]
               /\ db' = d
               /\ torn' = torn \cup DroppedMark(k)
               /\ UNCHANGED remaining

\* ActiveChannel.LeaveChannel, the member found and its row deleted: an owner
\* who leaves others behind is succeeded.
LeaveChannel(k, p) ==
    LET ch   == objs[k]
        rest == [ch EXCEPT !.members = Restrict(@, DOMAIN @ \ {p})]
        d    == RemoveChannelMember(db, ch.id, p)
    IN /\ p \in DOMAIN ch.members
       /\ IF Owner \in ch.members[p] /\ rest.members # <<>>
          THEN \E n \in Heirs(rest.members) : Crown(k, rest, d, n)
          ELSE /\ objs' = [objs EXCEPT ![k] = rest]
               /\ db' = d
               /\ torn' = torn \cup DroppedMark(k)
               /\ UNCHANGED remaining

\* LeaveChannel returns an error: not a member, or the row could not be
\* deleted and the member was put back.
LeaveChannelFails(k, p) ==
    /\ \/ p \notin DOMAIN objs[k].members /\ UNCHANGED remaining
       \/ p \in DOMAIN objs[k].members /\ remaining.errors > 0 /\ Spend("errors")
    /\ UNCHANGED <<objs, db, torn>>

AskLeave(p) ==
    /\ active # Nil
    /\ Asks(p, [op |-> "leave", obj |-> active, target |-> p])
    /\ UNCHANGED <<active, objs, db>>

Has(p, flags) == /\ active # Nil
                 /\ p \in DOMAIN objs[active].members
                 /\ objs[active].members[p] \cap flags # {}

IsIn(p) == p \in DOMAIN objs[active].members

\* The checks of KickPlayer, BanPlayerByName, UnbanPlayerByName,
\* SetModeratorByName, SetMuteByName, SetOwnerByName, SetChannelPassword and
\* ToggleChannelAnnouncements; the target is looked up among the members.
Needs(op) == IF op \in {"kick", "ban", "unban", "mute", "announce"} THEN {Owner, Mod} ELSE {Owner}

AskModerate(p, op, t) ==
    /\ Has(p, Needs(op))
    /\ IsIn(t)
    /\ Asks(p, [op |-> op, obj |-> active, target |-> t])
    /\ UNCHANGED <<active, objs, db>>

\* The rest of LeaveChannelByGUID and of KickPlayer.
LeaveOrKick(p) ==
    /\ Doing(p, "leave") \/ Doing(p, "kick")
    /\ LeaveChannel(req[p].obj, req[p].target) \/ LeaveChannelFails(req[p].obj, req[p].target)
    /\ Done(p)
    /\ UNCHANGED <<active, online, logouts, confirmed>>

\* BanPlayerByName: first the kick, whose failure is only logged,
BanKick(p) ==
    /\ Doing(p, "ban")
    /\ LeaveChannel(req[p].obj, req[p].target) \/ LeaveChannelFails(req[p].obj, req[p].target)
    /\ req' = [req EXCEPT ![p].op = "banMemory"]
    /\ UNCHANGED <<active, online, logouts, confirmed>>

\* then BanPlayer: the channel is looked up again, the ban goes into it,
BanMemory(p) ==
    /\ Doing(p, "banMemory")
    /\ IF active = Nil
       THEN Done(p) /\ UNCHANGED objs
       ELSE /\ objs' = [objs EXCEPT ![active].banned = @ \cup {req[p].target}]
            /\ req' = [req EXCEPT ![p].op = "banRow", ![p].obj = active]
    /\ UNCHANGED <<active, online, logouts, db, confirmed, torn, remaining>>

\* then into the database; only this failure reaches the caller.
BanRow(p) ==
    /\ Doing(p, "banRow")
    /\ LET t == req[p].target
       IN \/ /\ db' = [db EXCEPT !.bans[objs[req[p].obj].id] = @ \cup {t}]
             /\ confirmed' = confirmed \cup ({t} \cap objs[req[p].obj].banned)
             /\ torn' = torn \cup DroppedMark(req[p].obj)
             /\ UNCHANGED remaining
          \/ /\ remaining.errors > 0
             /\ Spend("errors")
             /\ UNCHANGED <<db, confirmed, torn>>
    /\ Done(p)
    /\ UNCHANGED <<active, objs, online, logouts>>

\* UnbanPlayer: out of the object, then out of the database.
UnbanMemory(p) ==
    /\ Doing(p, "unban")
    /\ IF active = Nil
       THEN Done(p) /\ UNCHANGED <<objs, confirmed>>
       ELSE /\ objs' = [objs EXCEPT ![active].banned = @ \ {req[p].target}]
            /\ req' = [req EXCEPT ![p].op = "unbanRow", ![p].obj = active]
            /\ confirmed' = confirmed \ {req[p].target}
    /\ UNCHANGED <<active, online, logouts, db, torn, remaining>>

UnbanRow(p) ==
    /\ Doing(p, "unbanRow")
    /\ \/ /\ db' = [db EXCEPT !.bans[objs[req[p].obj].id] = @ \ {req[p].target}]
          /\ confirmed' = confirmed \ {req[p].target}
          /\ UNCHANGED remaining
       \/ remaining.errors > 0 /\ Spend("errors") /\ UNCHANGED <<db, confirmed>>
    /\ Done(p)
    /\ UNCHANGED <<active, objs, online, logouts, torn>>

\* SetModerator and SetMute: the flag, written through or put back.
SetFlag(p) ==
    /\ Doing(p, "mod") \/ Doing(p, "mute")
    /\ LET k     == req[p].obj
           t     == req[p].target
           ch    == objs[k]
           flag  == IF req[p].op = "mod" THEN Mod ELSE Muted
           flags == IF flag \in ch.members[t] THEN ch.members[t] \ {flag} ELSE ch.members[t] \cup {flag}
       IN \/ t \notin DOMAIN ch.members /\ UNCHANGED <<objs, db, torn, remaining>>
          \/ /\ t \in DOMAIN ch.members
             /\ objs' = [objs EXCEPT ![k].members[t] = flags]
             /\ db' = UpdateMemberFlags(db, ch.id, t, flags)
             /\ torn' = torn \cup DroppedMark(k)
             /\ UNCHANGED remaining
          \/ /\ t \in DOMAIN ch.members
             /\ remaining.errors > 0
             /\ Spend("errors")
             /\ UNCHANGED <<objs, db, torn>>
    /\ Done(p)
    /\ UNCHANGED <<active, online, logouts, confirmed>>

\* The members when owner o loses the owner's flag, the object then, and the
\* row that is written.
Deposed(members, o) == [q \in DOMAIN members |-> IF q = o THEN members[q] \ {Owner} ELSE members[q]]
WithoutOwner(ch) == [ch EXCEPT !.members = Deposed(@, ch.owner)]
WithoutOwnerRow(d, ch) ==
    IF ch.owner \in DOMAIN ch.members
    THEN UpdateMemberFlags(d, ch.id, ch.owner, WithoutOwner(ch).members[ch.owner]) ELSE d

\* SetOwner: the old owner's flag is taken away and written, then the new
\* one's; a failure puts the object back, but not the row already written.
SetOwner(p) ==
    /\ Doing(p, "setOwner")
    /\ LET k  == req[p].obj
           t  == req[p].target
           ch == objs[k]
           d  == WithoutOwnerRow(db, ch)
           new == Crowned(WithoutOwner(ch), t)
       IN \/ t \notin DOMAIN ch.members /\ UNCHANGED <<objs, db, torn, remaining>>
          \/ /\ t \in DOMAIN ch.members
             /\ objs' = [objs EXCEPT ![k] = new]
             /\ db' = UpdateMemberFlags(d, ch.id, t, new.members[t])
             /\ torn' = torn \cup DroppedMark(k)
             /\ UNCHANGED remaining
          \/ /\ t \in DOMAIN ch.members
             /\ remaining.errors > 0
             /\ Spend("errors")
             /\ \/ UNCHANGED <<db, torn>>
                \/ db' = d /\ torn' = torn \cup {"owner"}
             /\ UNCHANGED objs
    /\ Done(p)
    /\ UNCHANGED <<active, online, logouts, confirmed>>

\* SetChannelPassword: the object and a copy of its settings under the lock,
SetPassword(p) ==
    /\ Doing(p, "password")
    /\ \E pw \in Passwords :
        LET ch == [objs[req[p].obj] EXCEPT !.password = pw]
        IN /\ objs' = [objs EXCEPT ![req[p].obj] = ch]
           /\ req' = [req EXCEPT ![p] = [op |-> "settingsRow", id |-> ch.id, copy |-> ch]]
    /\ UNCHANGED <<active, online, logouts, db, confirmed, torn, remaining>>

\* ToggleChannelAnnouncements: the switch under the lock,
ToggleAnnouncements(p) ==
    /\ Doing(p, "announce")
    /\ objs' = [objs EXCEPT ![req[p].obj].announce = ~@]
    /\ req' = [req EXCEPT ![p].op = "announceCopy"]
    /\ UNCHANGED <<active, online, logouts, db, confirmed, torn, remaining>>

\* the copy of the settings under the lock again,
CopySettings(p) ==
    /\ Doing(p, "announceCopy")
    /\ LET ch == objs[req[p].obj]
       IN req' = [req EXCEPT ![p] = [op |-> "settingsRow", id |-> ch.id, copy |-> ch]]
    /\ UNCHANGED <<active, objs, online, logouts, db, confirmed, torn, remaining>>

\* and, for both, the copy into the row, without a lock.
SettingsRow(p) ==
    /\ Doing(p, "settingsRow")
    /\ \/ db' = UpdateChannel(db, req[p].id, req[p].copy) /\ UNCHANGED <<remaining, torn>>
       \/ remaining.errors > 0 /\ Spend("errors") /\ torn' = torn \cup {"settings"} /\ UNCHANGED db
    /\ Done(p)
    /\ UNCHANGED <<active, objs, online, logouts, confirmed>>

\* ToggleChannelModeration: memory only, one step.
ToggleModeration(p) ==
    /\ Has(p, {Owner, Mod})
    /\ p \in online /\ req[p] = Nil
    /\ remaining.requests > 0
    /\ Spend("requests")
    /\ objs' = [objs EXCEPT ![active].moderation = ~@]
    /\ UNCHANGED <<active, req, online, logouts, db, confirmed, torn>>

CanSpeak(p) ==
    /\ active # Nil
    /\ p \in DOMAIN objs[active].members
    /\ Muted \notin objs[active].members[p]
    /\ objs[active].moderation => objs[active].members[p] \cap {Owner, Mod} # {}

\* SendChannelMessage: to whoever listens, and UpdateLastUsed.
Speak(p) ==
    /\ p \in online /\ req[p] = Nil
    /\ CanSpeak(p)
    /\ db.row # Nil /\ db.row.id = objs[active].id
    /\ db' = [db EXCEPT !.row.fresh = TRUE]
    /\ UNCHANGED <<active, objs, req, online, logouts, confirmed, torn, remaining>>

(***************************************************************************)
(* Sessions, the clean-up and restarts.                                    *)
(***************************************************************************)
PlayerLogout(p) ==
    /\ p \in online /\ req[p] = Nil
    /\ remaining.requests > 0
    /\ Spend("requests")
    /\ online' = online \ {p}
    /\ logouts' = logouts \cup {p}
    /\ UNCHANGED <<active, objs, req, db, confirmed, torn>>

PlayerLogin(p) ==
    /\ p \notin online
    /\ online' = online \cup {p}
    /\ UNCHANGED <<active, objs, req, logouts, db, confirmed, torn, remaining>>

\* TransferOwnershipOnLogout: an owner who logs out stays a member and hands
\* the channel to another member, whoever that is; both writes may fail.
TransferOwnershipOnLogout(p) ==
    /\ p \in logouts
    /\ logouts' = logouts \ {p}
    /\ IF active = Nil \/ p \notin DOMAIN objs[active].members
       THEN UNCHANGED <<objs, db, torn, remaining>>
       ELSE LET ch     == objs[active]
                others == Restrict(ch.members, DOMAIN ch.members \ {p})
                mine   == ch.members[p] \ {Owner}
                rest   == [ch EXCEPT !.members[p] = mine]
            IN IF Owner \notin ch.members[p] \/ others = <<>>
               THEN UNCHANGED <<objs, db, torn, remaining>>
               ELSE \E n \in Heirs(others) :
                      \/ Crown(active, rest, UpdateMemberFlags(db, ch.id, p, mine), n)
                      \/ /\ remaining.errors > 0
                         /\ Spend("errors")
                         /\ objs' = [objs EXCEPT ![active] = Crowned(rest, n)]
                         /\ db' = UpdateMemberFlags(db, ch.id, n, ch.members[n] \cup {Owner})
                         /\ torn' = torn \cup {"owner"}
    /\ UNCHANGED <<active, req, online, confirmed>>

\* cleanupLocalMemory: a channel without members is forgotten, under cm.mu.
CleanupLocalMemory ==
    /\ remaining.cleanups > 0
    /\ active # Nil
    /\ objs[active].members = <<>>
    /\ active' = Nil
    /\ Spend("cleanups")
    /\ UNCHANGED <<objs, req, online, logouts, db, confirmed, torn>>

\* A month passes without a message.
RowAges ==
    /\ remaining.cleanups > 0
    /\ db.row # Nil /\ db.row.fresh
    /\ db' = [db EXCEPT !.row.fresh = FALSE]
    /\ UNCHANGED <<active, objs, req, online, logouts, confirmed, torn, remaining>>

\* CleanOldChannels: the row goes, loaded or not; the rows of its members and
\* bans stay under the old id.
CleanOldChannels ==
    /\ remaining.cleanups > 0
    /\ db.row # Nil /\ ~db.row.fresh
    /\ db' = [db EXCEPT !.row = Nil]
    /\ torn' = torn \cup {"cleaned"}
    /\ Spend("cleanups")
    /\ UNCHANGED <<active, objs, req, online, logouts, confirmed>>

\* PruneOfflineMembers on the object loaded; its writes succeed here.
Pruned(ch) ==
    LET members == Restrict(ch.members, DOMAIN ch.members \cap online)
        gone    == ch.owner # Nil /\ ch.owner \notin online
    IN IF ~gone THEN {[ch EXCEPT !.members = members]}
       ELSE IF members = <<>> THEN {[ch EXCEPT !.members = members, !.owner = Nil]}
       ELSE {[ch EXCEPT !.owner = n, !.members = [members EXCEPT ![n] = @ \cup {Owner}]] : n \in Heirs(members)}

\* The process dies and starts again: PreloadChannels and
\* validateChannelMembers before it listens; events sent meanwhile are lost.
Restart ==
    /\ remaining.restarts > 0
    /\ req' = [p \in Players |-> Nil]
    /\ logouts' = {}
    /\ remaining' = [remaining EXCEPT !.restarts = @ - 1]
    /\ UNCHANGED torn
    /\ IF db.row = Nil
       THEN active' = Nil /\ objs' = <<>> /\ UNCHANGED db
       ELSE \E o \in LastOwner(db) :
              LET ch == LoadChannel(db, o)
              IN /\ active' = 1
                 /\ \/ objs' = <<ch>> /\ UNCHANGED db
                    \/ \E new \in Pruned(ch) :
                        /\ objs' = <<new>>
                        /\ db' = [db EXCEPT !.members[ch.id] = new.members]
    /\ UNCHANGED <<online, confirmed>>

Moderations == {"kick", "ban", "unban", "mod", "mute", "setOwner"}

ChatNext ==
    \/ \E p \in Players :
        \/ \E pw \in Passwords : AskJoin(p, pw)
        \/ JoinChannel(p)
        \/ AskLeave(p)
        \/ \E op \in Moderations, t \in Players : AskModerate(p, op, t)
        \/ \E op \in {"password", "announce"} : AskModerate(p, op, p)
        \/ LeaveOrKick(p)
        \/ BanKick(p) \/ BanMemory(p) \/ BanRow(p)
        \/ UnbanMemory(p) \/ UnbanRow(p)
        \/ SetFlag(p)
        \/ SetOwner(p)
        \/ SetPassword(p) \/ ToggleAnnouncements(p) \/ CopySettings(p) \/ SettingsRow(p)
        \/ ToggleModeration(p)
        \/ Speak(p)
        \/ PlayerLogout(p) \/ PlayerLogin(p) \/ TransferOwnershipOnLogout(p)
    \/ CleanupLocalMemory
    \/ RowAges
    \/ CleanOldChannels
    \/ Restart

ChatSpec == ChatInit /\ [][ChatNext]_chatVars

(***************************************************************************)
(* Properties.                                                             *)
(***************************************************************************)
Objects == [id : Ids, password : Passwords, announce : BOOLEAN, moderation : BOOLEAN,
            owner : Players \cup {Nil}, members : MemberRows, banned : SUBSET Players]

DbStates == [row : DbRows \cup {Nil}, next : 1..MaxId + 1,
             members : [Ids -> MemberRows], bans : [Ids -> SUBSET Players]]

Faults == {"dropped", "owner", "settings", "cleaned"}

Steps == {"leave", "kick", "ban", "banMemory", "banRow", "unban", "unbanRow", "mod", "mute",
          "setOwner", "password", "announce", "announceCopy"}

\* A request holds an object, or already a copy of its settings.
Requests(held) ==
    [op : {"join"}, obj : held, password : Passwords]
    \cup [op : Steps, obj : held, target : Players]
    \cup [op : {"settingsRow"}, id : Ids, copy : Objects]

ChatTypeOK ==
    /\ objs \in Seq(Objects)
    /\ active \in 1..Len(objs) \cup {Nil}
    /\ req \in [Players -> Requests(1..Len(objs)) \cup {Nil}]
    /\ online \subseteq Players
    /\ logouts \subseteq Players
    /\ db \in DbStates
    /\ confirmed \subseteq Players
    /\ torn \subseteq Faults

\* The channel in memory has the members of the database, with the same
\* moderators and the same muted players, whichever writes failed and
\* whatever was put back; owners are left aside, as a hand-over is allowed to
\* be in memory only.  Not when a request went on with an object the clean-up
\* had dropped: its member is in the database and not in the channel loaded
\* since.
AgreesWithDb ==
    (active # Nil /\ "dropped" \notin torn) =>
        LET ch   == objs[active]
            rows == db.members[ch.id]
        IN /\ DOMAIN ch.members = DOMAIN rows
           /\ \A p \in DOMAIN rows : ch.members[p] \ {Owner} = rows[p] \ {Owner}

\* A channel with members has exactly one owner, and it is the one the
\* channel names, through leaving, kicks, hand-overs, logouts of owners and
\* restarts, as long as no write of an owner's flag failed.
OneOwner ==
    (active # Nil /\ torn \cap {"dropped", "owner"} = {}) =>
        LET ch == objs[active]
        IN ch.members # <<>> => OwnersOf(ch.members) = {ch.owner}

\* A ban the server confirmed holds: it is in the database and in the channel,
\* also after the channel was forgotten and loaded again or the server
\* restarted, until it is lifted or the channel's row expires.
ConfirmedBanHolds ==
    torn \cap {"dropped", "cleaned"} = {} =>
        \A p \in confirmed :
            /\ p \in db.bans[db.row.id]
            /\ active # Nil => p \in objs[active].banned

\* A banned player is not a member.  It does not hold: between the kick and
\* the ban the player may join again, and a kick that fails is ignored.
BannedIsOut ==
    \A p \in confirmed : active # Nil => p \notin DOMAIN objs[active].members

\* When no request is under way the row has the channel's password.  It does
\* not hold: the copies of two requests may be written in the other order.
SettingsAgree ==
    (active # Nil /\ torn = {} /\ \A p \in Players : req[p] = Nil) =>
        objs[active].password = db.row.password

\* An owner who logs out is succeeded by a player who is online.  It does not
\* hold: members stay in the channel when they log out.
HeirIsOnline ==
    [][\A p \in Players : (TransferOwnershipOnLogout(p) /\ objs' # objs) =>
            objs'[active].owner \in online]_chatVars
=============================================================================
