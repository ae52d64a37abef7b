------------------------------ MODULE Presence ------------------------------
(***************************************************************************)
(* Who is online: the gateways tell, every replica of the characters       *)
(* server keeps its own answer.                                            *)
(*                                                                         *)
(* A gateway publishes a login, a logout and, once a second through        *)
(* CharactersUpdatesBarrier, the changed levels and zones, each on its own *)
(* NATS subject.  A replica has one subscription, so one goroutine, per    *)
(* subject: the order within a subject is kept, the order between subjects *)
(* is not.  A handler first changes the online storage (two indexes, by    *)
(* guid and by name) and then the friends' cache; a removal looks the      *)
(* character up under one lock and deletes it under another.  When the     *)
(* registry drops a dead gateway one replica is told, cleans its storage   *)
(* and tells the others.                                                   *)
(*                                                                         *)
(* With `patient` the players are slower than the events: a character logs *)
(* in or out, and the barrier opens for it, when the events before that    *)
(* about it have been handled.  Without it everything interleaves.  NATS   *)
(* is external and loses nothing here; a crashed gateway does not return   *)
(* under its old id.                                                       *)
(***************************************************************************)
EXTENDS Naturals, Sequences, Functions

CONSTANTS
    Gateways,
    Chars,
    Replicas,       \* of the characters server
    Fields,         \* what an update may carry (Lvl, Zone, Map)
    None,           \* no gateway, no entry
    Settings        \* bound: whether the players are patient and how many
                    \* logins, updates, failed sends and crashes there are

VARIABLES
    up,             \* the gateways that run
    session,        \* per character: the gateway of its last session, how it
                    \* began and what was last told to the barrier
    updsChan,       \* per gateway: CharactersUpdatesBarrier.updsChan
    buffer,         \* per gateway: buffer of CharactersUpdatesBarrier.Run
    told,           \* per character: the last published value of each field
    inboxes,        \* per replica and subject: events that wait
    running,        \* per replica and subject: the event its goroutine handles
    guidStorage,    \* per replica: charactersOnlineInMem.guidStorage
    nameStorage,    \* per replica: charactersOnlineInMem.nameStorage
    onlineInfo,     \* per replica: onlineInfoByGUID of the friends' cache
    removed,        \* ServerRegistryEventGWRemovedUnhealthy on its way to the group
    unnoticed,      \* crashed gateways the registry has not dropped yet
    setting         \* what is left of the setting

presenceVars == <<up, session, updsChan, buffer, told, inboxes, running, guidStorage,
                  nameStorage, onlineInfo, removed, unnoticed, setting>>

gwVars      == <<updsChan, buffer, told>>
storageVars == <<guidStorage, nameStorage>>
faultVars   == <<up, removed, unnoticed>>

Subjects == {"in", "out", "upd", "gone"}

\* Names are unique in the database; Add stores them in upper case.
CharName(c) == [name |-> c, case |-> "given"]
ToUpper(n)  == [n EXCEPT !.case = "upper"]
NameKeys    == [name : Chars, case : {"given", "upper"}]

NoUpdate == <<>>

\* The fields of the new update win.
Over(new, old) == [x \in DOMAIN new \cup DOMAIN old |-> IF x \in DOMAIN new THEN new[x] ELSE old[x]]
Single(x, y)   == [z \in {x} |-> y]

\* What the state is made of: an update carries some of the fields; a handler
\* keeps the event of its subject, and a removal what its lookup found.
Values    == [Fields -> Nat]
Updates   == UNION {[D -> Nat] : D \in SUBSET Fields}
Collected == UNION {[D -> Updates] : D \in SUBSET Chars}
Entries   == [id : Nat, gw : Gateways, val : Values]
EventsOf(s) == CASE s = "in"  -> [char : Chars, gw : Gateways, id : Nat, val : Values]
                 [] s = "out" -> [char : Chars, gw : Gateways \cup {None}]
                 [] s = "upd" -> [upd : Collected]
                 [] OTHER     -> [gw : Gateways]
HandledOf(s) == IF s = "out" THEN [char : Chars, found : BOOLEAN] ELSE EventsOf(s)

\* What the runs and the proofs assume of the constants: None is no value.
PresenceAssumption ==
    /\ Settings \subseteq [patient : BOOLEAN, logins : Nat, updates : Nat, errors : Nat, crashes : Nat]
    /\ None \notin Entries /\ None \notin Values
    /\ \A s \in Subjects : None \notin HandledOf(s)
ASSUME PresenceConstants == PresenceAssumption

PresenceInit ==
    /\ setting \in Settings
    /\ up = Gateways
    /\ session = [c \in Chars |-> [gw |-> None, id |-> 0, val |-> [f \in Fields |-> 0], open |-> FALSE]]
    /\ updsChan = [g \in Gateways |-> <<>>]
    /\ buffer = [g \in Gateways |-> NoUpdate]
    /\ told = [c \in Chars |-> [f \in Fields |-> 0]]
    /\ inboxes = [r \in Replicas |-> [s \in Subjects |-> <<>>]]
    /\ running = [r \in Replicas |-> [s \in Subjects |-> None]]
    /\ guidStorage = [r \in Replicas |-> [c \in Chars |-> None]]
    /\ nameStorage = [r \in Replicas |-> [k \in NameKeys |-> None]]
    /\ onlineInfo = [r \in Replicas |-> [c \in Chars |-> None]]
    /\ removed = <<>>
    /\ unnoticed = {}

(***************************************************************************)
(* Timing.                                                                 *)
(***************************************************************************)
About(e, c) == IF "upd" \in DOMAIN e THEN c \in DOMAIN e.upd
               ELSE "char" \in DOMAIN e /\ e.char = c

Pending(s, c) ==
    \E r \in Replicas :
        \/ \E i \in 1..Len(inboxes[r][s]) : About(inboxes[r][s][i], c)
        \/ running[r][s] # None /\ About(running[r][s], c)

InBarrier(c) == \E g \in up : \/ c \in DOMAIN buffer[g]
                              \/ \E i \in 1..Len(updsChan[g]) : updsChan[g][i].char = c

Handled(c) == ~Pending("in", c) /\ ~Pending("out", c) /\ ~Pending("upd", c)

Publish(box, s, e) == [r \in Replicas |-> [box[r] EXCEPT ![s] = Append(@, e)]]

(***************************************************************************)
(* The gateways.                                                           *)
(***************************************************************************)
\* login: the new session publishes CharacterLoggedIn with the values the
\* database has.
Login(c, g) ==
    /\ g \in up
    /\ ~session[c].open
    /\ setting.logins > 0
    /\ setting.patient => Handled(c) /\ ~InBarrier(c)
    /\ LET s == [session[c] EXCEPT !.gw = g, !.id = @ + 1, !.open = TRUE]
       IN /\ session' = [session EXCEPT ![c] = s]
          /\ told' = [told EXCEPT ![c] = s.val]
          /\ inboxes' = Publish(inboxes, "in", [char |-> c, gw |-> g, id |-> s.id, val |-> s.val])
    /\ setting' = [setting EXCEPT !.logins = @ - 1]
    /\ UNCHANGED <<updsChan, buffer, running, storageVars, onlineInfo, faultVars>>

\* onLoggedOut publishes CharacterLoggedOut.
Logout(c) ==
    /\ session[c].open
    /\ setting.patient => Handled(c)
    /\ session' = [session EXCEPT ![c].open = FALSE]
    /\ inboxes' = Publish(inboxes, "out", [char |-> c, gw |-> session[c].gw])
    /\ UNCHANGED <<gwVars, running, storageVars, onlineInfo, faultVars, setting>>

\* InterceptInitWorldStates, InterceptLevelUpInfo: the world tells a new
\* value; UpdateLevel, UpdateZone and UpdateMap put it into the channel.
Update(c, f) ==
    /\ session[c].open
    /\ setting.updates > 0
    /\ LET v == session[c].val[f] + 1
       IN /\ session' = [session EXCEPT ![c].val[f] = v]
          /\ updsChan' = [updsChan EXCEPT ![session[c].gw] = Append(@, [char |-> c, upd |-> Single(f, v)])]
    /\ setting' = [setting EXCEPT !.updates = @ - 1]
    /\ UNCHANGED <<buffer, told, inboxes, running, storageVars, onlineInfo, faultVars>>

\* Fault: the new update replaces the old one.
MergeCharUpdatesReplaced(oldUpd, newUpd) == newUpd

\* mergeCharUpdates: the fields the new update carries win.
MergeCharUpdates(oldUpd, newUpd) == Over(newUpd, oldUpd)

\* Run, the case of updsChan: collect per character.
Collect(g) ==
    /\ g \in up
    /\ updsChan[g] # <<>>
    /\ LET u   == Head(updsChan[g])
           upd == IF u.char \in DOMAIN buffer[g]
                  THEN MergeCharUpdates(buffer[g][u.char], u.upd)
                  ELSE u.upd
       IN buffer' = [buffer EXCEPT ![g] = Over(Single(u.char, upd), @)]
    /\ updsChan' = [updsChan EXCEPT ![g] = Tail(@)]
    /\ UNCHANGED <<session, told, inboxes, running, storageVars, onlineInfo, faultVars, setting>>

\* The values of the characters `cs` of gateway g are published in one message.
Sent(g, cs) ==
    /\ told' = [c \in Chars |-> IF c \in cs THEN Over(buffer[g][c], told[c]) ELSE told[c]]
    /\ inboxes' = IF cs = {} THEN inboxes
                ELSE Publish(inboxes, "upd", [upd |-> Restrict(buffer[g], cs)])

\* Run, the case of the ticker, and send: publish what was collected.  Above
\* a thousand characters send needs several messages and may fail after some
\* of them; a failed send keeps the whole buffer.
OpenBarrier(g) ==
    /\ g \in up
    /\ buffer[g] # NoUpdate
    /\ setting.patient => \A c \in DOMAIN buffer[g] : ~Pending("in", c)
    /\ \/ /\ Sent(g, DOMAIN buffer[g])
          /\ buffer' = [buffer EXCEPT ![g] = NoUpdate]
          /\ UNCHANGED setting
       \/ /\ setting.errors > 0
          /\ \E cs \in SUBSET DOMAIN buffer[g] : cs # DOMAIN buffer[g] /\ Sent(g, cs)
          /\ setting' = [setting EXCEPT !.errors = @ - 1]
          /\ UNCHANGED buffer
    /\ UNCHANGED <<session, updsChan, running, storageVars, onlineInfo, faultVars>>

\* A gateway dies with its sessions, its channel and its buffer.
Crash(g) ==
    /\ g \in up
    /\ setting.crashes > 0
    /\ up' = up \ {g}
    /\ unnoticed' = unnoticed \cup {g}
    /\ session' = [c \in Chars |-> IF session[c].gw = g THEN [session[c] EXCEPT !.open = FALSE]
                                   ELSE session[c]]
    /\ updsChan' = [updsChan EXCEPT ![g] = <<>>]
    /\ buffer' = [buffer EXCEPT ![g] = NoUpdate]
    /\ setting' = [setting EXCEPT !.crashes = @ - 1]
    /\ UNCHANGED <<told, inboxes, running, storageVars, onlineInfo, removed>>

\* The registry drops the gateway after its failed health checks.
RegistryDrops(g) ==
    /\ g \in unnoticed
    /\ setting.patient => \A c \in Chars : session[c].gw = g => Handled(c)
    /\ unnoticed' = unnoticed \ {g}
    /\ removed' = Append(removed, g)
    /\ UNCHANGED <<up, session, gwVars, inboxes, running, storageVars, onlineInfo, setting>>

(***************************************************************************)
(* A replica of the characters server.                                     *)
(***************************************************************************)
Entry(e) == [id |-> e.id, gw |-> e.gw, val |-> e.val]

\* HandleCharacterLoggedIn of the storage: Add.
HandleLoggedIn(r) ==
    /\ running[r]["in"] = None
    /\ inboxes[r]["in"] # <<>>
    /\ LET e == Head(inboxes[r]["in"])
       IN /\ guidStorage' = [guidStorage EXCEPT ![r][e.char] = Entry(e)]
          /\ nameStorage' = [nameStorage EXCEPT ![r][ToUpper(CharName(e.char))] = e.id]
          /\ running' = [running EXCEPT ![r]["in"] = e]
    /\ inboxes' = [inboxes EXCEPT ![r]["in"] = Tail(@)]
    /\ UNCHANGED <<session, gwVars, onlineInfo, faultVars, setting>>

\* HandleCharacterLoggedOut of the storage: Remove looks the character up and
\* returns when there is none.
HandleLoggedOut(r) ==
    /\ running[r]["out"] = None
    /\ inboxes[r]["out"] # <<>>
    /\ LET e == Head(inboxes[r]["out"])
       IN running' = [running EXCEPT ![r]["out"] =
              [char |-> e.char, found |-> guidStorage[r][e.char] # None]]
    /\ inboxes' = [inboxes EXCEPT ![r]["out"] = Tail(@)]
    /\ UNCHANGED <<session, gwVars, storageVars, onlineInfo, faultVars, setting>>

\* Fault: the key is the name as it is written (the bug B55 fixed).
RemoveFoundByWrittenName(r) ==
    /\ running[r]["out"] # None
    /\ running[r]["out"].found
    /\ LET c == running[r]["out"].char
       IN /\ guidStorage' = [guidStorage EXCEPT ![r][c] = None]
          /\ nameStorage' = [nameStorage EXCEPT ![r][CharName(c)] = None]
          /\ running' = [running EXCEPT ![r]["out"].found = FALSE]
    /\ UNCHANGED <<session, gwVars, inboxes, onlineInfo, faultVars, setting>>

\* Remove, after its lookup: both deletions, under the lock taken again.
RemoveFound(r) ==
    /\ running[r]["out"] # None
    /\ running[r]["out"].found
    /\ LET c == running[r]["out"].char
       IN /\ guidStorage' = [guidStorage EXCEPT ![r][c] = None]
          /\ nameStorage' = [nameStorage EXCEPT ![r][ToUpper(CharName(c))] = None]
          /\ running' = [running EXCEPT ![r]["out"].found = FALSE]
    /\ UNCHANGED <<session, gwVars, inboxes, onlineInfo, faultVars, setting>>

\* HandleCharactersUpdates of the storage: only characters that are online.
HandleUpdates(r) ==
    /\ running[r]["upd"] = None
    /\ inboxes[r]["upd"] # <<>>
    /\ LET e == Head(inboxes[r]["upd"])
           old(c) == guidStorage[r][c]
       IN /\ guidStorage' = [guidStorage EXCEPT ![r] = [c \in Chars |->
                 IF c \in DOMAIN e.upd /\ old(c) # None
                 THEN [old(c) EXCEPT !.val = Over(e.upd[c], old(c).val)] ELSE old(c)]]
          /\ running' = [running EXCEPT ![r]["upd"] = e]
    /\ inboxes' = [inboxes EXCEPT ![r]["upd"] = Tail(@)]
    /\ UNCHANGED <<session, gwVars, nameStorage, onlineInfo, faultVars, setting>>

\* The second handler of the composite handlers: the friends' cache.
HandleFriends(r) ==
    /\ \/ /\ running[r]["in"] # None
          /\ LET e == running[r]["in"]
             IN onlineInfo' = [onlineInfo EXCEPT ![r][e.char] = e.val]
          /\ running' = [running EXCEPT ![r]["in"] = None]
       \/ /\ running[r]["out"] # None
          /\ ~running[r]["out"].found
          /\ onlineInfo' = [onlineInfo EXCEPT ![r][running[r]["out"].char] = None]
          /\ running' = [running EXCEPT ![r]["out"] = None]
       \/ /\ running[r]["upd"] # None
          /\ LET u == running[r]["upd"].upd
             IN onlineInfo' = [onlineInfo EXCEPT ![r] = [c \in Chars |->
                    IF c \in DOMAIN u /\ @[c] # None THEN Over(u[c], @[c]) ELSE @[c]]]
          /\ running' = [running EXCEPT ![r]["upd"] = None]
    /\ UNCHANGED <<session, gwVars, inboxes, storageVars, faultVars, setting>>

OfGateway(r, g) == {c \in Chars : guidStorage[r][c] # None /\ guidStorage[r][c].gw = g}

\* RemoveAllWithGatewayID: both indexes, in one critical section.
RemoveAllWithGatewayID(r, g) ==
    LET gone == OfGateway(r, g)
    IN /\ guidStorage' = [guidStorage EXCEPT ![r] =
              [c \in Chars |-> IF c \in gone THEN None ELSE @[c]]]
       /\ nameStorage' = [nameStorage EXCEPT ![r] = [k \in NameKeys |->
              IF \E c \in gone : k = ToUpper(CharName(c)) THEN None ELSE @[k]]]

\* Fault: the other replicas are not told.
HandleGWRemovedSilently(r) ==
    /\ removed # <<>>
    /\ RemoveAllWithGatewayID(r, Head(removed))
    /\ removed' = Tail(removed)
    /\ UNCHANGED <<up, unnoticed, session, gwVars, inboxes, running, onlineInfo, setting>>

\* GWRemovedUnhealthy: one member of the queue group handles it and, when it
\* removed anybody, tells every replica.
HandleGWRemoved(r) ==
    /\ removed # <<>>
    /\ LET g == Head(removed)
       IN /\ RemoveAllWithGatewayID(r, g)
          /\ inboxes' = IF OfGateway(r, g) = {} THEN inboxes
                      ELSE Publish(inboxes, "gone", [gw |-> g])
    /\ removed' = Tail(removed)
    /\ UNCHANGED <<up, unnoticed, session, gwVars, running, onlineInfo, setting>>

\* CharsDisconnectedUnhealthyGW.
HandleCharsDisconnected(r) ==
    /\ inboxes[r]["gone"] # <<>>
    /\ RemoveAllWithGatewayID(r, Head(inboxes[r]["gone"]).gw)
    /\ inboxes' = [inboxes EXCEPT ![r]["gone"] = Tail(@)]
    /\ UNCHANGED <<session, gwVars, running, onlineInfo, faultVars, setting>>

PresenceNext ==
    \/ \E c \in Chars :
        \/ \E g \in Gateways : Login(c, g)
        \/ Logout(c)
        \/ \E f \in Fields : Update(c, f)
    \/ \E g \in Gateways : Collect(g) \/ OpenBarrier(g) \/ Crash(g) \/ RegistryDrops(g)
    \/ \E r \in Replicas :
        \/ HandleLoggedIn(r)
        \/ HandleLoggedOut(r)
        \/ RemoveFound(r)
        \/ HandleUpdates(r)
        \/ HandleFriends(r)
        \/ HandleGWRemoved(r)
        \/ HandleCharsDisconnected(r)

PresenceSpec == PresenceInit /\ [][PresenceNext]_presenceVars

(***************************************************************************)
(* Properties.                                                             *)
(***************************************************************************)
PresenceTypeOK ==
    /\ up \subseteq Gateways
    /\ unnoticed \subseteq Gateways \ up
    /\ removed \in Seq(Gateways)
    /\ setting \in [patient : BOOLEAN, logins : Nat, updates : Nat, errors : Nat, crashes : Nat]
    /\ session \in [Chars -> [gw : Gateways \cup {None}, id : Nat, val : Values, open : BOOLEAN]]
    /\ updsChan \in [Gateways -> Seq([char : Chars, upd : Updates])]
    /\ buffer \in [Gateways -> Collected]
    /\ told \in [Chars -> Values]
    /\ inboxes = [r \in Replicas |-> [s \in Subjects |-> inboxes[r][s]]]
    /\ running = [r \in Replicas |-> [s \in Subjects |-> running[r][s]]]
    /\ \A r \in Replicas, s \in Subjects :
        /\ inboxes[r][s] \in Seq(EventsOf(s))
        /\ running[r][s] \in HandledOf(s) \cup {None}
    /\ guidStorage \in [Replicas -> [Chars -> Entries \cup {None}]]
    /\ nameStorage \in [Replicas -> [NameKeys -> Nat \cup {None}]]
    /\ onlineInfo \in [Replicas -> [Chars -> Values \cup {None}]]

\* The two indexes of a replica's online storage agree: a character is found
\* by its name exactly when it is found by its guid, and it is the same
\* record, so a name never answers with a session that is over.  In every
\* order of events, with a removal that is interrupted between its lookup and
\* its deletions.  (charactersOnlineInMem; the entry the fix B55 is about.)
IndexesAgree ==
    \A r \in Replicas : \A c \in Chars :
        nameStorage[r][ToUpper(CharName(c))] =
            IF guidStorage[r][c] = None THEN None ELSE guidStorage[r][c].id

\* The value the barrier knows last of a field of a character.
Latest(g, c, f) ==
    LET at == {i \in 1..Len(updsChan[g]) : updsChan[g][i].char = c /\ f \in DOMAIN updsChan[g][i].upd}
    IN IF at # {} THEN updsChan[g][CHOOSE i \in at : \A j \in at : j <= i].upd[f]
       ELSE IF c \in DOMAIN buffer[g] /\ f \in DOMAIN buffer[g][c] THEN buffer[g][c][f]
       ELSE told[c][f]

\* No update is forgotten in the barrier, through merging, partly failed
\* sends and retries: the newest value of every field waits in the channel,
\* else in the buffer, else it is the last one published - for patient players,
\* and for all others as long as each logs in once: else the buffer of an old
\* session's gateway may be published after the new session's.
NothingForgotten ==
    \A c \in Chars : session[c].open =>
        \A f \in Fields : Latest(session[c].gw, c, f) = session[c].val[f]

Settled ==
    /\ \A g \in Gateways : updsChan[g] = <<>> /\ buffer[g] = NoUpdate
    /\ \A r \in Replicas, s \in Subjects : inboxes[r][s] = <<>> /\ running[r][s] = None
    /\ removed = <<>> /\ unnoticed = {}

\* Once the events are handled, every replica answers with the truth: a
\* character that plays is listed with its gateway and its newest values, for
\* /who and for its friends, and nobody else is listed, also after a gateway
\* died and its players came back through another one before the registry
\* noticed.  The friends' cache alone keeps the players of a dead gateway:
\* nothing removes them from it until they log in and out again.
SettledIsTrue ==
    (setting.patient /\ Settled) =>
        \A r \in Replicas, c \in Chars :
            IF session[c].open
            THEN /\ guidStorage[r][c] # None
                 /\ guidStorage[r][c].gw = session[c].gw
                 /\ guidStorage[r][c].val = session[c].val
                 /\ onlineInfo[r][c] = session[c].val
            ELSE /\ guidStorage[r][c] = None
                 /\ onlineInfo[r][c] # None => session[c].gw \notin up

\* The friends' cache lists only players that are online.  It does not hold:
\* a gateway's crash leaves its players in the cache.
FriendsSeeOnlyOnline ==
    (setting.patient /\ Settled) =>
        \A r \in Replicas, c \in Chars : onlineInfo[r][c] # None => session[c].open
=============================================================================
