--------------------------- MODULE GatewaySession ---------------------------
(***************************************************************************)
(* One client's session in the gateway (apps/gateway/session).             *)
(*                                                                         *)
(* HandlePackets is a loop in one goroutine; it alone reads and writes the *)
(* session's fields, so a handler is one step here even where it waits for *)
(* a call or a new connection.  What runs beside the loop are the helper   *)
(* goroutines that reconnect a player whose world server was lost or that  *)
(* redirect one who changes maps; they work on a snapshot and hand their   *)
(* result over through sessionSafeFuChan.  Between the start of a helper   *)
(* and the hand-over the player may log out, log in again or leave.        *)
(*                                                                         *)
(* The client is modelled by what its screen allows: it asks for the       *)
(* character list whenever it comes to the character screen and logs in    *)
(* from there.  Game servers, the registry and the characters server are   *)
(* the environment: a connection attempt succeeds, fails, or fails after   *)
(* the socket was opened.                                                  *)
(***************************************************************************)
EXTENDS Naturals, Sequences, FiniteSets, SequencesExt

CONSTANTS
    Chars,          \* characters of the account
    SocketIds,      \* bound: world sockets that exist at a time
    HelperIds,      \* bound: helper goroutines that run at a time
    None,           \* no character, no socket
    MaxRetries,     \* maxRetries of onWorldSocketClosed
    Budgets         \* bound: how many logins, connections closed by game
                    \* servers and battleground requests a behaviour has

ASSUME SessionAssumption ==
    /\ None \notin Chars \cup SocketIds
    /\ MaxRetries \in Nat \ {0}
    /\ Budgets \subseteq [logins : Nat, drops : Nat, enqueues : Nat]

VARIABLES
    loop,           \* "run", "ended" or, after a nil dereference, "panic"
    ctxDone,        \* s.ctx is cancelled: the client's connection is gone
    client,         \* what the client shows: "select", "world" or "failed"
    character,      \* s.character
    world,          \* s.worldSocket
    open,           \* the world sockets whose connection is open
    playing,        \* the character s.worldSocket was opened for
    helper,         \* the helper goroutines
    safeFu,         \* sessionSafeFuChan
    teleporting,    \* s.teleportingToNewMap is set
    flags,          \* ignoreNextInterceptToNewMap, GroupMangedByGameServer
    bg,             \* bgInviteOrderingFix and what the client was shown
    events,         \* s.eventsChan
    mm,             \* matchmaking events that are on their way, with their addressee
    stranded,       \* a battleground redirect left the player without world
    left            \* what is left of the budget

vars == <<loop, ctxDone, client, character, world, open, playing, helper, safeFu,
          teleporting, flags, bg, events, mm, stranded, left>>

worldVars == <<world, playing>>
bgVars    == <<bg, events, mm>>
lifeVars  == <<loop, ctxDone, client>>
flagVars  == <<teleporting, flags>>

Idle   == [kind |-> "none"]
NoFlag == [ignore |-> FALSE, managed |-> FALSE]
NoBg   == [asked |-> FALSE, waiting |-> FALSE, pending |-> FALSE,
           statusShown |-> FALSE, inviteShown |-> FALSE]

FlagSet == [ignore : BOOLEAN, managed : BOOLEAN]
BgSet   == [asked : BOOLEAN, waiting : BOOLEAN, pending : BOOLEAN,
            statusShown : BOOLEAN, inviteShown : BOOLEAN]

HelperStates ==
    {Idle}
    \cup [kind : {"reconnect", "redirect"}, char : Chars, tries : 0 .. MaxRetries, sock : SocketIds \cup {None}]
    \cup [kind : {"rejoin"}]
FuStates == [kind : {"reconnect", "redirect"}, char : Chars, sock : SocketIds] \cup {[kind |-> "rejoin"]}

TypeOK ==
    /\ loop \in {"run", "ended", "panic"}
    /\ ctxDone \in BOOLEAN
    /\ client \in {"select", "world", "failed"}
    /\ character \in Chars \cup {None}
    /\ world \in SocketIds \cup {None}
    /\ open \subseteq SocketIds
    /\ playing \in Chars \cup {None}
    /\ helper \in [HelperIds -> HelperStates]
    /\ safeFu \in Seq(FuStates)
    /\ teleporting \in BOOLEAN
    /\ flags \in FlagSet
    /\ bg \in BgSet
    /\ events \in Seq({"joined", "invited", "expired"})
    /\ mm \subseteq ({"joined", "invited", "expired"} \X Chars)
    /\ stranded \in BOOLEAN
    /\ left \in [logins : Nat, drops : Nat, enqueues : Nat]

Init ==
    /\ loop = "run" /\ ctxDone = FALSE /\ client = "select"
    /\ character = None /\ world = None
    /\ open = {} /\ playing = None
    /\ helper = [h \in HelperIds |-> Idle] /\ safeFu = <<>>
    /\ teleporting = FALSE /\ flags = NoFlag
    /\ bg = NoBg /\ events = <<>> /\ mm = {}
    /\ stranded = FALSE
    /\ left \in Budgets

-----------------------------------------------------------------------------
(* Sockets.  A socket id is taken while the connection is open or somebody *)
(* holds the socket.                                                       *)

Held ==
    {world}
    \cup {helper[h].sock : h \in {x \in HelperIds : helper[x].kind \in {"reconnect", "redirect"}}}
    \cup {safeFu[i].sock : i \in {j \in DOMAIN safeFu : safeFu[j].kind # "rejoin"}}

Fresh == CHOOSE k \in SocketIds : k \notin open \cup Held
CanOpen == SocketIds \ (open \cup Held) # {}

\* connectToGameServer opens socket k, when `kept` are the ones not closed
\* before.  An error (a failed call, an unknown character or map, a refused
\* connection) opens nothing; but a missing first packet returns an error and
\* leaves the new socket open.
Connects(k, kept) ==
    /\ CanOpen /\ k = Fresh
    /\ open' = kept \cup {k}

ConnectFails(kept) ==
    \/ open' = kept
    \/ \E k \in SocketIds : Connects(k, kept)

\* A goroutine starts beside the loop.
Spawn(h, what) ==
    /\ helper[h] = Idle
    /\ helper' = [helper EXCEPT ![h] = what]

Running == loop = "run"

\* A nil dereference ends the process: there is no recover in the gateway.
Panic ==
    /\ loop' = "panic"
    /\ open' = {}
    /\ helper' = [h \in HelperIds |-> Idle]
    /\ safeFu' = <<>>
    /\ UNCHANGED <<ctxDone, client, character, worldVars, flagVars, bg, events, mm, stranded, left>>

-----------------------------------------------------------------------------
(* Packets of the client.                                                  *)

\* onLoggedOut: the event, the broadcasters and the character; the events
\* channel and the flags of the session stay as they are.
LoggedOut ==
    /\ character' = None
    /\ flags' = NoFlag
    /\ bg' = NoBg

\* CharactersList
CharEnum ==
    /\ Running /\ ~ctxDone /\ client \in {"world", "failed"}
    /\ client' = "select"
    /\ open' = open \ {world}
    /\ world' = None /\ playing' = None
    /\ stranded' = FALSE
    /\ IF character # None THEN LoggedOut ELSE UNCHANGED <<character, flags, bg>>
    /\ UNCHANGED <<loop, ctxDone, helper, safeFu, teleporting, events, mm, left>>

\* Login: on an error the client stays at the character screen.
LoginOK(c, k) ==
    /\ Connects(k, open)
    /\ character' = c
    /\ world' = k /\ playing' = c
    /\ client' = "world"
    /\ flags' = NoFlag
    /\ bg' = NoBg
    /\ events' = <<>>

LoginFails ==
    /\ ConnectFails(open)
    /\ UNCHANGED <<character, worldVars, client, flags, bg, events>>

Login(c) ==
    /\ Running /\ ~ctxDone /\ client = "select"
    /\ left.logins > 0
    /\ left' = [left EXCEPT !.logins = @ - 1]
    /\ LoginFails \/ \E k \in SocketIds : LoginOK(c, k)
    /\ UNCHANGED <<loop, ctxDone, helper, safeFu, teleporting, mm, stranded>>

\* InterceptMoveWorldPortAck: nothing without a world socket or a pending
\* teleport; the old server may be the right one, may refuse to let the
\* player go, or confirms (or closes) and is left.
PortAckStays ==
    UNCHANGED <<worldVars, open, helper>>

PortAckRedirects(h) ==
    /\ open' = open \ {world}
    /\ world' = None /\ playing' = None
    /\ Spawn(h, [kind |-> "redirect", char |-> character, tries |-> MaxRetries - 1, sock |-> None])

MoveWorldPortAck ==
    /\ Running /\ ~ctxDone /\ client = "world"
    /\ teleporting /\ world # None
    /\ \/ /\ flags.managed          \* LoadGroupForPlayer failed
          /\ flags' = [flags EXCEPT !.managed = FALSE]
          /\ UNCHANGED teleporting /\ PortAckStays
       \/ /\ teleporting' = FALSE
          /\ flags' = NoFlag
          /\ PortAckStays \/ \E h \in HelperIds : PortAckRedirects(h)
    /\ UNCHANGED <<lifeVars, character, safeFu,
                   bgVars, stranded, left>>

\* Matchmaking queues the player and invites him when a battleground starts.
Queued == mm' = {"joined", "invited"} \X {character}

\* Fault: waiting is not set, so an invite that overtakes the queue status is
\* shown.
EnqueueNotWaiting ==
    /\ Running /\ ~ctxDone /\ client = "world" /\ mm = {} /\ world # None
    /\ left.enqueues > 0
    /\ left' = [left EXCEPT !.enqueues = @ - 1]
    /\ Queued
    /\ bg' = [bg EXCEPT !.asked = TRUE]
    /\ UNCHANGED <<lifeVars, character, worldVars, open, helper, safeFu,
                   flagVars, events, stranded>>

\* HandleEnqueueToBattleground by the player himself (or the group's leader):
\* the call may fail, also after matchmaking has queued the player.
Enqueue ==
    /\ Running /\ ~ctxDone /\ client = "world" /\ mm = {}
    /\ left.enqueues > 0
    /\ IF world = None
       THEN Panic
       ELSE /\ left' = [left EXCEPT !.enqueues = @ - 1]
            /\ \/ /\ Queued
                  /\ bg' = [bg EXCEPT !.asked = TRUE, !.waiting = TRUE, !.statusShown = FALSE,
                                   !.inviteShown = FALSE]
               \/ /\ Queued \/ UNCHANGED mm
                  /\ bg' = [bg EXCEPT !.asked = FALSE]
            /\ UNCHANGED <<lifeVars, character, worldVars, open, helper, safeFu,
                           flagVars, events, stranded>>

\* enterBattleground with battlegroundPlayerRedirect, which connects in
\* place: a failure after the old socket is closed leaves no world socket.
EnterStays ==
    /\ flags' \in {flags, [flags EXCEPT !.ignore = TRUE], [ignore |-> TRUE, managed |-> TRUE]}
    /\ UNCHANGED <<worldVars, open, stranded>>

EnterMoves(k) ==
    /\ Connects(k, open \ {world})
    /\ flags' \in {[flags EXCEPT !.ignore = TRUE], [ignore |-> TRUE, managed |-> TRUE]}
    /\ world' = k
    /\ playing' = character
    /\ UNCHANGED stranded

EnterStrands ==
    /\ ConnectFails(open \ {world})
    /\ world' = None
    /\ playing' = None
    /\ flags' = [flags EXCEPT !.ignore = TRUE]
    /\ stranded' = TRUE

EnterBattleground ==
    /\ Running /\ ~ctxDone /\ client = "world" /\ bg.inviteShown
    /\ IF world = None
       THEN Panic
       ELSE /\ EnterStays \/ EnterStrands \/ \E k \in SocketIds : EnterMoves(k)
            /\ bg' = [bg EXCEPT !.inviteShown = FALSE]
            /\ UNCHANGED <<lifeVars, character, helper, safeFu, teleporting, events, mm, left>>

\* HandleBattlegroundPort with LeaveQueue
LeaveQueue ==
    /\ Running /\ ~ctxDone /\ client = "world" /\ bg.statusShown
    /\ bg' = [bg EXCEPT !.inviteShown = FALSE]
    /\ UNCHANGED <<lifeVars, character, worldVars, open, helper, safeFu,
                   flagVars, events, mm, stranded, left>>

-----------------------------------------------------------------------------
(* Packets of the world server and the end of its connection.              *)

\* InterceptNewWorld
NewWorld ==
    /\ Running /\ world \in open /\ ~teleporting
    /\ teleporting' = TRUE
    /\ UNCHANGED <<lifeVars, character, worldVars, open, helper, safeFu, flags, bgVars, stranded, left>>

\* HandleReadyForRedirectRequest: the new socket replaces the old one, which
\* is left for its server to close.
ReadyForRedirect ==
    /\ Running /\ world \in open
    /\ \/ ConnectFails(open) /\ UNCHANGED worldVars
       \/ \E k \in SocketIds : Connects(k, open) /\ world' = k /\ playing' = character
    /\ UNCHANGED <<lifeVars, character, helper, safeFu, flagVars, bgVars, stranded, left>>

\* The game server closes a connection or ends.
ServerDrops(k) ==
    /\ k \in open /\ left.drops > 0
    /\ left' = [left EXCEPT !.drops = @ - 1]
    /\ open' = open \ {k}
    /\ UNCHANGED <<lifeVars, character, worldVars, helper, safeFu, flagVars, bgVars, stranded>>

\* The loop reads the closed channel: worldSocket = nil, onWorldSocketClosed.
WorldClosed ==
    /\ Running /\ world # None /\ world \notin open
    /\ world' = None /\ playing' = None
    /\ IF character = None
       THEN UNCHANGED helper
       ELSE \E h \in HelperIds :
                Spawn(h, [kind |-> "reconnect", char |-> character, tries |-> 0, sock |-> None])
    /\ UNCHANGED <<lifeVars, character, open, safeFu, flagVars, bgVars, stranded, left>>

-----------------------------------------------------------------------------
(* The helper goroutines.                                                  *)

\* The client is sent SMsgCharacterLoginFailed.
TellFailed == client' = IF client = "world" THEN "failed" ELSE client

Connecting(h) == helper[h].kind \in {"reconnect", "redirect"} /\ helper[h].sock = None

\* Fault: a helper whose attempts all fail ends without a word to the client.
TrySilently(h) ==
    /\ Connecting(h) /\ ~ctxDone
    /\ \/ \E k \in SocketIds :
             /\ Connects(k, open)
             /\ helper' = [helper EXCEPT ![h].sock = k]
       \/ /\ ConnectFails(open)
          /\ helper' = [helper EXCEPT ![h] = IF @.tries + 1 < MaxRetries
                                             THEN [@ EXCEPT !.tries = @ + 1] ELSE Idle]
    /\ UNCHANGED <<lifeVars, character, worldVars, safeFu, flagVars,
                   bgVars, stranded, left>>

\* One attempt.  After the last one fails the client is told.
Try(h) ==
    /\ Connecting(h) /\ ~ctxDone
    /\ \/ \E k \in SocketIds :
             /\ Connects(k, open)
             /\ helper' = [helper EXCEPT ![h].sock = k]
             /\ UNCHANGED client
       \/ /\ ConnectFails(open)
          /\ IF helper[h].tries + 1 < MaxRetries
             THEN helper' = [helper EXCEPT ![h].tries = @ + 1] /\ UNCHANGED client
             ELSE helper' = [helper EXCEPT ![h] = Idle] /\ TellFailed
    /\ UNCHANGED <<loop, ctxDone, character, worldVars, safeFu, flagVars,
                   bgVars, stranded, left>>

\* The result goes to the loop.
HandOver(h) ==
    /\ helper[h].kind \in {"reconnect", "redirect"} /\ helper[h].sock # None
    /\ safeFu' = Append(safeFu, [kind |-> helper[h].kind, char |-> helper[h].char, sock |-> helper[h].sock])
    /\ helper' = [helper EXCEPT ![h] = Idle]
    /\ UNCHANGED <<lifeVars, character, worldVars, open, flagVars, bgVars, stranded, left>>

\* After the wait of 500 ms a redirect asks for the system channels again.
AskRejoin(h) ==
    /\ helper[h].kind = "rejoin"
    /\ safeFu' = Append(safeFu, [kind |-> "rejoin"])
    /\ helper' = [helper EXCEPT ![h] = Idle]
    /\ UNCHANGED <<lifeVars, character, worldVars, open, flagVars, bgVars, stranded, left>>

\* Every helper leaves when the session's context is done; a socket it holds
\* is closed.
HelperCancelled(h) ==
    /\ ctxDone /\ helper[h] # Idle
    /\ open' = IF helper[h].kind = "rejoin" THEN open ELSE open \ {helper[h].sock}
    /\ helper' = [helper EXCEPT ![h] = Idle]
    /\ UNCHANGED <<lifeVars, character, worldVars, safeFu, flagVars, bgVars, stranded, left>>

\* The closure of a reconnect or a redirect.  Nobody closes the socket it
\* brings when there is no character, nor the one it replaces.
Install ==
    /\ Head(safeFu).kind # "rejoin"
    /\ IF character # None
       THEN world' = Head(safeFu).sock /\ playing' = Head(safeFu).char
       ELSE UNCHANGED worldVars
    /\ stranded' = (stranded /\ world' = None)
    /\ safeFu' = Tail(safeFu)
    /\ IF Head(safeFu).kind = "redirect"
       THEN \E h \in HelperIds : Spawn(h, [kind |-> "rejoin"])
       ELSE UNCHANGED helper
    /\ UNCHANGED <<lifeVars, character, open, flagVars,
                   bgVars, left>>

\* RejoinWorldserverToSystemChannels writes to the world socket once per
\* initial channel; a player without any is not affected by a nil socket.
Rejoin ==
    /\ Head(safeFu).kind = "rejoin"
    /\ \/ world = None /\ Panic
       \/ /\ safeFu' = Tail(safeFu)
          /\ UNCHANGED <<lifeVars, character, worldVars, open, helper, flagVars, bgVars, stranded, left>>

\* Fault: the loop serves the channel only while it has a world socket.
RunSafeFuConnected == Running /\ safeFu # <<>> /\ world # None /\ (Install \/ Rejoin)

RunSafeFu == Running /\ safeFu # <<>> /\ (Install \/ Rejoin)

-----------------------------------------------------------------------------
(* Matchmaking events.  The subjects are different, so the order is open;  *)
(* a full channel drops an event.                                          *)

\* The leader of this player's group enqueues the group through the leader's
\* own session: nothing happens in this one.
LedEnqueue ==
    /\ Running /\ character # None /\ mm = {} /\ left.enqueues > 0
    /\ left' = [left EXCEPT !.enqueues = @ - 1]
    /\ Queued
    /\ bg' = [bg EXCEPT !.asked = FALSE, !.statusShown = FALSE, !.inviteShown = FALSE]
    /\ UNCHANGED <<lifeVars, character, worldVars, open, helper, safeFu,
                   flagVars, events, stranded>>

\* The broadcaster looks the addressee up and drops what does not fit into
\* the channel.  An invite that nobody accepts expires.
DeliverEvent(m) ==
    /\ m \in mm /\ Running
    /\ mm' = (mm \ {m}) \cup (IF m[1] = "invited" THEN {<<"expired", m[2]>>} ELSE {})
    /\ \/ events' = events
       \/ m[2] = character /\ events' = Append(events, m[1])
    /\ UNCHANGED <<lifeVars, character, worldVars, open, helper, safeFu,
                   flagVars, bg, stranded, left>>

\* HandleEventMMJoinedPVPQueue, HandleEventMMInvitedToBGOrArena and
\* HandleEventMMInviteToBGOrArenaExpired; the first two read s.character.
AfterEvent(e) ==
    CASE e = "joined"  -> [bg EXCEPT !.statusShown = TRUE, !.waiting = FALSE, !.pending = FALSE,
                                     !.inviteShown = @ \/ bg.pending]
      [] e = "invited" -> IF bg.waiting THEN [bg EXCEPT !.pending = TRUE]
                                        ELSE [bg EXCEPT !.inviteShown = TRUE]
      [] e = "expired" -> [bg EXCEPT !.inviteShown = FALSE]

HandleEvent ==
    /\ Running /\ events # <<>>
    /\ IF character = None /\ Head(events) # "expired"
       THEN Panic
       ELSE /\ bg' = AfterEvent(Head(events))
            /\ events' = Tail(events)
            /\ UNCHANGED <<lifeVars, character, worldVars, open, helper, safeFu,
                           flagVars, mm, stranded, left>>

-----------------------------------------------------------------------------
(* The end of the session.                                                 *)

\* The client's connection ends, or the gateway shuts down.
ClientGone ==
    /\ ~ctxDone /\ loop # "panic"
    /\ ctxDone' = TRUE
    /\ UNCHANGED <<loop, client, character, worldVars, open, helper, safeFu, flagVars, bgVars, stranded, left>>

\* Fault: only the socket the session uses watches the context.
CurrentSocketClosesWithContext(k) ==
    /\ ctxDone /\ k \in open /\ k = world
    /\ open' = open \ {k}
    /\ UNCHANGED <<lifeVars, character, worldVars, helper, safeFu, flagVars, bgVars, stranded, left>>

\* WorldSocket.ListenAndProcess closes the connection with the context.
SocketClosesWithContext(k) ==
    /\ ctxDone /\ k \in open
    /\ open' = open \ {k}
    /\ UNCHANGED <<lifeVars, character, worldVars, helper, safeFu, flagVars, bgVars, stranded, left>>

\* HandlePackets returns; its deferred function logs the character out.
LoopEnds ==
    /\ Running /\ ctxDone
    /\ loop' = "ended"
    /\ IF character # None THEN LoggedOut ELSE UNCHANGED <<character, flags, bg>>
    /\ UNCHANGED <<ctxDone, client, worldVars, open, helper, safeFu, teleporting, events, mm,
                   stranded, left>>

Next ==
    \/ CharEnum
    \/ \E c \in Chars : Login(c)
    \/ MoveWorldPortAck
    \/ Enqueue \/ EnterBattleground \/ LeaveQueue
    \/ NewWorld \/ ReadyForRedirect \/ WorldClosed
    \/ \E k \in SocketIds : ServerDrops(k) \/ SocketClosesWithContext(k)
    \/ \E h \in HelperIds : Try(h) \/ HandOver(h) \/ AskRejoin(h) \/ HelperCancelled(h)
    \/ RunSafeFu
    \/ LedEnqueue
    \/ \E m \in mm : DeliverEvent(m)
    \/ HandleEvent
    \/ ClientGone \/ LoopEnds

\* The client asks for the list by itself when it is sent to the character
\* screen; select serves every ready case in the end (Go picks at random);
\* attempts end by their timeouts.
Fairness ==
    /\ WF_vars(client = "failed" /\ CharEnum)
    /\ WF_vars(WorldClosed) /\ WF_vars(RunSafeFu) /\ WF_vars(HandleEvent) /\ WF_vars(LoopEnds)
    /\ \A h \in HelperIds : WF_vars(Try(h) \/ HandOver(h) \/ AskRejoin(h) \/ HelperCancelled(h))
    /\ \A k \in SocketIds : WF_vars(SocketClosesWithContext(k))

Spec == Init /\ [][Next]_vars /\ Fairness

-----------------------------------------------------------------------------
(* Properties.                                                             *)

BringsSocket(h) == helper[h].kind \in {"reconnect", "redirect"}

\* A player in the game whose session has no world socket is not forgotten:
\* a helper works on a new one, or a new one waits in sessionSafeFuChan, or
\* the client was sent back to the character screen.  The one exception is a
\* battleground redirect that failed after the old socket was closed.
SomebodyRestores ==
    Running /\ ~ctxDone /\ character # None /\ world = None /\ ~stranded =>
        \/ client = "failed"
        \/ \E h \in HelperIds : BringsSocket(h)
        \/ \E i \in DOMAIN safeFu : safeFu[i].kind # "rejoin"

\* bgInviteOrderingFix: a player queued by his own request sees the status of
\* the queue before the invite, in whatever order the two events arrive.
InviteAfterQueueStatus == bg.asked /\ bg.inviteShown => bg.statusShown

\* The session's world socket plays the character that is logged in.  It does
\* not hold: a helper hands over its socket whenever some character is logged
\* in, also when that is not the one it reconnected.
SocketPlaysCharacter == Running /\ world # None => playing = character

\* The same for every player, also for one queued by the leader of his group,
\* whose session never sets the flag.  It does not hold.
InviteNeverFirst == bg.inviteShown => bg.statusShown

\* A lost world server does not leave the player in a dead world: the session
\* gets a new socket, or the player returns to the character screen or leaves.
LostWorldIsResolved ==
    (Running /\ character # None /\ world = None) ~>
        (~Running \/ character = None \/ world # None \/ client = "failed" \/ stranded)

\* When the client is gone, the loop ends, every helper returns and every
\* world connection the session ever opened is closed (B14/B15/B26), also the
\* ones nobody holds any more.
SessionLeavesNothing ==
    ctxDone ~> (~Running /\ open = {} /\ \A h \in HelperIds : helper[h] = Idle)
=============================================================================
