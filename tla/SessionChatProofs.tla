------------------------- MODULE SessionChatProofs --------------------------
(***************************************************************************)
(* Proofs about GatewaySession, for every set of characters, of sockets    *)
(* and of helper goroutines, every number of retries and every budget; and *)
(* about a chat channel (ChatChannels), for any players, any rows it       *)
(* starts with and any number of requests, failed writes, clean-ups and    *)
(* restarts.                                                               *)
(***************************************************************************)
EXTENDS GatewaySession, ChatChannels, TLAPS

\* A helper that connects, with what it works on.
Connectors ==
    [kind : {"reconnect", "redirect"}, char : Chars, tries : 0 .. MaxRetries, sock : SocketIds \cup {None}]

\* A result that waits for the loop.
Results == [kind : {"reconnect", "redirect"}, char : Chars, sock : SocketIds]

\* While the loop runs, the client is at the character screen exactly when
\* nobody is logged in.
ScreenAgrees == Running => (client = "select" <=> character = None)

-----------------------------------------------------------------------------
(* Helpers, results and sockets.                                           *)

\* The kind of a helper tells what record it is.
LEMMA HelperParts ==
    ASSUME NEW x \in HelperStates
    PROVE  /\ x.kind \in {"reconnect", "redirect"} => x \in Connectors
           /\ x.kind = "rejoin" \/ x.kind = "none" => x \notin Connectors
BY DEF HelperStates, Connectors, Idle

LEMMA HelperKinds == Connectors \subseteq HelperStates /\ Idle \in HelperStates /\ [kind |-> "rejoin"] \in HelperStates
BY DEF HelperStates, Connectors, Idle

\* The kind of a result tells whether it brings a socket.
LEMMA ResultParts ==
    ASSUME NEW x \in FuStates
    PROVE  x.kind # "rejoin" => x \in Results
BY DEF FuStates, Results

LEMMA ResultKinds == Results \subseteq FuStates /\ [kind |-> "rejoin"] \in FuStates
BY DEF FuStates, Results

\* A connection attempt leaves only sockets behind.
LEMMA ConnectsOpens ==
    ASSUME NEW k \in SocketIds, NEW kept, kept \subseteq SocketIds, Connects(k, kept)
    PROVE  open' \subseteq SocketIds
BY DEF Connects

LEMMA FailureOpens ==
    ASSUME NEW kept, kept \subseteq SocketIds, ConnectFails(kept)
    PROVE  open' \subseteq SocketIds
BY ConnectsOpens DEF ConnectFails

\* Starting a helper keeps the table of helpers well formed.
LEMMA SpawnTypes ==
    ASSUME helper \in [HelperIds -> HelperStates],
           NEW h \in HelperIds, NEW what \in HelperStates, Spawn(h, what)
    PROVE  helper' \in [HelperIds -> HelperStates] /\ helper'[h] = what
BY DEF Spawn

LEMMA PanicTypes ==
    ASSUME TypeOK, Panic
    PROVE  TypeOK' /\ loop' = "panic"
BY HelperKinds DEF TypeOK, Panic, worldVars, flagVars

\* The flags of the session and of its battleground request.
LEMMA Blank == NoFlag \in FlagSet /\ NoBg \in BgSet
BY Zenon DEF NoFlag, NoBg, FlagSet, BgSet

LEMMA FlagWith ==
    ASSUME NEW f \in FlagSet, NEW x \in BOOLEAN, NEW y \in BOOLEAN
    PROVE  /\ [f EXCEPT !.ignore = x] \in FlagSet
           /\ [f EXCEPT !.managed = x] \in FlagSet
           /\ [ignore |-> x, managed |-> y] \in FlagSet
BY Zenon DEF FlagSet

LEMMA BgWith ==
    ASSUME NEW b \in BgSet, NEW x \in BOOLEAN
    PROVE  /\ [b EXCEPT !.asked = x] \in BgSet
           /\ [b EXCEPT !.waiting = x] \in BgSet
           /\ [b EXCEPT !.pending = x] \in BgSet
           /\ [b EXCEPT !.statusShown = x] \in BgSet
           /\ [b EXCEPT !.inviteShown = x] \in BgSet
BY Zenon DEF BgSet

LEMMA AfterEventTyped ==
    ASSUME bg \in BgSet, NEW e \in {"joined", "invited", "expired"}
    PROVE  AfterEvent(e) \in BgSet
<1>1. (bg.inviteShown \/ bg.pending) \in BOOLEAN
  OBVIOUS
<1> QED
  BY <1>1, BgWith DEF AfterEvent

-----------------------------------------------------------------------------
(* Types, and who is logged in.                                            *)

Typed == TypeOK /\ ScreenAgrees

LEMMA TypedInit == Init => Typed
<1> SUFFICES ASSUME Init PROVE Typed
  OBVIOUS
<1>1. helper \in [HelperIds -> HelperStates] /\ safeFu \in Seq(FuStates) /\ flags \in FlagSet /\ bg \in BgSet
  BY HelperKinds, Blank DEF Init
<1>2. left \in [logins : Nat, drops : Nat, enqueues : Nat]
  BY SessionAssumption DEF Init
<1>3. mm \subseteq ({"joined", "invited", "expired"} \X Chars) /\ events \in Seq({"joined", "invited", "expired"})
  BY DEF Init
<1>4. /\ loop \in {"run", "ended", "panic"} /\ ctxDone \in BOOLEAN /\ client \in {"select", "world", "failed"}
      /\ character \in Chars \cup {None} /\ world \in SocketIds \cup {None} /\ open \subseteq SocketIds
      /\ playing \in Chars \cup {None} /\ teleporting \in BOOLEAN /\ stranded \in BOOLEAN
      /\ ScreenAgrees
  BY DEF Init, ScreenAgrees
<1> QED
  BY <1>1, <1>2, <1>3, <1>4 DEF Typed, TypeOK

\* Packets of the client.
LEMMA TypedClient ==
    ASSUME Typed,
           \/ CharEnum \/ (\E c \in Chars : Login(c)) \/ MoveWorldPortAck
           \/ Enqueue \/ EnterBattleground \/ LeaveQueue
    PROVE  Typed'
<1> USE SessionAssumption DEF Typed, TypeOK, ScreenAgrees, Running, worldVars, flagVars, bgVars, lifeVars
<1>1. CASE CharEnum
  BY <1>1, Blank DEF CharEnum, LoggedOut
<1>2. ASSUME NEW c \in Chars, Login(c) PROVE Typed'
  <2>1. CASE LoginFails
    <3>1. open' \subseteq SocketIds
      BY <2>1, FailureOpens DEF LoginFails
    <3> QED
      BY <1>2, <2>1, <3>1 DEF Login, LoginFails
  <2>2. ASSUME NEW k \in SocketIds, LoginOK(c, k) PROVE Typed'
    <3>1. open' \subseteq SocketIds
      BY <2>2, ConnectsOpens DEF LoginOK
    <3> QED
      BY <1>2, <2>2, <3>1, Blank DEF Login, LoginOK
  <2> QED
    BY <1>2, <2>1, <2>2 DEF Login
<1>3. CASE MoveWorldPortAck
  <2>1. CASE PortAckStays
    BY <1>3, <2>1, Blank, FlagWith DEF MoveWorldPortAck, PortAckStays
  <2>2. ASSUME NEW h \in HelperIds, PortAckRedirects(h), teleporting' = FALSE, flags' = NoFlag
        PROVE  Typed'
    <3>1. [kind |-> "redirect", char |-> character, tries |-> MaxRetries - 1, sock |-> None] \in HelperStates
      BY <1>3, HelperKinds DEF MoveWorldPortAck, Connectors
    <3>2. helper' \in [HelperIds -> HelperStates]
      BY <2>2, <3>1, SpawnTypes DEF PortAckRedirects
    <3> QED
      BY <1>3, <2>2, <3>2, Blank DEF MoveWorldPortAck, PortAckRedirects
  <2> QED
    BY <1>3, <2>1, <2>2 DEF MoveWorldPortAck
<1>4. CASE Enqueue
  <2>1. CASE Panic
    BY <2>1, PanicTypes
  <2>2. CASE ~Panic
    <3>1. mm' = mm \/ mm' = {"joined", "invited"} \X {character}
      BY <1>4, <2>2 DEF Enqueue, Queued
    <3>2. character \in Chars
      BY <1>4 DEF Enqueue
    <3>3. mm' \subseteq ({"joined", "invited", "expired"} \X Chars)
      BY <3>1, <3>2
    <3>4. left' \in [logins : Nat, drops : Nat, enqueues : Nat]
      BY <1>4, <2>2 DEF Enqueue
    <3>5. bg' \in BgSet
      BY <1>4, <2>2, BgWith DEF Enqueue
    <3> QED
      BY <1>4, <2>2, <3>3, <3>4, <3>5 DEF Enqueue
  <2> QED
    BY <2>1, <2>2
<1>5. CASE EnterBattleground
  <2>1. CASE Panic
    BY <2>1, PanicTypes
  <2>2. bg' \in BgSet
    BY <1>5, BgWith DEF EnterBattleground, Panic
  <2>3. ASSUME NEW f \in FlagSet
        PROVE  [f EXCEPT !.ignore = TRUE] \in FlagSet /\ [ignore |-> TRUE, managed |-> TRUE] \in FlagSet
    BY FlagWith
  <2>4. CASE ~Panic
    <3>1. EnterStays \/ EnterStrands \/ \E k \in SocketIds : EnterMoves(k)
      BY <1>5, <2>4 DEF EnterBattleground
    <3>2. UNCHANGED <<lifeVars, character, helper, safeFu, teleporting, events, mm, left>>
      BY <1>5, <2>4 DEF EnterBattleground
    <3>3. /\ flags' \in FlagSet /\ open' \subseteq SocketIds /\ world' \in SocketIds \cup {None}
          /\ playing' \in Chars \cup {None} /\ stranded' \in BOOLEAN
      <4>1. CASE EnterStays
        BY <4>1, <2>3 DEF EnterStays
      <4>2. CASE EnterStrands
        BY <4>2, <2>3, FailureOpens DEF EnterStrands
      <4>3. ASSUME NEW k \in SocketIds, EnterMoves(k)
            PROVE  /\ flags' \in FlagSet /\ open' \subseteq SocketIds /\ world' \in SocketIds \cup {None}
                   /\ playing' \in Chars \cup {None} /\ stranded' \in BOOLEAN
        BY <4>3, <2>3, ConnectsOpens DEF EnterMoves
      <4> QED
        BY <3>1, <4>1, <4>2, <4>3
    <3> QED
      BY <2>2, <3>2, <3>3
  <2> QED
    BY <2>1, <2>4
<1>6. CASE LeaveQueue
  BY <1>6, BgWith DEF LeaveQueue
<1> QED
  BY <1>1, <1>2, <1>3, <1>4, <1>5, <1>6

\* Packets of the world server and the end of its connection.
LEMMA TypedServer ==
    ASSUME Typed,
           \/ NewWorld \/ ReadyForRedirect \/ WorldClosed
           \/ \E k \in SocketIds : ServerDrops(k) \/ SocketClosesWithContext(k)
    PROVE  Typed'
<1> USE SessionAssumption DEF Typed, TypeOK, ScreenAgrees, Running, worldVars, flagVars, bgVars, lifeVars
<1>1. CASE NewWorld
  BY <1>1 DEF NewWorld
<1>2. CASE ReadyForRedirect
  <2>1. open' \subseteq SocketIds
    BY <1>2, FailureOpens, ConnectsOpens DEF ReadyForRedirect
  <2> QED
    BY <1>2, <2>1 DEF ReadyForRedirect
<1>3. CASE WorldClosed
  <2>1. helper' \in [HelperIds -> HelperStates]
    <3>1. CASE character = None
      BY <1>3, <3>1 DEF WorldClosed
    <3>2. CASE character # None
      <4>1. [kind |-> "reconnect", char |-> character, tries |-> 0, sock |-> None] \in HelperStates
        BY <3>2, HelperKinds DEF Connectors
      <4> QED
        BY <1>3, <3>2, <4>1, SpawnTypes DEF WorldClosed
    <3> QED
      BY <3>1, <3>2
  <2> QED
    BY <1>3, <2>1 DEF WorldClosed
<1>4. ASSUME NEW k \in SocketIds, ServerDrops(k) \/ SocketClosesWithContext(k) PROVE Typed'
  <2>1. left' \in [logins : Nat, drops : Nat, enqueues : Nat]
    BY <1>4 DEF ServerDrops, SocketClosesWithContext
  <2> QED
    BY <1>4, <2>1 DEF ServerDrops, SocketClosesWithContext
<1> QED
  BY <1>1, <1>2, <1>3, <1>4

\* The helpers and what they hand over.
LEMMA TypedHelpers ==
    ASSUME Typed,
           \/ \E h \in HelperIds : Try(h) \/ HandOver(h) \/ AskRejoin(h) \/ HelperCancelled(h)
           \/ RunSafeFu
    PROVE  Typed'
<1> USE SessionAssumption DEF Typed, TypeOK, ScreenAgrees, Running, worldVars, flagVars, bgVars, lifeVars
<1>1. ASSUME NEW h \in HelperIds, Try(h) PROVE Typed'
  <2>1. helper[h] \in Connectors
    BY <1>1, HelperParts DEF Try, Connecting
  <2>2. open' \subseteq SocketIds
    BY <1>1, FailureOpens, ConnectsOpens DEF Try
  <2>3. helper' \in [HelperIds -> HelperStates]
    <3>1. ASSUME NEW k \in SocketIds, helper' = [helper EXCEPT ![h].sock = k]
          PROVE  helper' \in [HelperIds -> HelperStates]
      <4>1. [helper[h] EXCEPT !.sock = k] \in Connectors
        BY <2>1 DEF Connectors
      <4> QED
        BY <3>1, <4>1, HelperKinds
    <3>2. ASSUME helper[h].tries + 1 < MaxRetries, helper' = [helper EXCEPT ![h].tries = @ + 1]
          PROVE  helper' \in [HelperIds -> HelperStates]
      <4>1. [helper[h] EXCEPT !.tries = @ + 1] \in Connectors
        <5>1. helper[h].tries + 1 \in 0 .. MaxRetries
          BY <2>1, <3>2 DEF Connectors
        <5> QED
          BY <2>1, <5>1 DEF Connectors
      <4> QED
        BY <3>2, <4>1, HelperKinds
    <3>3. ASSUME helper' = [helper EXCEPT ![h] = Idle]
          PROVE  helper' \in [HelperIds -> HelperStates]
      BY <3>3, HelperKinds
    <3> QED
      BY <1>1, <3>1, <3>2, <3>3 DEF Try
  <2>4. client' \in {"select", "world", "failed"} /\ (client' = "select" <=> client = "select")
    BY <1>1 DEF Try, TellFailed
  <2> QED
    BY <1>1, <2>2, <2>3, <2>4 DEF Try
<1>2. ASSUME NEW h \in HelperIds, HandOver(h) PROVE Typed'
  <2>1. helper[h] \in Connectors
    BY <1>2, HelperParts DEF HandOver
  <2>2. [kind |-> helper[h].kind, char |-> helper[h].char, sock |-> helper[h].sock] \in FuStates
    BY <1>2, <2>1, ResultKinds DEF HandOver, Connectors, Results
  <2>3. safeFu' \in Seq(FuStates)
    BY <1>2, <2>2 DEF HandOver
  <2>4. helper' \in [HelperIds -> HelperStates]
    BY <1>2, HelperKinds DEF HandOver
  <2> QED
    BY <1>2, <2>3, <2>4 DEF HandOver
<1>3. ASSUME NEW h \in HelperIds, AskRejoin(h) PROVE Typed'
  <2>1. safeFu' \in Seq(FuStates)
    BY <1>3, ResultKinds DEF AskRejoin
  <2>2. helper' \in [HelperIds -> HelperStates]
    BY <1>3, HelperKinds DEF AskRejoin
  <2> QED
    BY <1>3, <2>1, <2>2 DEF AskRejoin
<1>4. ASSUME NEW h \in HelperIds, HelperCancelled(h) PROVE Typed'
  <2>1. helper' \in [HelperIds -> HelperStates]
    BY <1>4, HelperKinds DEF HelperCancelled
  <2> QED
    BY <1>4, <2>1 DEF HelperCancelled
<1>5. CASE RunSafeFu
  <2>1. Head(safeFu) \in FuStates /\ Tail(safeFu) \in Seq(FuStates)
    BY <1>5 DEF RunSafeFu
  <2>2. CASE Install
    <3>1. Head(safeFu) \in Results
      BY <2>1, <2>2, ResultParts DEF Install
    <3>2. helper' \in [HelperIds -> HelperStates]
      BY <2>2, SpawnTypes, HelperKinds DEF Install
    <3>3. world' \in SocketIds \cup {None} /\ playing' \in Chars \cup {None}
      BY <2>2, <3>1 DEF Install, Results
    <3> QED
      BY <2>1, <2>2, <3>2, <3>3 DEF Install
  <2>3. CASE Rejoin
    BY <2>1, <2>3, PanicTypes DEF Rejoin
  <2> QED
    BY <1>5, <2>2, <2>3 DEF RunSafeFu
<1> QED
  BY <1>1, <1>2, <1>3, <1>4, <1>5

\* Matchmaking events and the end of the session.
LEMMA TypedEvents ==
    ASSUME Typed,
           \/ LedEnqueue \/ (\E m \in mm : DeliverEvent(m)) \/ HandleEvent
           \/ ClientGone \/ LoopEnds
    PROVE  Typed'
<1> USE SessionAssumption DEF Typed, TypeOK, ScreenAgrees, Running, worldVars, flagVars, bgVars, lifeVars
<1>1. CASE LedEnqueue
  <2>1. mm' \subseteq ({"joined", "invited", "expired"} \X Chars)
    BY <1>1 DEF LedEnqueue, Queued
  <2>2. bg' \in BgSet
    BY <1>1, BgWith DEF LedEnqueue
  <2> QED
    BY <1>1, <2>1, <2>2 DEF LedEnqueue
<1>2. ASSUME NEW m \in mm, DeliverEvent(m) PROVE Typed'
  <2>1. m[1] \in {"joined", "invited", "expired"} /\ m[2] \in Chars
    OBVIOUS
  <2>2. mm' \subseteq ({"joined", "invited", "expired"} \X Chars)
    <3>1. mm' \subseteq mm \cup {<<"expired", m[2]>>}
      BY <1>2 DEF DeliverEvent
    <3>2. <<"expired", m[2]>> \in {"joined", "invited", "expired"} \X Chars
      BY <2>1
    <3> QED
      BY <3>1, <3>2
  <2>3. events' \in Seq({"joined", "invited", "expired"})
    <3>1. events' = events \/ events' = Append(events, m[1])
      BY <1>2 DEF DeliverEvent
    <3>2. Append(events, m[1]) \in Seq({"joined", "invited", "expired"})
      BY <2>1
    <3> QED
      BY <3>1, <3>2
  <2> QED
    BY <1>2, <2>2, <2>3 DEF DeliverEvent
<1>3. CASE HandleEvent
  <2>1. CASE Panic
    BY <2>1, PanicTypes
  <2>2. CASE ~Panic
    <3>1. Head(events) \in {"joined", "invited", "expired"} /\ Tail(events) \in Seq({"joined", "invited", "expired"})
      BY <1>3 DEF HandleEvent
    <3>2. AfterEvent(Head(events)) \in BgSet
      BY <3>1, AfterEventTyped
    <3> QED
      BY <1>3, <2>2, <3>1, <3>2 DEF HandleEvent
  <2> QED
    BY <2>1, <2>2
<1>4. CASE ClientGone
  BY <1>4 DEF ClientGone
<1>5. CASE LoopEnds
  BY <1>5, Blank DEF LoopEnds, LoggedOut
<1> QED
  BY <1>1, <1>2, <1>3, <1>4, <1>5

LEMMA TypedStep == Typed /\ [Next]_vars => Typed'
<1> SUFFICES ASSUME Typed, [Next]_vars PROVE Typed'
  OBVIOUS
<1>1. CASE UNCHANGED vars
  BY <1>1 DEF Typed, TypeOK, ScreenAgrees, Running, vars, worldVars, flagVars, bgVars, lifeVars
<1>2. CASE Next
  BY <1>2, TypedClient, TypedServer, TypedHelpers, TypedEvents DEF Next
<1> QED
  BY <1>1, <1>2

\* Types hold in every state, and so does the agreement between the client's
\* screen and s.character: no handler of a running loop meets a player who is
\* in the game with no character.
THEOREM SessionTypeCorrect == Spec => [](TypeOK /\ ScreenAgrees)
<1>1. Spec => Init /\ [][Next]_vars
  BY DEF Spec
<1> QED
  BY <1>1, TypedInit, TypedStep, PTL DEF Typed

-----------------------------------------------------------------------------
(* A player without a world socket is not forgotten.                       *)

\* A helper or the loop will bring a socket, or the client was sent back.
Awaited ==
    \/ client = "failed"
    \/ \E h \in HelperIds : BringsSocket(h)
    \/ \E i \in DOMAIN safeFu : safeFu[i].kind # "rejoin"

Forlorn == Running /\ ~ctxDone /\ character # None /\ world = None /\ ~stranded

LEMMA RestoresMeans == SomebodyRestores <=> (Forlorn => Awaited)
BY DEF SomebodyRestores, Forlorn, Awaited

\* A helper that starts with a socket to bring is somebody who restores.
LEMMA SpawnAwaited ==
    ASSUME Typed, NEW h \in HelperIds, NEW what \in Connectors, Spawn(h, what)
    PROVE  Awaited'
<1>1. helper'[h] = what /\ what.kind \in {"reconnect", "redirect"}
  BY DEF Typed, TypeOK, Spawn, Connectors
<1> QED
  BY <1>1 DEF Awaited, BringsSocket

LEMMA RestoresStep ==
    ASSUME Typed, SomebodyRestores, Next
    PROVE  SomebodyRestores'
<1> SUFFICES ASSUME Forlorn' PROVE Awaited'
  BY RestoresMeans DEF SomebodyRestores, Forlorn, Awaited
<1>a. Forlorn => Awaited
  BY RestoresMeans
<1> USE SessionAssumption DEF Typed, TypeOK, Forlorn, Running, worldVars, flagVars, bgVars, lifeVars
<1>f. ASSUME UNCHANGED <<loop, ctxDone, character, world, stranded, client, helper, safeFu>>
      PROVE  Awaited'
  BY <1>a, <1>f DEF Awaited, BringsSocket
<1>p. ~Panic
  BY DEF Panic
<1>1. CASE CharEnum
  BY <1>1 DEF CharEnum, LoggedOut
<1>2. ASSUME NEW c \in Chars, Login(c) PROVE Awaited'
  <2>1. \A k \in SocketIds : ~LoginOK(c, k)
    BY DEF LoginOK
  <2> QED
    BY <1>2, <1>f, <2>1 DEF Login, LoginFails
<1>3. CASE MoveWorldPortAck
  <2>1. CASE PortAckStays
    BY <1>3, <1>f, <2>1 DEF MoveWorldPortAck, PortAckStays
  <2>2. ASSUME NEW h \in HelperIds, PortAckRedirects(h) PROVE Awaited'
    <3>1. [kind |-> "redirect", char |-> character, tries |-> MaxRetries - 1, sock |-> None] \in Connectors
      BY <1>3 DEF MoveWorldPortAck, ScreenAgrees, Connectors
    <3> QED
      BY <2>2, <3>1, SpawnAwaited DEF PortAckRedirects
  <2> QED
    BY <1>3, <2>1, <2>2 DEF MoveWorldPortAck
<1>4. CASE Enqueue
  BY <1>4, <1>f, <1>p DEF Enqueue
<1>5. CASE EnterBattleground
  <2>1. CASE EnterStays
    BY <1>5, <1>f, <1>p, <2>1 DEF EnterBattleground, EnterStays
  <2>2. ~EnterStrands /\ \A k \in SocketIds : ~EnterMoves(k)
    BY DEF EnterStrands, EnterMoves
  <2> QED
    BY <1>5, <1>p, <2>1, <2>2 DEF EnterBattleground
<1>6. CASE LeaveQueue
  BY <1>6, <1>f DEF LeaveQueue
<1>7. CASE NewWorld
  BY <1>7, <1>f DEF NewWorld
<1>8. CASE ReadyForRedirect
  BY <1>8, <1>f DEF ReadyForRedirect
<1>9. CASE WorldClosed
  <2>1. [kind |-> "reconnect", char |-> character, tries |-> 0, sock |-> None] \in Connectors
    BY <1>9 DEF WorldClosed, Connectors
  <2> QED
    BY <1>9, <2>1, SpawnAwaited DEF WorldClosed
<1>10. ASSUME NEW k \in SocketIds, ServerDrops(k) \/ SocketClosesWithContext(k) PROVE Awaited'
  BY <1>10, <1>f DEF ServerDrops, SocketClosesWithContext
<1>11. ASSUME NEW h \in HelperIds, Try(h) PROVE Awaited'
  <2>1. helper[h] \in Connectors
    BY <1>11, HelperParts DEF Try, Connecting
  <2>2. ASSUME NEW k \in SocketIds, helper' = [helper EXCEPT ![h].sock = k] PROVE Awaited'
    <3>1. helper'[h].kind = helper[h].kind
      BY <2>1, <2>2 DEF Connectors
    <3> QED
      BY <2>1, <3>1 DEF Awaited, BringsSocket, Connectors
  <2>3. ASSUME helper' = [helper EXCEPT ![h].tries = @ + 1] PROVE Awaited'
    <3>1. helper'[h].kind = helper[h].kind
      BY <2>1, <2>3 DEF Connectors
    <3> QED
      BY <2>1, <3>1 DEF Awaited, BringsSocket, Connectors
  <2>4. ASSUME TellFailed PROVE Awaited'
    <3>1. client # "select"
      BY <1>11 DEF Try, ScreenAgrees
    <3> QED
      BY <2>4, <3>1 DEF Awaited, TellFailed
  <2> QED
    BY <1>11, <2>2, <2>3, <2>4 DEF Try
<1>12. ASSUME NEW h \in HelperIds, HandOver(h) PROVE Awaited'
  <2>1. helper[h] \in Connectors
    BY <1>12, HelperParts DEF HandOver
  <2>2. safeFu' = Append(safeFu, [kind |-> helper[h].kind, char |-> helper[h].char, sock |-> helper[h].sock])
    BY <1>12 DEF HandOver
  <2>3. Len(safeFu) + 1 \in DOMAIN safeFu' /\ safeFu'[Len(safeFu) + 1].kind = helper[h].kind
    BY <2>2
  <2>4. helper[h].kind # "rejoin"
    BY <2>1 DEF Connectors
  <2> QED
    BY <2>3, <2>4 DEF Awaited
<1>13. ASSUME NEW h \in HelperIds, AskRejoin(h) PROVE Awaited'
  <2>1. client' = client /\ Awaited
    BY <1>13, <1>a DEF AskRejoin
  <2>2. ASSUME NEW g \in HelperIds, BringsSocket(g) PROVE BringsSocket(g)'
    BY <1>13, <2>2 DEF AskRejoin, BringsSocket
  <2>3. ASSUME NEW i \in DOMAIN safeFu PROVE i \in DOMAIN safeFu' /\ safeFu'[i] = safeFu[i]
    BY <1>13, <2>3 DEF AskRejoin
  <2> QED
    BY <2>1, <2>2, <2>3 DEF Awaited
<1>14. ASSUME NEW h \in HelperIds, HelperCancelled(h) PROVE Awaited'
  BY <1>14 DEF HelperCancelled
<1>15. CASE RunSafeFu
  <2>1. CASE Install
    <3>1. Head(safeFu) \in Results
      BY <1>15, <2>1, ResultParts DEF RunSafeFu, Install
    <3> QED
      BY <2>1, <3>1 DEF Install, Results
  <2>2. CASE Rejoin
    <3>1. client' = client /\ helper' = helper /\ safeFu' = Tail(safeFu) /\ Awaited
      BY <1>a, <1>p, <2>2 DEF Rejoin
    <3>2. ASSUME NEW i \in DOMAIN safeFu, safeFu[i].kind # "rejoin"
          PROVE  \E j \in DOMAIN safeFu' : safeFu'[j].kind # "rejoin"
      <4>1. i # 1
        BY <1>15, <2>2, <3>2 DEF RunSafeFu, Rejoin
      <4>2. i - 1 \in DOMAIN safeFu' /\ safeFu'[i - 1] = safeFu[i]
        BY <1>15, <3>1, <4>1 DEF RunSafeFu
      <4> QED
        BY <3>2, <4>2
    <3> QED
      BY <3>1, <3>2 DEF Awaited, BringsSocket
  <2> QED
    BY <1>15, <2>1, <2>2 DEF RunSafeFu
<1>16. CASE LedEnqueue
  BY <1>16, <1>f DEF LedEnqueue
<1>17. ASSUME NEW m \in mm, DeliverEvent(m) PROVE Awaited'
  BY <1>17, <1>f DEF DeliverEvent
<1>18. CASE HandleEvent
  BY <1>18, <1>f, <1>p DEF HandleEvent
<1>19. CASE ClientGone \/ LoopEnds
  BY <1>19 DEF ClientGone, LoopEnds
<1> QED
  BY <1>1, <1>2, <1>3, <1>4, <1>5, <1>6, <1>7, <1>8, <1>9, <1>10, <1>11, <1>12, <1>13, <1>14,
     <1>15, <1>16, <1>17, <1>18, <1>19 DEF Next

\* onWorldSocketClosed, InterceptMoveWorldPortAck and sessionSafeFuChan: for
\* every number of sockets, helpers and retries, a player in the game who has
\* no world socket has a helper or a result on its way, or was sent back to
\* the character screen, whatever packets, losses and log-outs interleave.
THEOREM PlayersAreRestored == Spec => []SomebodyRestores
<1>1. Spec => Init /\ [][Next]_vars
  BY DEF Spec
<1>2. Init => SomebodyRestores
  BY DEF Init, SomebodyRestores
<1>3. Typed /\ SomebodyRestores /\ [Next]_vars => SomebodyRestores'
  <2>1. CASE Next
    BY <2>1, RestoresStep
  <2>2. CASE UNCHANGED vars
    BY <2>2 DEF SomebodyRestores, BringsSocket, Running, vars, worldVars, flagVars, bgVars, lifeVars
  <2> QED
    BY <2>1, <2>2
<1> QED
  BY <1>1, <1>2, <1>3, TypedInit, TypedStep, PTL

-----------------------------------------------------------------------------
(* The queue status comes before the invite.                               *)

\* A player queued by his own request waits for the status or has seen it,
\* and has seen it when he has seen the invite.
Ordered(b) == b.asked => (b.waiting \/ b.statusShown) /\ (b.inviteShown => b.statusShown)

LEMMA NotAskedOrdered ==
    ASSUME NEW b \in BgSet
    PROVE  Ordered([b EXCEPT !.asked = FALSE]) /\ Ordered(NoBg)
BY DEF BgSet, Ordered, NoBg

LEMMA HiddenOrdered ==
    ASSUME NEW b \in BgSet, Ordered(b)
    PROVE  Ordered([b EXCEPT !.inviteShown = FALSE])
BY DEF BgSet, Ordered

\* Every handler of a matchmaking event keeps the order.
LEMMA AfterEventOrdered ==
    ASSUME bg \in BgSet, Ordered(bg), NEW e \in {"joined", "invited", "expired"}
    PROVE  Ordered(AfterEvent(e))
<1>1. CASE e = "joined"
  <2> DEFINE b == AfterEvent(e)
  <2>1. b.statusShown = TRUE
    BY <1>1 DEF AfterEvent, BgSet
  <2> QED
    BY <2>1 DEF Ordered
<1>2. CASE e = "invited" /\ bg.waiting
  BY <1>2 DEF AfterEvent, Ordered, BgSet
<1>3. CASE e = "invited" /\ ~bg.waiting
  BY <1>3 DEF AfterEvent, Ordered, BgSet
<1>4. CASE e = "expired"
  BY <1>4, HiddenOrdered DEF AfterEvent
<1> QED
  BY <1>1, <1>2, <1>3, <1>4

LEMMA OrderedStep ==
    ASSUME Typed, Ordered(bg), [Next]_vars
    PROVE  Ordered(bg')
<1> USE DEF Typed, TypeOK, worldVars, flagVars, bgVars, lifeVars
<1>1. CASE bg' = bg
  BY <1>1
<1>2. ASSUME bg' = NoBg \/ bg' = [bg EXCEPT !.asked = FALSE] PROVE Ordered(bg')
  BY <1>2, NotAskedOrdered
<1>3. ASSUME bg' = [bg EXCEPT !.inviteShown = FALSE] PROVE Ordered(bg')
  BY <1>3, HiddenOrdered
<1>4. CASE CharEnum
  BY <1>1, <1>2, <1>4 DEF CharEnum, LoggedOut
<1>5. ASSUME NEW c \in Chars, Login(c) PROVE Ordered(bg')
  BY <1>1, <1>2, <1>5 DEF Login, LoginOK, LoginFails
<1>6. CASE Enqueue
  <2>1. Ordered([bg EXCEPT !.asked = TRUE, !.waiting = TRUE, !.statusShown = FALSE, !.inviteShown = FALSE])
    BY DEF Ordered, BgSet
  <2> QED
    BY <1>1, <1>2, <1>6, <2>1 DEF Enqueue, Panic
<1>7. CASE EnterBattleground
  BY <1>1, <1>3, <1>7 DEF EnterBattleground, Panic
<1>8. CASE LeaveQueue
  BY <1>3, <1>8 DEF LeaveQueue
<1>9. CASE LedEnqueue
  <2>1. Ordered([bg EXCEPT !.asked = FALSE, !.statusShown = FALSE, !.inviteShown = FALSE])
    BY DEF Ordered, BgSet
  <2> QED
    BY <1>9, <2>1 DEF LedEnqueue
<1>10. CASE HandleEvent
  <2>1. Head(events) \in {"joined", "invited", "expired"}
    BY <1>10 DEF HandleEvent
  <2> QED
    BY <1>1, <1>10, <2>1, AfterEventOrdered DEF HandleEvent, Panic
<1>11. CASE LoopEnds
  BY <1>1, <1>2, <1>11 DEF LoopEnds, LoggedOut
<1>12. ASSUME \/ MoveWorldPortAck \/ NewWorld \/ ReadyForRedirect \/ WorldClosed
              \/ \E k \in SocketIds : ServerDrops(k) \/ SocketClosesWithContext(k)
              \/ ClientGone
       PROVE  bg' = bg
  BY <1>12 DEF MoveWorldPortAck, NewWorld, ReadyForRedirect, WorldClosed, ServerDrops,
               SocketClosesWithContext, ClientGone
<1>13. ASSUME \/ \E h \in HelperIds : Try(h) \/ HandOver(h) \/ AskRejoin(h) \/ HelperCancelled(h)
              \/ RunSafeFu
              \/ \E m \in mm : DeliverEvent(m)
       PROVE  bg' = bg
  BY <1>13 DEF Try, HandOver, AskRejoin, HelperCancelled, RunSafeFu, Install, Rejoin, Panic, DeliverEvent
<1>14. CASE UNCHANGED vars
  BY <1>1, <1>14 DEF vars
<1> QED
  BY <1>1, <1>4, <1>5, <1>6, <1>7, <1>8, <1>9, <1>10, <1>11, <1>12, <1>13, <1>14 DEF Next

\* bgInviteOrderingFix works: however the two matchmaking events arrive, are
\* lost or are mixed with log-outs and new requests, a player who asked to be
\* queued sees the status of the queue before the invite.
THEOREM InviteIsOrdered == Spec => []InviteAfterQueueStatus
<1>1. Spec => Init /\ [][Next]_vars
  BY DEF Spec
<1>2. Init => Ordered(bg)
  BY DEF Init, Ordered, NoBg
<1>3. Typed /\ Ordered(bg) /\ [Next]_vars => Ordered(bg)'
  BY OrderedStep
<1>4. Ordered(bg) => InviteAfterQueueStatus
  BY DEF Ordered, InviteAfterQueueStatus
<1> QED
  BY <1>1, <1>2, <1>3, <1>4, TypedInit, TypedStep, PTL

-----------------------------------------------------------------------------
(***************************************************************************)
(* Chat channels.                                                          *)
(***************************************************************************)

\* An object the clean-up dropped has no members, until a request goes on
\* with it.
DroppedIsEmpty ==
    "dropped" \notin torn => \A k \in 1..Len(objs) : k # active => DOMAIN objs[k].members = {}

\* Ids are given out in order: nothing is stored under an id to come, and a
\* channel in memory whose row exists has the id of the row.
IdsAreOrdered ==
    /\ db.row # Nil => db.row.id < db.next
    /\ \A k \in 1..Len(objs) : objs[k].id < db.next
    /\ \A i \in Ids : i >= db.next => DOMAIN db.members[i] = {}
    /\ active # Nil /\ db.row # Nil => objs[active].id = db.row.id

\* As long as no write of an owner's flag failed, the channel has exactly the
\* members of the database, and a channel that is not loaded has none.
RowsAreMembers ==
    torn \cap {"dropped", "owner"} = {} =>
        /\ active # Nil => objs[active].members = db.members[objs[active].id]
        /\ active = Nil /\ db.row # Nil => DOMAIN db.members[db.row.id] = {}

\* As long as no row expired there is one id, and a confirmed ban is in its
\* rows and in the channel.
BansAreStored ==
    torn \cap {"dropped", "cleaned"} = {} =>
        /\ db.row = Nil => confirmed = {} /\ objs = <<>>
        /\ db.row # Nil => /\ confirmed \subseteq db.bans[db.row.id]
                           /\ \A k \in 1..Len(objs) : objs[k].id = db.row.id
        /\ active # Nil => confirmed \subseteq objs[active].banned

-----------------------------------------------------------------------------
(* Rows of members                                                         *)

AllFlags == {Owner, Mod, Muted}

LEMMA RowsElim ==
  ASSUME NEW m \in MemberRows
  PROVE  m \in [DOMAIN m -> SUBSET AllFlags] /\ DOMAIN m \subseteq Players
<1>1. PICK S \in SUBSET Players : m \in [S -> SUBSET AllFlags]
  BY DEF MemberRows, AllFlags
<1> QED BY <1>1

LEMMA RowsIntro ==
  ASSUME NEW S \in SUBSET Players, NEW m \in [S -> SUBSET AllFlags]
  PROVE  m \in MemberRows
  BY DEF MemberRows, AllFlags

LEMMA NoRows ==
  /\ <<>> \in MemberRows
  /\ DOMAIN <<>> = {}
  /\ \A m \in MemberRows : DOMAIN m = {} => m = <<>>
<1>1. DOMAIN <<>> = {}
  OBVIOUS
<1>2. <<>> \in [{} -> SUBSET AllFlags]
  OBVIOUS
<1>3. <<>> \in MemberRows
  BY <1>2, RowsIntro
<1>4. ASSUME NEW m \in MemberRows, DOMAIN m = {}
      PROVE  m = <<>>
  <2>1. m \in [{} -> SUBSET AllFlags]
    BY <1>4, RowsElim
  <2> QED BY <1>2, <2>1
<1> QED BY <1>1, <1>3, <1>4

\* A member leaves, has other flags.
Without(m, p) == Restrict(m, DOMAIN m \ {p})
Flagged(m, p, f) == [m EXCEPT ![p] = f]

LEMMA WithIs ==
  ASSUME NEW m \in MemberRows, NEW p \in Players, NEW f \in SUBSET AllFlags
  PROVE  /\ WithMember(m, p, f) \in MemberRows
         /\ DOMAIN WithMember(m, p, f) = DOMAIN m \cup {p}
         /\ \A q \in DOMAIN m \cup {p} : WithMember(m, p, f)[q] = IF q = p THEN f ELSE m[q]
<1>1. WithMember(m, p, f) \in [DOMAIN m \cup {p} -> SUBSET AllFlags]
  BY RowsElim DEF WithMember
<1>2. DOMAIN m \cup {p} \in SUBSET Players
  BY RowsElim
<1> QED BY <1>1, <1>2, RowsIntro DEF WithMember

LEMMA WithoutIs ==
  ASSUME NEW m \in MemberRows, NEW p
  PROVE  /\ Without(m, p) \in MemberRows
         /\ DOMAIN Without(m, p) = DOMAIN m \ {p}
         /\ \A q \in DOMAIN m \ {p} : Without(m, p)[q] = m[q]
<1>1. Without(m, p) = [q \in DOMAIN m \ {p} |-> m[q]]
  BY DEF Without, Restrict
<1>2. Without(m, p) \in [DOMAIN m \ {p} -> SUBSET AllFlags]
  BY <1>1, RowsElim
<1>3. DOMAIN m \ {p} \in SUBSET Players
  BY RowsElim
<1> QED BY <1>1, <1>2, <1>3, RowsIntro

LEMMA FlaggedIs ==
  ASSUME NEW m \in MemberRows, NEW p, NEW f \in SUBSET AllFlags
  PROVE  /\ Flagged(m, p, f) \in MemberRows
         /\ DOMAIN Flagged(m, p, f) = DOMAIN m
         /\ \A q \in DOMAIN m : Flagged(m, p, f)[q] = IF q = p THEN f ELSE m[q]
         /\ p \notin DOMAIN m => Flagged(m, p, f) = m
<1>1. Flagged(m, p, f) = [q \in DOMAIN m |-> IF q = p THEN f ELSE m[q]]
  BY RowsElim DEF Flagged
<1>2. Flagged(m, p, f) \in [DOMAIN m -> SUBSET AllFlags]
  BY <1>1, RowsElim
<1>3. Flagged(m, p, f) \in MemberRows
  BY <1>2, RowsElim, RowsIntro
<1>4. m = [q \in DOMAIN m |-> m[q]]
  BY RowsElim
<1>5. ASSUME p \notin DOMAIN m PROVE Flagged(m, p, f) = m
  BY <1>1, <1>4, <1>5
<1> QED BY <1>1, <1>3, <1>5

\* The members of an object agree with rows but for the owner's flag.
Agree(m, r) ==
    /\ DOMAIN m = DOMAIN r
    /\ \A p \in DOMAIN r : m[p] \ {Owner} = r[p] \ {Owner}

LEMMA WithAgree ==
  ASSUME NEW m \in MemberRows, NEW r \in MemberRows, NEW p \in Players, NEW f \in SUBSET AllFlags,
         Agree(m, r)
  PROVE  Agree(WithMember(m, p, f), WithMember(r, p, f))
<1> DEFINE S == DOMAIN m \cup {p}
           A == WithMember(m, p, f)
           B == WithMember(r, p, f)
<1>1. DOMAIN A = S /\ DOMAIN B = S
  BY WithIs DEF Agree
<1>2. \A q \in S : A[q] = IF q = p THEN f ELSE m[q]
  BY DEF WithMember
<1>3. \A q \in S : B[q] = IF q = p THEN f ELSE r[q]
  BY DEF WithMember, Agree
<1>4. \A q \in S : q # p => m[q] \ {Owner} = r[q] \ {Owner}
  BY DEF Agree
<1> HIDE DEF A, B, S
<1>5. \A q \in S : A[q] \ {Owner} = B[q] \ {Owner}
  BY <1>2, <1>3, <1>4
<1> QED BY <1>1, <1>5 DEF Agree, A, B

LEMMA WithoutAgree ==
  ASSUME NEW m \in MemberRows, NEW r \in MemberRows, NEW p, Agree(m, r)
  PROVE  Agree(Without(m, p), Without(r, p))
<1> DEFINE S == DOMAIN m \ {p}
           A == Without(m, p)
           B == Without(r, p)
<1>1. DOMAIN A = S /\ DOMAIN B = S
  BY WithoutIs DEF Agree
<1>2. \A q \in S : A[q] = m[q]
  BY WithoutIs
<1>3. \A q \in S : B[q] = r[q]
  BY WithoutIs DEF Agree
<1>4. \A q \in S : m[q] \ {Owner} = r[q] \ {Owner}
  BY DEF Agree
<1> HIDE DEF A, B, S
<1>5. \A q \in S : A[q] \ {Owner} = B[q] \ {Owner}
  BY <1>2, <1>3, <1>4
<1> QED BY <1>1, <1>5 DEF Agree, A, B

LEMMA FlaggedAgree ==
  ASSUME NEW m \in MemberRows, NEW r \in MemberRows, NEW p,
         NEW f \in SUBSET AllFlags, NEW g \in SUBSET AllFlags,
         f \ {Owner} = g \ {Owner}, Agree(m, r)
  PROVE  Agree(Flagged(m, p, f), Flagged(r, p, g))
  BY FlaggedIs DEF Agree

\* Only the object's flags change, and only the owner's.
LEMMA FlaggedLeftAgrees ==
  ASSUME NEW m \in MemberRows, NEW r \in MemberRows, NEW p,
         NEW f \in SUBSET AllFlags, p \in DOMAIN m => f \ {Owner} = m[p] \ {Owner}, Agree(m, r)
  PROVE  Agree(Flagged(m, p, f), r)
  BY FlaggedIs DEF Agree

LEMMA FlaggedRightAgrees ==
  ASSUME NEW m \in MemberRows, NEW r \in MemberRows, NEW p,
         NEW f \in SUBSET AllFlags, p \in DOMAIN m => f \ {Owner} = m[p] \ {Owner}, Agree(m, r)
  PROVE  Agree(m, Flagged(r, p, f))
  BY FlaggedIs DEF Agree

-----------------------------------------------------------------------------
(* The database and the objects                                            *)

\* The rows of the members of one channel are replaced.
Stored(d, id, rows) == [d EXCEPT !.members[id] = rows]

LEMMA DbFields ==
  ASSUME NEW d \in DbStates
  PROVE  /\ d.row \in DbRows \cup {Nil}
         /\ d.next \in 1..MaxId + 1
         /\ d.members \in [Ids -> MemberRows]
         /\ d.bans \in [Ids -> SUBSET Players]
         /\ d = [row |-> d.row, next |-> d.next, members |-> d.members, bans |-> d.bans]
  BY DEF DbStates

LEMMA StoredIs ==
  ASSUME NEW d \in DbStates, NEW id \in Ids, NEW rows \in MemberRows
  PROVE  /\ Stored(d, id, rows) \in DbStates
         /\ Stored(d, id, rows).row = d.row
         /\ Stored(d, id, rows).next = d.next
         /\ Stored(d, id, rows).bans = d.bans
         /\ Stored(d, id, rows).members[id] = rows
  BY DEF Stored, DbStates

LEMMA StoredForm ==
  ASSUME NEW d \in DbStates, NEW id \in Ids, NEW rows \in MemberRows
  PROVE  Stored(d, id, rows) = [row |-> d.row, next |-> d.next,
                                members |-> [d.members EXCEPT ![id] = rows], bans |-> d.bans]
  BY DEF Stored, DbStates

LEMMA RowsStored ==
  ASSUME NEW d \in DbStates, NEW id \in Ids, NEW rows \in MemberRows,
         NEW e, e = Stored(d, id, rows)
  PROVE  /\ e.row = d.row /\ e.next = d.next
         /\ e.members[id] = rows
         /\ \A i \in Ids : i # id => e.members[i] = d.members[i]
  BY DEF Stored, DbStates

LEMMA StoredTwice ==
  ASSUME NEW d \in DbStates, NEW id \in Ids, NEW r \in MemberRows, NEW rows \in MemberRows
  PROVE  Stored(Stored(d, id, r), id, rows) = Stored(d, id, rows)
<1>1. [[d.members EXCEPT ![id] = r] EXCEPT ![id] = rows] = [d.members EXCEPT ![id] = rows]
  BY DbFields
<1> DEFINE e == Stored(d, id, r)
<1>2. e \in DbStates /\ e.row = d.row /\ e.next = d.next /\ e.bans = d.bans
  BY StoredIs
<1>3. e.members = [d.members EXCEPT ![id] = r]
  BY StoredForm
<1> HIDE DEF e
<1>4. Stored(e, id, rows) = [row |-> d.row, next |-> d.next,
                             members |-> [d.members EXCEPT ![id] = rows], bans |-> d.bans]
  BY <1>1, <1>2, <1>3, StoredForm
<1> QED BY <1>4, StoredForm DEF e

LEMMA StoredSame ==
  ASSUME NEW d \in DbStates, NEW id \in Ids
  PROVE  Stored(d, id, d.members[id]) = d
<1>1. [d.members EXCEPT ![id] = d.members[id]] = d.members
  BY DbFields
<1>2. d.members[id] \in MemberRows
  BY DbFields
<1>3. Stored(d, id, d.members[id]) =
        [row |-> d.row, next |-> d.next, members |-> [d.members EXCEPT ![id] = d.members[id]], bans |-> d.bans]
  BY <1>2, StoredForm
<1>4. Stored(d, id, d.members[id]) =
        [row |-> d.row, next |-> d.next, members |-> d.members, bans |-> d.bans]
  BY <1>1, <1>3
<1> QED BY <1>4, DbFields

LEMMA SaveIs ==
  ASSUME NEW d \in DbStates, NEW id \in Ids, NEW p, NEW f
  PROVE  SaveChannelMember(d, id, p, f) = Stored(d, id, WithMember(d.members[id], p, f))
  BY DEF SaveChannelMember, Stored, DbStates

LEMMA RemoveIs ==
  ASSUME NEW d \in DbStates, NEW id \in Ids, NEW p
  PROVE  RemoveChannelMember(d, id, p) = Stored(d, id, Without(d.members[id], p))
  BY DEF RemoveChannelMember, Stored, DbStates, Without

LEMMA UpdateIs ==
  ASSUME NEW d \in DbStates, NEW id \in Ids, NEW p, NEW f \in SUBSET AllFlags
  PROVE  UpdateMemberFlags(d, id, p, f) = Stored(d, id, Flagged(d.members[id], p, f))
<1>1. d.members[id] \in MemberRows
  BY DbFields
<1>2. CASE p \in DOMAIN d.members[id]
  BY <1>2 DEF UpdateMemberFlags, Stored, DbStates, Flagged
<1>3. CASE p \notin DOMAIN d.members[id]
  <2>1. Flagged(d.members[id], p, f) = d.members[id]
    BY <1>1, <1>3, FlaggedIs
  <2> QED BY <1>3, <2>1, StoredSame DEF UpdateMemberFlags
<1> QED BY <1>2, <1>3

LEMMA ObjectFields ==
  ASSUME NEW ch \in Objects
  PROVE  /\ ch.id \in Ids /\ ch.password \in Passwords
         /\ ch.announce \in BOOLEAN /\ ch.moderation \in BOOLEAN
         /\ ch.owner \in Players \cup {Nil}
         /\ ch.members \in MemberRows
         /\ ch.banned \in SUBSET Players
  BY DEF Objects

\* The object with other members and another owner.
Changed(ch, o, m) == [ch EXCEPT !.owner = o, !.members = m]

LEMMA ChangedIs ==
  ASSUME NEW ch \in Objects, NEW o \in Players \cup {Nil}, NEW m \in MemberRows
  PROVE  /\ Changed(ch, o, m) \in Objects
         /\ Changed(ch, o, m).id = ch.id
         /\ Changed(ch, o, m).banned = ch.banned
         /\ Changed(ch, o, m).owner = o
         /\ Changed(ch, o, m).members = m
  BY DEF Objects, Changed

-----------------------------------------------------------------------------
(* Writes to the members of an object and to their rows                    *)

\* A channel with members has one owner, the one it names.
Owned(ch) == DOMAIN ch.members # {} => OwnersOf(ch.members) = {ch.owner}

\* What an operation does that turns object ch with rows r into new with
\* rows: both stay in agreement, and exactly so unless a write of the owner's
\* flag failed.
Keeps(ch, r, new, rows, exact) ==
    /\ new.id = ch.id
    /\ new.banned = ch.banned
    /\ Agree(ch.members, r) => Agree(new.members, rows)
    /\ exact /\ ch.members = r /\ Owned(ch) => new.members = rows /\ Owned(new)

MemberWrite(k) ==
    \E new \in Objects, rows \in MemberRows :
        /\ objs' = [objs EXCEPT ![k] = new]
        /\ db' = Stored(db, objs[k].id, rows)
        /\ torn' \subseteq Faults
        /\ torn \cup DroppedMark(k) \subseteq torn'
        /\ Keeps(objs[k], db.members[objs[k].id], new, rows, "owner" \notin torn')

ChannelInv ==
    /\ DroppedIsEmpty
    /\ IdsAreOrdered
    /\ AgreesWithDb
    /\ RowsAreMembers
    /\ OneOwner

LEMMA ObjIsTyped ==
  ASSUME ChatTypeOK, NEW k \in 1..Len(objs)
  PROVE  objs[k] \in Objects
  BY DEF ChatTypeOK

\* The two properties over the members' domain.
LEMMA Restated ==
  ASSUME ChatTypeOK
  PROVE  /\ AgreesWithDb <=>
              ((active # Nil /\ "dropped" \notin torn) =>
                  Agree(objs[active].members, db.members[objs[active].id]))
         /\ OneOwner <=>
              ((active # Nil /\ torn \cap {"dropped", "owner"} = {}) => Owned(objs[active]))
<1>1. AgreesWithDb <=> ((active # Nil /\ "dropped" \notin torn) =>
                           Agree(objs[active].members, db.members[objs[active].id]))
  BY DEF AgreesWithDb, Agree
<1>2. ASSUME active # Nil
      PROVE  objs[active].members # <<>> <=> DOMAIN objs[active].members # {}
  <2>1. objs[active].members \in MemberRows
    BY <1>2, ObjIsTyped, ObjectFields DEF ChatTypeOK
  <2> QED BY <2>1, NoRows
<1>3. OneOwner <=> ((active # Nil /\ torn \cap {"dropped", "owner"} = {}) => Owned(objs[active]))
  BY <1>2 DEF OneOwner, Owned
<1> QED BY <1>1, <1>3

LEMMA MemberWriteTypes ==
  ASSUME ChatTypeOK, NEW k \in 1..Len(objs), MemberWrite(k)
  PROVE  /\ objs' \in Seq(Objects) /\ Len(objs') = Len(objs)
         /\ db' \in DbStates
         /\ torn' \subseteq Faults
         /\ db'.row = db.row /\ db'.next = db.next /\ db'.bans = db.bans
         /\ \A i \in 1..Len(objs) : objs'[i].id = objs[i].id /\ objs'[i].banned = objs[i].banned
         /\ torn \subseteq torn'
<1>1. PICK new \in Objects, rows \in MemberRows :
        /\ objs' = [objs EXCEPT ![k] = new]
        /\ db' = Stored(db, objs[k].id, rows)
        /\ torn' \subseteq Faults
        /\ torn \cup DroppedMark(k) \subseteq torn'
        /\ new.id = objs[k].id
        /\ new.banned = objs[k].banned
  BY DEF MemberWrite, Keeps
<1>2. objs \in Seq(Objects) /\ db \in DbStates
  BY DEF ChatTypeOK
<1>3. objs[k].id \in Ids
  BY ObjIsTyped, ObjectFields
<1>4. objs' \in Seq(Objects) /\ Len(objs') = Len(objs)
  BY <1>1, <1>2
<1>5. \A i \in 1..Len(objs) : objs'[i] = IF i = k THEN new ELSE objs[i]
  BY <1>1, <1>2
<1>6. ASSUME NEW i \in 1..Len(objs)
      PROVE  objs'[i].id = objs[i].id /\ objs'[i].banned = objs[i].banned
  BY <1>1, <1>5
<1>7. db' \in DbStates /\ db'.row = db.row /\ db'.next = db.next /\ db'.bans = db.bans
  BY <1>1, <1>2, <1>3, StoredIs
<1> QED BY <1>1, <1>4, <1>6, <1>7

LEMMA MemberWriteKeeps ==
  ASSUME ChatTypeOK, ChatTypeOK', ChannelInv, active' = active,
         NEW k \in 1..Len(objs), MemberWrite(k)
  PROVE  ChannelInv'
<1>1. PICK new \in Objects, rows \in MemberRows :
        /\ objs' = [objs EXCEPT ![k] = new]
        /\ db' = Stored(db, objs[k].id, rows)
        /\ torn' \subseteq Faults
        /\ torn \cup DroppedMark(k) \subseteq torn'
        /\ Keeps(objs[k], db.members[objs[k].id], new, rows, "owner" \notin torn')
  BY DEF MemberWrite
<1>2. objs \in Seq(Objects) /\ db \in DbStates /\ objs[k].id \in Ids
  BY ObjIsTyped, ObjectFields DEF ChatTypeOK
<1>3. /\ Len(objs') = Len(objs)
      /\ \A i \in 1..Len(objs) : objs'[i] = IF i = k THEN new ELSE objs[i]
  BY <1>1, <1>2
<1>4. /\ db'.row = db.row /\ db'.next = db.next
      /\ db'.members[objs[k].id] = rows
      /\ \A i \in Ids : i # objs[k].id => db'.members[i] = db.members[i]
  <2>1. db' = Stored(db, objs[k].id, rows)
    BY <1>1
  <2>2. db'.row = db.row /\ db'.next = db.next /\ db'.members[objs[k].id] = rows
    BY <1>2, <2>1, RowsStored
  <2>3. ASSUME NEW i \in Ids, i # objs[k].id PROVE db'.members[i] = db.members[i]
    BY <1>2, <2>1, <2>3, RowsStored
  <2> QED BY <2>2, <2>3
<1>5. new.id = objs[k].id
  BY <1>1 DEF Keeps
<1>6. k # active => "dropped" \in torn'
  BY <1>1 DEF DroppedMark
<1>7. torn \subseteq torn'
  BY <1>1
<1>8. DroppedIsEmpty'
  <2> SUFFICES ASSUME "dropped" \notin torn', NEW i \in 1..Len(objs), i # active
               PROVE  DOMAIN objs'[i].members = {}
    BY <1>3 DEF DroppedIsEmpty
  <2>1. i # k
    BY <1>6
  <2> QED BY <1>3, <1>7, <2>1 DEF ChannelInv, DroppedIsEmpty
<1>9. IdsAreOrdered'
  <2>1. \A i \in 1..Len(objs) : objs'[i].id = objs[i].id
    BY <1>3, <1>5
  <2>2. \A i \in Ids : i >= db.next => i # objs[k].id
    <3>1. objs[k].id < db.next
      BY DEF ChannelInv, IdsAreOrdered
    <3>2. db.next \in Nat /\ Ids \subseteq Nat
      BY <1>2, DbFields, ChannelAssumption DEF Ids
    <3>3. \A a, b, c \in Nat : a < b /\ c >= b => c # a
      OBVIOUS
    <3> QED BY <1>2, <3>1, <3>2, <3>3
  <2>3. ASSUME NEW i \in Ids, i >= db'.next
        PROVE  DOMAIN db'.members[i] = {}
    BY <1>4, <2>2, <2>3 DEF ChannelInv, IdsAreOrdered
  <2>4. active # Nil => active \in 1..Len(objs)
    BY DEF ChatTypeOK
  <2>5. active # Nil /\ db'.row # Nil => objs'[active].id = db'.row.id
    BY <1>4, <2>1, <2>4 DEF ChannelInv, IdsAreOrdered
  <2>6. db'.row # Nil => db'.row.id < db'.next
    BY <1>4 DEF ChannelInv, IdsAreOrdered
  <2>7. \A i \in 1..Len(objs') : objs'[i].id < db'.next
    BY <1>3, <1>4, <2>1 DEF ChannelInv, IdsAreOrdered
  <2> QED BY <1>4, <2>3, <2>5, <2>6, <2>7 DEF IdsAreOrdered
<1>10. CASE k # active
  <2>1. "dropped" \in torn'
    BY <1>6, <1>10
  <2> QED BY <1>8, <1>9, <2>1 DEF ChannelInv, AgreesWithDb, RowsAreMembers, OneOwner
<1>11. CASE k = active
  <2>0. ~("dropped" \notin torn') \/ "dropped" \notin torn
    BY <1>7
  <2>1. objs'[active] = new /\ db'.members[objs'[active].id] = rows
    BY <1>3, <1>4, <1>5, <1>11
  <2>2. AgreesWithDb'
    BY <1>1, <1>7, <1>11, <2>1, Restated DEF ChannelInv, Keeps, AgreesWithDb, Agree
  <2>3. ASSUME torn' \cap {"dropped", "owner"} = {}, active # Nil
        PROVE  new.members = rows /\ Owned(new)
    <3>1. torn \cap {"dropped", "owner"} = {} /\ "owner" \notin torn'
      BY <1>7, <2>3
    <3>2. objs[active].members = db.members[objs[active].id]
      BY <2>3, <3>1 DEF ChannelInv, RowsAreMembers
    <3>3. Owned(objs[active])
      BY <2>3, <3>1, Restated DEF ChannelInv
    <3> QED BY <1>1, <1>11, <3>1, <3>2, <3>3 DEF Keeps
  <2>4. RowsAreMembers'
    <3>1. active # Nil
      BY <1>11, ChannelAssumption
    <3> QED BY <2>1, <2>3, <3>1 DEF RowsAreMembers
  <2>5. OneOwner'
    <3>1. objs'[active].members # <<>> => DOMAIN objs'[active].members # {}
      BY <1>1, <2>1, NoRows, ObjectFields
    <3> QED BY <2>1, <2>3, <3>1 DEF OneOwner, Owned
  <2> QED BY <1>8, <1>9, <2>2, <2>4, <2>5 DEF ChannelInv
<1> QED BY <1>10, <1>11

-----------------------------------------------------------------------------
(* Owners                                                                  *)

LEMMA WithOwners ==
  ASSUME NEW m \in MemberRows, NEW p \in Players, NEW f \in SUBSET AllFlags, p \notin DOMAIN m
  PROVE  OwnersOf(WithMember(m, p, f)) = OwnersOf(m) \cup (IF Owner \in f THEN {p} ELSE {})
  BY DEF OwnersOf, WithMember

LEMMA WithoutOwners ==
  ASSUME NEW m \in MemberRows, NEW p
  PROVE  OwnersOf(Without(m, p)) = OwnersOf(m) \ {p}
  BY WithoutIs DEF OwnersOf

LEMMA FlaggedOwners ==
  ASSUME NEW m \in MemberRows, NEW p \in DOMAIN m, NEW f \in SUBSET AllFlags
  PROVE  OwnersOf(Flagged(m, p, f)) = (OwnersOf(m) \ {p}) \cup (IF Owner \in f THEN {p} ELSE {})
  BY FlaggedIs DEF OwnersOf

LEMMA FlagOf ==
  ASSUME NEW m \in MemberRows, NEW p \in DOMAIN m
  PROVE  m[p] \in SUBSET AllFlags /\ m[p] \cup {Owner} \in SUBSET AllFlags
         /\ m[p] \ {Owner} \in SUBSET AllFlags
<1>1. m \in [DOMAIN m -> SUBSET AllFlags]
  BY RowsElim
<1> QED BY <1>1 DEF AllFlags

\* The forms in which the operations write an object.
LEMMA OwnerForm ==
  ASSUME NEW ch \in Objects, NEW o, NEW m
  PROVE  /\ [ch EXCEPT !.owner = o] = Changed(ch, o, ch.members)
         /\ [ch EXCEPT !.members = m] = Changed(ch, ch.owner, m)
         /\ [[ch EXCEPT !.owner = o] EXCEPT !.members = m] = Changed(ch, o, m)
  BY DEF Objects, Changed

LEMMA FlagForm ==
  ASSUME NEW ch \in Objects, NEW p, NEW f
  PROVE  [ch EXCEPT !.members[p] = f] = Changed(ch, ch.owner, Flagged(ch.members, p, f))
  BY DEF Objects, Changed, Flagged

LEMMA LeaveForm ==
  ASSUME NEW ch \in Objects, NEW p
  PROVE  [ch EXCEPT !.members = Restrict(@, DOMAIN @ \ {p})] = Changed(ch, ch.owner, Without(ch.members, p))
  BY DEF Objects, Changed, Without

LEMMA CrownedForm ==
  ASSUME NEW ch \in Objects, NEW n
  PROVE  Crowned(ch, n) = Changed(ch, n, Flagged(ch.members, n, ch.members[n] \cup {Owner}))
  BY DEF Crowned, Changed, Flagged, Objects

LEMMA CrownedIs ==
  ASSUME NEW ch \in Objects, NEW n \in DOMAIN ch.members
  PROVE  /\ Crowned(ch, n) \in Objects
         /\ Crowned(ch, n).id = ch.id
         /\ Crowned(ch, n).banned = ch.banned
         /\ Crowned(ch, n).owner = n
         /\ Crowned(ch, n).members = Flagged(ch.members, n, ch.members[n] \cup {Owner})
         /\ Crowned(ch, n).members[n] = ch.members[n] \cup {Owner}
         /\ ch.members[n] \cup {Owner} \in SUBSET AllFlags
<1>1. ch.members \in MemberRows
  BY ObjectFields
<1>2. n \in Players /\ ch.members[n] \cup {Owner} \in SUBSET AllFlags
  BY <1>1, RowsElim, FlagOf
<1> DEFINE f == ch.members[n] \cup {Owner}
           m == Flagged(ch.members, n, f)
<1>3. m \in MemberRows
  BY <1>1, <1>2, FlaggedIs
<1>4. m[n] = f
  BY <1>1, <1>2, FlaggedIs
<1>5. /\ Changed(ch, n, m) \in Objects
      /\ Changed(ch, n, m).id = ch.id
      /\ Changed(ch, n, m).banned = ch.banned
      /\ Changed(ch, n, m).owner = n
      /\ Changed(ch, n, m).members = m
  <2> HIDE DEF m
  <2> QED BY <1>2, <1>3, ChangedIs
<1> QED BY <1>2, <1>4, <1>5, CrownedForm

LEMMA CrownedKeeps ==
  ASSUME NEW ch \in Objects, NEW r \in MemberRows, NEW n \in DOMAIN ch.members
  PROVE  /\ Agree(ch.members, r) => Agree(Crowned(ch, n).members, r)
         /\ Agree(ch.members, r) =>
              Agree(Crowned(ch, n).members, Flagged(r, n, ch.members[n] \cup {Owner}))
         /\ ch.members = r => Crowned(ch, n).members = Flagged(r, n, ch.members[n] \cup {Owner})
         /\ OwnersOf(ch.members) = {} => OwnersOf(Crowned(ch, n).members) = {n}
<1> DEFINE f == ch.members[n] \cup {Owner}
           m == ch.members
<1>1. m \in MemberRows
  BY ObjectFields
<1>2. f \in SUBSET AllFlags /\ Crowned(ch, n).members = Flagged(m, n, f) /\ n \in DOMAIN m
  BY CrownedIs
<1>3. f \ {Owner} = m[n] \ {Owner} /\ Owner \in f
  OBVIOUS
<1> HIDE DEF f, m
<1>4. Agree(m, r) => Agree(Flagged(m, n, f), r)
  BY <1>1, <1>2, <1>3, FlaggedLeftAgrees
<1>5. Agree(m, r) => Agree(Flagged(m, n, f), Flagged(r, n, f))
  BY <1>1, <1>2, FlaggedAgree
<1>6. OwnersOf(m) = {} => OwnersOf(Flagged(m, n, f)) = {n}
  BY <1>1, <1>2, <1>3, FlaggedOwners
<1> QED BY <1>2, <1>4, <1>5, <1>6 DEF f, m

-----------------------------------------------------------------------------
(* The operations on members                                               *)

\* One row of members is written, or two of the same channel.
LEMMA WriteForms ==
  ASSUME NEW d \in DbStates, NEW id \in Ids, NEW r \in MemberRows,
         NEW p, NEW f \in SUBSET AllFlags
  PROVE  /\ UpdateMemberFlags(Stored(d, id, r), id, p, f) = Stored(d, id, Flagged(r, p, f))
         /\ Flagged(r, p, f) \in MemberRows
<1>1. Stored(d, id, r) \in DbStates /\ Stored(d, id, r).members[id] = r
  BY StoredIs
<1>2. Flagged(r, p, f) \in MemberRows
  BY FlaggedIs
<1> QED BY <1>1, <1>2, UpdateIs, StoredTwice

LEMMA CrownWrites ==
  ASSUME ChatTypeOK, NEW k \in 1..Len(objs), NEW ch \in Objects, NEW n \in DOMAIN ch.members,
         NEW r \in MemberRows, Crown(k, ch, Stored(db, ch.id, r), n),
         Keeps(objs[k], db.members[objs[k].id], ch, r, FALSE),
         objs[k].members = db.members[objs[k].id] /\ Owned(objs[k])
           => ch.members = r /\ OwnersOf(ch.members) = {}
  PROVE  MemberWrite(k)
<1> DEFINE f == ch.members[n] \cup {Owner}
<1>0. /\ db \in DbStates /\ objs[k] \in Objects /\ ch.id = objs[k].id /\ ch.id \in Ids
      /\ torn \subseteq Faults
  BY ObjIsTyped, ObjectFields DEF ChatTypeOK, Keeps
<1>1. f \in SUBSET AllFlags
  BY CrownedIs
<1>2. Crowned(ch, n).members[n] = f
  BY CrownedIs
<1>3. objs' = [objs EXCEPT ![k] = Crowned(ch, n)]
  BY DEF Crown
<1>4. UpdateMemberFlags(Stored(db, ch.id, r), ch.id, n, f) = Stored(db, ch.id, Flagged(r, n, f))
      /\ Flagged(r, n, f) \in MemberRows
  <2> HIDE DEF f
  <2> QED BY <1>0, <1>1, WriteForms
<1>5. Crowned(ch, n) \in Objects /\ Crowned(ch, n).id = objs[k].id
      /\ Crowned(ch, n).banned = objs[k].banned /\ Crowned(ch, n).owner = n
  BY <1>0, CrownedIs DEF Keeps
<1>6. Agree(objs[k].members, db.members[objs[k].id]) =>
        /\ Agree(Crowned(ch, n).members, r)
        /\ Agree(Crowned(ch, n).members, Flagged(r, n, f))
  BY CrownedKeeps DEF Keeps
<1>7. objs[k].members = db.members[objs[k].id] /\ Owned(objs[k]) =>
        /\ Crowned(ch, n).members = Flagged(r, n, f)
        /\ Owned(Crowned(ch, n))
  <2>1. ch.members = r /\ OwnersOf(ch.members) = {} =>
          Crowned(ch, n).members = Flagged(r, n, f) /\ OwnersOf(Crowned(ch, n).members) = {n}
    BY CrownedKeeps
  <2>2. OwnersOf(Crowned(ch, n).members) = {n} => Owned(Crowned(ch, n))
    BY <1>5 DEF Owned
  <2> HIDE DEF f
  <2> QED BY <2>1, <2>2
<1>8. DroppedMark(k) \subseteq Faults
  BY DEF DroppedMark, Faults
<1>9. CASE db' = UpdateMemberFlags(Stored(db, ch.id, r), ch.id, n, f) /\ torn' = torn \cup DroppedMark(k)
  <2>1. db' = Stored(db, objs[k].id, Flagged(r, n, f))
    BY <1>0, <1>4, <1>9
  <2>2. Keeps(objs[k], db.members[objs[k].id], Crowned(ch, n), Flagged(r, n, f), "owner" \notin torn')
    BY <1>5, <1>6, <1>7 DEF Keeps
  <2> HIDE DEF f
  <2> QED BY <1>0, <1>3, <1>4, <1>5, <1>8, <1>9, <2>1, <2>2 DEF MemberWrite
<1>10. CASE db' = Stored(db, ch.id, r) /\ torn' = torn \cup DroppedMark(k) \cup {"owner"}
  <2>1. Keeps(objs[k], db.members[objs[k].id], Crowned(ch, n), r, "owner" \notin torn')
    BY <1>5, <1>6, <1>10 DEF Keeps
  <2>2. torn' \subseteq Faults /\ torn \cup DroppedMark(k) \subseteq torn'
    BY <1>0, <1>8, <1>10 DEF Faults
  <2>3. db' = Stored(db, objs[k].id, r)
    BY <1>0, <1>10
  <2> QED BY <1>3, <1>5, <2>1, <2>2, <2>3 DEF MemberWrite
<1> QED BY <1>2, <1>9, <1>10 DEF Crown

LEMMA DroppedMarkIs ==
  ASSUME ChatTypeOK, NEW k
  PROVE  torn \cup DroppedMark(k) \subseteq Faults
  BY DEF ChatTypeOK, DroppedMark, Faults

LEMMA HeirsAreMembers ==
  ASSUME NEW m
  PROVE  Heirs(m) \subseteq DOMAIN m
  BY DEF Heirs

LEMMA LeaveWrites ==
  ASSUME ChatTypeOK, NEW k \in 1..Len(objs), NEW p, LeaveChannel(k, p)
  PROVE  MemberWrite(k)
<1> DEFINE ch == objs[k]
           r == db.members[ch.id]
           rest == Changed(ch, ch.owner, Without(ch.members, p))
           d == Stored(db, ch.id, Without(r, p))
<1>1. ch \in Objects /\ db \in DbStates /\ ch.id \in Ids
  BY ObjIsTyped, ObjectFields DEF ChatTypeOK
<1>2. r \in MemberRows /\ ch.members \in MemberRows /\ ch.owner \in Players \cup {Nil}
  BY <1>1, ObjectFields, DbFields
<1>3. Without(ch.members, p) \in MemberRows /\ Without(r, p) \in MemberRows
  BY <1>2, WithoutIs
<1>4. [ch EXCEPT !.members = Restrict(@, DOMAIN @ \ {p})] = rest
  BY <1>1, LeaveForm
<1>5. RemoveChannelMember(db, ch.id, p) = d
  BY <1>1, RemoveIs
<1>6. /\ rest \in Objects /\ rest.id = ch.id /\ rest.banned = ch.banned
      /\ rest.owner = ch.owner /\ rest.members = Without(ch.members, p)
  <2> DEFINE x == Without(ch.members, p)
  <2>1. rest = Changed(ch, ch.owner, x) /\ x \in MemberRows
    BY <1>3
  <2> HIDE DEF rest, x, ch
  <2>2. /\ rest \in Objects /\ rest.id = ch.id /\ rest.banned = ch.banned
        /\ rest.owner = ch.owner /\ rest.members = x
    BY <1>1, <1>2, <2>1 DEF Changed, Objects
  <2> QED BY <2>2 DEF x
<1>7. /\ p \in DOMAIN ch.members
      /\ IF Owner \in ch.members[p] /\ rest.members # <<>>
         THEN \E n \in Heirs(rest.members) : Crown(k, rest, d, n)
         ELSE /\ objs' = [objs EXCEPT ![k] = rest]
              /\ db' = d
              /\ torn' = torn \cup DroppedMark(k)
  BY <1>4, <1>5 DEF LeaveChannel
<1>8. Agree(ch.members, r) => Agree(rest.members, Without(r, p))
  BY <1>2, <1>6, WithoutAgree
<1>9. ch.members = r => rest.members = Without(r, p)
  BY <1>6
<1>10. OwnersOf(rest.members) = OwnersOf(ch.members) \ {p}
  BY <1>2, <1>6, WithoutOwners
<1>11. DOMAIN rest.members = DOMAIN ch.members \ {p}
  BY <1>2, <1>6, WithoutIs
<1>12. p \in DOMAIN ch.members
  BY <1>7
<1>13. Owner \in ch.members[p] <=> p \in OwnersOf(ch.members)
  BY <1>12 DEF OwnersOf
<1> HIDE DEF rest, d, r, ch
<1>14. CASE Owner \in ch.members[p] /\ rest.members # <<>>
  <2>1. PICK n \in Heirs(rest.members) : Crown(k, rest, d, n)
    BY <1>7, <1>14
  <2>2. n \in DOMAIN rest.members
    BY HeirsAreMembers
  <2>3. Keeps(ch, r, rest, Without(r, p), FALSE)
    BY <1>6, <1>8 DEF Keeps
  <2>4. ch.members = r /\ Owned(ch) => rest.members = Without(r, p) /\ OwnersOf(rest.members) = {}
    BY <1>9, <1>10, <1>12, <1>13, <1>14 DEF Owned
  <2>5. Crown(k, rest, Stored(db, rest.id, Without(r, p)), n)
    BY <1>6, <2>1 DEF d
  <2> QED BY <1>3, <1>6, <2>2, <2>3, <2>4, <2>5, CrownWrites DEF ch, r
<1>15. CASE ~(Owner \in ch.members[p] /\ rest.members # <<>>)
  <2>1. objs' = [objs EXCEPT ![k] = rest] /\ db' = d /\ torn' = torn \cup DroppedMark(k)
    BY <1>7, <1>15
  <2>2. ASSUME ch.members = r, Owned(ch) PROVE rest.members = Without(r, p) /\ Owned(rest)
    <3>1. CASE rest.members = <<>>
      BY <1>9, <2>2, <3>1, NoRows DEF Owned
    <3>2. CASE Owner \notin ch.members[p]
      BY <1>6, <1>9, <1>10, <1>11, <1>12, <1>13, <2>2, <3>2 DEF Owned
    <3> QED BY <1>15, <3>1, <3>2
  <2>3. Keeps(ch, r, rest, Without(r, p), "owner" \notin torn')
    BY <1>6, <1>8, <2>2 DEF Keeps
  <2>4. torn' \subseteq Faults
    BY <2>1, DroppedMarkIs
  <2> QED BY <1>3, <1>6, <2>1, <2>3, <2>4 DEF MemberWrite, d, ch, r
<1> QED BY <1>14, <1>15

\* The object a request holds.
LEMMA HeldObject ==
  ASSUME ChatTypeOK, NEW p \in Players, req[p] # Nil, req[p].op # "settingsRow"
  PROVE  req[p].obj \in 1..Len(objs)
  BY DEF ChatTypeOK, Requests

LEMMA TargetOf ==
  ASSUME ChatTypeOK, NEW p \in Players, req[p] # Nil, req[p].op \in Steps
  PROVE  req[p].target \in Players
  BY DEF ChatTypeOK, Requests, Steps

LEMMA InitialFlagsAre ==
  ASSUME NEW ch \in Objects, NEW p
  PROVE  /\ InitialFlags(ch, p) \in SUBSET AllFlags
         /\ Owner \in InitialFlags(ch, p) <=> DOMAIN ch.members = {}
<1>1. ch.members = <<>> <=> DOMAIN ch.members = {}
  BY ObjectFields, NoRows
<1>2. Owner # Mod
  BY DEF Owner, Mod
<1> QED BY <1>1, <1>2 DEF InitialFlags, AllFlags

LEMMA JoinWrites ==
  ASSUME ChatTypeOK, NEW p \in Players, JoinChannel(p)
  PROVE  UNCHANGED <<objs, db, torn>> \/ MemberWrite(req[p].obj)
<1> DEFINE k == req[p].obj
           ch == objs[k]
           r == db.members[ch.id]
           f == InitialFlags(ch, p)
           o == IF Owner \in f THEN p ELSE ch.owner
           new == Changed(ch, o, ch.members)
           joined == Changed(ch, o, WithMember(ch.members, p, f))
<1> SUFFICES ASSUME ~UNCHANGED <<objs, db, torn>>
             PROVE  MemberWrite(k)
  OBVIOUS
<1>1. k \in 1..Len(objs)
  BY HeldObject DEF JoinChannel, Doing
<1>2. ch \in Objects /\ db \in DbStates /\ ch.id \in Ids
  BY <1>1, ObjIsTyped, ObjectFields DEF ChatTypeOK
<1>3. r \in MemberRows /\ ch.members \in MemberRows /\ ch.owner \in Players \cup {Nil}
  BY <1>2, ObjectFields, DbFields
<1>4. f \in SUBSET AllFlags /\ (Owner \in f <=> DOMAIN ch.members = {})
  BY <1>2, InitialFlagsAre
<1>5. o \in Players \cup {Nil}
  BY <1>3
<1>6. WithMember(ch.members, p, f) \in MemberRows /\ WithMember(r, p, f) \in MemberRows
  <2> HIDE DEF f
  <2> QED BY <1>3, <1>4, WithIs
<1>7. /\ [ch EXCEPT !.owner = IF Owner \in f THEN p ELSE @] = new
      /\ [[ch EXCEPT !.owner = IF Owner \in f THEN p ELSE @] EXCEPT !.members = WithMember(@, p, f)] = joined
  <2> HIDE DEF f, ch
  <2> QED BY <1>2 DEF Objects, Changed
<1>8. /\ p \notin DOMAIN ch.members
      /\ torn' = torn \cup DroppedMark(k)
      /\ \/ objs' = [objs EXCEPT ![k] = joined] /\ db' = SaveChannelMember(db, ch.id, p, f)
         \/ objs' = [objs EXCEPT ![k] = new] /\ UNCHANGED db
  BY <1>7 DEF JoinChannel
<1>9. /\ new \in Objects /\ new.id = ch.id /\ new.banned = ch.banned
      /\ new.owner = o /\ new.members = ch.members
  <2>1. new = Changed(ch, o, ch.members)
    OBVIOUS
  <2> HIDE DEF o, ch, new
  <2> QED BY <1>2, <1>3, <1>5, <2>1 DEF Changed, Objects
<1>10. /\ joined \in Objects /\ joined.id = ch.id /\ joined.banned = ch.banned
       /\ joined.owner = o /\ joined.members = WithMember(ch.members, p, f)
  <2> DEFINE m == WithMember(ch.members, p, f)
  <2>1. m \in MemberRows
    BY <1>6
  <2> HIDE DEF o, f, m
  <2>2. /\ Changed(ch, o, m) \in Objects
        /\ Changed(ch, o, m).id = ch.id
        /\ Changed(ch, o, m).banned = ch.banned
        /\ Changed(ch, o, m).owner = o
        /\ Changed(ch, o, m).members = m
    BY <1>2, <1>5, <2>1, ChangedIs
  <2> QED BY <2>2 DEF m
<1>11. OwnersOf(WithMember(ch.members, p, f)) = OwnersOf(ch.members) \cup (IF Owner \in f THEN {p} ELSE {})
  <2> HIDE DEF f
  <2> QED BY <1>3, <1>4, <1>8, WithOwners
<1>12. Agree(ch.members, r) => Agree(WithMember(ch.members, p, f), WithMember(r, p, f))
  <2> HIDE DEF f
  <2> QED BY <1>3, <1>4, WithAgree
<1>13. SaveChannelMember(db, ch.id, p, f) = Stored(db, ch.id, WithMember(r, p, f))
  BY <1>2, SaveIs
<1>14. torn' \subseteq Faults
  BY <1>8, DroppedMarkIs
<1>15. Owned(ch) => Owned(joined) /\ Owned(new)
  <2>1. CASE DOMAIN ch.members = {}
    <3>1. OwnersOf(ch.members) = {} /\ o = p
      BY <1>4, <2>1 DEF OwnersOf
    <3> HIDE DEF f, o, joined, new
    <3>2. Owner \in f
      BY <1>4, <2>1
    <3> QED BY <1>9, <1>10, <1>11, <2>1, <3>1, <3>2 DEF Owned
  <2>2. CASE DOMAIN ch.members # {}
    <3>1. o = ch.owner
      BY <1>4, <2>2
    <3>2. Owner \notin f
      BY <1>4, <2>2
    <3> HIDE DEF f, o, joined, new
    <3> QED BY <1>9, <1>10, <1>11, <2>2, <3>1, <3>2 DEF Owned
  <2> QED BY <2>1, <2>2
<1> HIDE DEF f, o, joined, new, r, ch, k
<1>16. CASE objs' = [objs EXCEPT ![k] = joined] /\ db' = SaveChannelMember(db, ch.id, p, f)
  <2>1. Keeps(ch, r, joined, WithMember(r, p, f), "owner" \notin torn')
    BY <1>10, <1>12, <1>15 DEF Keeps
  <2>2. db' = Stored(db, ch.id, WithMember(r, p, f))
    BY <1>13, <1>16
  <2> QED BY <1>6, <1>8, <1>10, <1>14, <1>16, <2>1, <2>2 DEF MemberWrite, ch, r
<1>17. CASE objs' = [objs EXCEPT ![k] = new] /\ UNCHANGED db
  <2>1. Keeps(ch, r, new, r, "owner" \notin torn')
    BY <1>9, <1>15 DEF Keeps
  <2>2. db' = Stored(db, ch.id, r)
    BY <1>2, <1>17, StoredSame DEF r
  <2> QED BY <1>3, <1>8, <1>9, <1>14, <1>17, <2>1, <2>2 DEF MemberWrite, ch, r
<1> QED BY <1>8, <1>16, <1>17

LEMMA SetFlagWrites ==
  ASSUME ChatTypeOK, NEW p \in Players, SetFlag(p)
  PROVE  UNCHANGED <<objs, db, torn>> \/ MemberWrite(req[p].obj)
<1> DEFINE k == req[p].obj
           t == req[p].target
           ch == objs[k]
           r == db.members[ch.id]
           flag == IF req[p].op = "mod" THEN Mod ELSE Muted
           f == IF flag \in ch.members[t] THEN ch.members[t] \ {flag} ELSE ch.members[t] \cup {flag}
           new == Changed(ch, ch.owner, Flagged(ch.members, t, f))
<1> SUFFICES ASSUME ~UNCHANGED <<objs, db, torn>>
             PROVE  MemberWrite(k)
  OBVIOUS
<1>1. k \in 1..Len(objs)
  BY HeldObject DEF SetFlag, Doing
<1>2. ch \in Objects /\ db \in DbStates /\ ch.id \in Ids
  BY <1>1, ObjIsTyped, ObjectFields DEF ChatTypeOK
<1>3. r \in MemberRows /\ ch.members \in MemberRows /\ ch.owner \in Players \cup {Nil}
  BY <1>2, ObjectFields, DbFields
<1>4. /\ t \in DOMAIN ch.members
      /\ objs' = [objs EXCEPT ![k].members[t] = f]
      /\ db' = UpdateMemberFlags(db, ch.id, t, f)
      /\ torn' = torn \cup DroppedMark(k)
  BY DEF SetFlag
<1>5. flag \in AllFlags /\ flag # Owner
  BY DEF AllFlags, Owner, Mod, Muted
<1>6. ch.members[t] \in SUBSET AllFlags
  BY <1>3, <1>4, FlagOf
<1>7. f \in SUBSET AllFlags /\ (Owner \in f <=> Owner \in ch.members[t])
  <2> HIDE DEF flag, ch
  <2> QED BY <1>5, <1>6
<1>8. [objs EXCEPT ![k].members[t] = f] = [objs EXCEPT ![k] = new]
  <2> HIDE DEF f
  <2>1. [objs[k] EXCEPT !.members[t] = f] = new
    BY <1>2, FlagForm
  <2> QED BY <2>1
<1> HIDE DEF f, flag, t
<1>9. Flagged(ch.members, t, f) \in MemberRows /\ Flagged(r, t, f) \in MemberRows
      /\ DOMAIN Flagged(ch.members, t, f) = DOMAIN ch.members
  BY <1>3, <1>7, FlaggedIs
<1>10. /\ new \in Objects /\ new.id = ch.id /\ new.banned = ch.banned
       /\ new.owner = ch.owner /\ new.members = Flagged(ch.members, t, f)
  <2> DEFINE m == Flagged(ch.members, t, f)
             o == ch.owner
  <2>1. m \in MemberRows /\ o \in Players \cup {Nil}
    BY <1>3, <1>9
  <2> HIDE DEF o, m
  <2>2. /\ Changed(ch, o, m) \in Objects
        /\ Changed(ch, o, m).id = ch.id
        /\ Changed(ch, o, m).banned = ch.banned
        /\ Changed(ch, o, m).owner = o
        /\ Changed(ch, o, m).members = m
    BY <1>2, <2>1, ChangedIs
  <2> QED BY <2>2 DEF m, o
<1>11. Agree(ch.members, r) => Agree(Flagged(ch.members, t, f), Flagged(r, t, f))
  BY <1>3, <1>7, FlaggedAgree
<1>12. OwnersOf(Flagged(ch.members, t, f)) = OwnersOf(ch.members)
  <2>1. OwnersOf(Flagged(ch.members, t, f))
          = (OwnersOf(ch.members) \ {t}) \cup (IF Owner \in f THEN {t} ELSE {})
    BY <1>3, <1>4, <1>7, FlaggedOwners
  <2>2. t \in OwnersOf(ch.members) <=> Owner \in f
    BY <1>4, <1>7 DEF OwnersOf
  <2> QED BY <2>1, <2>2
<1> HIDE DEF new, ch, r, k
<1>13. Keeps(ch, r, new, Flagged(r, t, f), "owner" \notin torn')
  BY <1>9, <1>10, <1>11, <1>12 DEF Keeps, Owned
<1>14. db' = Stored(db, ch.id, Flagged(r, t, f))
  BY <1>2, <1>4, <1>7, UpdateIs DEF r
<1>15. torn' \subseteq Faults
  BY <1>4, DroppedMarkIs
<1> QED BY <1>4, <1>8, <1>9, <1>10, <1>13, <1>14, <1>15 DEF MemberWrite, ch, r

LEMMA DeposedIs ==
  ASSUME NEW m \in MemberRows, NEW o
  PROVE  /\ Deposed(m, o) \in MemberRows
         /\ DOMAIN Deposed(m, o) = DOMAIN m
         /\ OwnersOf(Deposed(m, o)) = OwnersOf(m) \ {o}
         /\ o \in DOMAIN m => Deposed(m, o)[o] = m[o] \ {Owner} /\ Deposed(m, o)[o] \in SUBSET AllFlags
         /\ o \in DOMAIN m => Deposed(m, o) = Flagged(m, o, Deposed(m, o)[o])
         /\ o \notin DOMAIN m => Deposed(m, o) = m
<1>1. m \in [DOMAIN m -> SUBSET AllFlags] /\ DOMAIN m \subseteq Players
  BY RowsElim
<1>2. Deposed(m, o) \in [DOMAIN m -> SUBSET AllFlags]
  BY <1>1 DEF Deposed
<1>3. Deposed(m, o) \in MemberRows
  BY <1>1, <1>2, RowsIntro
<1>4. OwnersOf(Deposed(m, o)) = OwnersOf(m) \ {o}
  BY DEF OwnersOf, Deposed
<1>5. ASSUME o \in DOMAIN m
      PROVE  /\ Deposed(m, o)[o] = m[o] \ {Owner}
             /\ Deposed(m, o) = Flagged(m, o, Deposed(m, o)[o])
  <2>1. Deposed(m, o)[o] = m[o] \ {Owner}
    BY <1>5 DEF Deposed
  <2> DEFINE f == m[o] \ {Owner}
  <2>2. Flagged(m, o, f) = [q \in DOMAIN m |-> IF q = o THEN f ELSE m[q]]
    BY <1>1 DEF Flagged
  <2> QED BY <2>1, <2>2 DEF Deposed
<1>6. ASSUME o \notin DOMAIN m PROVE Deposed(m, o) = m
  <2>1. m = [q \in DOMAIN m |-> m[q]]
    BY <1>1
  <2> QED BY <1>6, <2>1 DEF Deposed
<1> QED BY <1>2, <1>3, <1>4, <1>5, <1>6

\* The rows after SetOwner took the old owner's flag away.
DeposedRows(m, r, o) == IF o \in DOMAIN m THEN Flagged(r, o, Deposed(m, o)[o]) ELSE r

LEMMA DeposedRowsAre ==
  ASSUME NEW m \in MemberRows, NEW r \in MemberRows, NEW o
  PROVE  /\ DeposedRows(m, r, o) \in MemberRows
         /\ Agree(m, r) => Agree(m, DeposedRows(m, r, o))
         /\ Agree(m, r) => Agree(Deposed(m, o), DeposedRows(m, r, o))
         /\ m = r => Deposed(m, o) = DeposedRows(m, r, o)
<1>1. CASE o \notin DOMAIN m
  BY <1>1, DeposedIs DEF DeposedRows
<1>2. CASE o \in DOMAIN m
  <2> DEFINE f == Deposed(m, o)[o]
  <2>1. f = m[o] \ {Owner} /\ f \in SUBSET AllFlags /\ Deposed(m, o) = Flagged(m, o, f)
    BY <1>2, DeposedIs
  <2>2. DeposedRows(m, r, o) = Flagged(r, o, f)
    BY <1>2 DEF DeposedRows
  <2> HIDE DEF f
  <2>3. f \ {Owner} = m[o] \ {Owner}
    BY <2>1
  <2>4. Flagged(r, o, f) \in MemberRows
    BY <2>1, FlaggedIs
  <2>5. Agree(m, r) => Agree(m, Flagged(r, o, f))
    BY <2>1, <2>3, FlaggedRightAgrees
  <2>6. Agree(m, r) => Agree(Flagged(m, o, f), Flagged(r, o, f))
    BY <2>1, FlaggedAgree
  <2> QED BY <2>1, <2>2, <2>4, <2>5, <2>6
<1> QED BY <1>1, <1>2

LEMMA SetOwnerWrites ==
  ASSUME ChatTypeOK, DroppedIsEmpty, NEW p \in Players, SetOwner(p)
  PROVE  UNCHANGED <<objs, db, torn>> \/ MemberWrite(req[p].obj)
<1> DEFINE k == req[p].obj
           t == req[p].target
           ch == objs[k]
           m == ch.members
           o == ch.owner
           r == db.members[ch.id]
           w == Changed(ch, o, Deposed(m, o))
           s == DeposedRows(m, r, o)
<1> SUFFICES ASSUME ~UNCHANGED <<objs, db, torn>>
             PROVE  MemberWrite(k)
  OBVIOUS
<1>1. k \in 1..Len(objs)
  BY HeldObject DEF SetOwner, Doing
<1>2. ch \in Objects /\ db \in DbStates /\ ch.id \in Ids
  BY <1>1, ObjIsTyped, ObjectFields DEF ChatTypeOK
<1>3. r \in MemberRows /\ m \in MemberRows /\ o \in Players \cup {Nil}
  BY <1>2, ObjectFields, DbFields
<1>4. WithoutOwner(ch) = w
  <2> HIDE DEF ch
  <2> QED BY <1>2, OwnerForm DEF WithoutOwner
<1>5. /\ w \in Objects /\ w.id = ch.id /\ w.banned = ch.banned
      /\ w.members = Deposed(m, o)
  <2> DEFINE x == Deposed(m, o)
  <2>1. x \in MemberRows
    BY <1>3, DeposedIs
  <2> HIDE DEF x, o, ch
  <2>2. /\ Changed(ch, o, x) \in Objects
        /\ Changed(ch, o, x).id = ch.id
        /\ Changed(ch, o, x).banned = ch.banned
        /\ Changed(ch, o, x).owner = o
        /\ Changed(ch, o, x).members = x
    BY <1>2, <1>3, <2>1, ChangedIs
  <2> QED BY <2>2 DEF x
<1>6. DOMAIN Deposed(m, o) = DOMAIN m /\ OwnersOf(Deposed(m, o)) = OwnersOf(m) \ {o}
  BY <1>3, DeposedIs
<1>7. /\ s \in MemberRows
      /\ Agree(m, r) => Agree(m, s) /\ Agree(Deposed(m, o), s)
      /\ m = r => Deposed(m, o) = s
  BY <1>3, DeposedRowsAre
<1>8. WithoutOwnerRow(db, ch) = Stored(db, ch.id, s)
  <2>1. CASE o \in DOMAIN m
    <3> DEFINE f == Deposed(m, o)[o]
    <3>1. f \in SUBSET AllFlags
      BY <1>3, <2>1, DeposedIs
    <3>2. w.members[o] = f
      BY <1>5
    <3>3. s = Flagged(r, o, f)
      BY <2>1 DEF DeposedRows
    <3> HIDE DEF f, w, s
    <3>4. UpdateMemberFlags(db, ch.id, o, f) = Stored(db, ch.id, Flagged(r, o, f))
      BY <1>2, <3>1, UpdateIs
    <3> QED BY <1>4, <2>1, <3>2, <3>3, <3>4 DEF WithoutOwnerRow
  <2>2. CASE o \notin DOMAIN m
    <3>1. s = r
      BY <2>2 DEF DeposedRows
    <3> QED BY <1>2, <2>2, <3>1, StoredSame DEF WithoutOwnerRow
  <2> QED BY <2>1, <2>2
<1> HIDE DEF s, w
<1>9. /\ t \in DOMAIN m
      /\ \/ /\ objs' = [objs EXCEPT ![k] = Crowned(w, t)]
            /\ db' = UpdateMemberFlags(Stored(db, ch.id, s), ch.id, t, Crowned(w, t).members[t])
            /\ torn' = torn \cup DroppedMark(k)
         \/ /\ db' = Stored(db, ch.id, s) /\ torn' = torn \cup {"owner"}
            /\ UNCHANGED objs
  BY <1>4, <1>8 DEF SetOwner
<1>10. t \in DOMAIN w.members
  BY <1>5, <1>6, <1>9
<1> DEFINE f == w.members[t] \cup {Owner}
<1>11. /\ Crowned(w, t) \in Objects /\ Crowned(w, t).id = ch.id /\ Crowned(w, t).banned = ch.banned
       /\ Crowned(w, t).owner = t /\ Crowned(w, t).members[t] = f /\ f \in SUBSET AllFlags
  BY <1>5, <1>10, CrownedIs
<1> HIDE DEF f, t
<1>13. CASE /\ objs' = [objs EXCEPT ![k] = Crowned(w, t)]
            /\ db' = UpdateMemberFlags(Stored(db, ch.id, s), ch.id, t, Crowned(w, t).members[t])
            /\ torn' = torn \cup DroppedMark(k)
  <2>1. db' = Stored(db, ch.id, Flagged(s, t, f)) /\ Flagged(s, t, f) \in MemberRows
    BY <1>2, <1>7, <1>11, <1>13, WriteForms
  <2>2. Agree(m, r) => Agree(Crowned(w, t).members, Flagged(s, t, f))
    BY <1>5, <1>7, <1>10, CrownedKeeps DEF f
  <2>3. ASSUME m = r, Owned(ch) PROVE Crowned(w, t).members = Flagged(s, t, f) /\ Owned(Crowned(w, t))
    <3>1. OwnersOf(w.members) = {}
      BY <1>5, <1>6, <1>9, <2>3 DEF Owned
    <3>2. w.members = s
      BY <1>5, <1>7, <2>3
    <3>3. Crowned(w, t).members = Flagged(s, t, f) /\ OwnersOf(Crowned(w, t).members) = {t}
      BY <1>5, <1>7, <1>10, <3>1, <3>2, CrownedKeeps DEF f
    <3> QED BY <1>11, <3>3 DEF Owned
  <2> HIDE DEF ch, r
  <2>4. Keeps(ch, r, Crowned(w, t), Flagged(s, t, f), "owner" \notin torn')
    BY <1>11, <2>2, <2>3 DEF Keeps
  <2>5. torn' \subseteq Faults
    BY <1>13, DroppedMarkIs
  <2> QED BY <1>11, <1>13, <2>1, <2>4, <2>5 DEF MemberWrite, ch, r
<1>14. CASE db' = Stored(db, ch.id, s) /\ torn' = torn \cup {"owner"} /\ UNCHANGED objs
  <2>1. Keeps(ch, r, ch, s, "owner" \notin torn')
    BY <1>7, <1>14 DEF Keeps
  <2>2. torn' \subseteq Faults
    BY <1>14 DEF ChatTypeOK, Faults
  <2>3. torn \cup DroppedMark(k) \subseteq torn'
    BY <1>1, <1>9, <1>14 DEF DroppedIsEmpty, DroppedMark
  <2>4. objs' = [objs EXCEPT ![k] = ch]
    BY <1>1, <1>14 DEF ChatTypeOK
  <2> QED BY <1>2, <1>7, <1>14, <2>1, <2>2, <2>3, <2>4 DEF MemberWrite
<1> QED BY <1>9, <1>13, <1>14

LEMMA TransferWrites ==
  ASSUME ChatTypeOK, NEW p \in Players, TransferOwnershipOnLogout(p)
  PROVE  UNCHANGED <<objs, db, torn>> \/ (active \in 1..Len(objs) /\ MemberWrite(active))
<1> DEFINE k == active
           ch == objs[k]
           m == ch.members
           o == ch.owner
           r == db.members[ch.id]
           mine == m[p] \ {Owner}
           others == Restrict(m, DOMAIN m \ {p})
           rest == Changed(ch, o, Flagged(m, p, mine))
           s == Flagged(r, p, mine)
<1> SUFFICES ASSUME ~UNCHANGED <<objs, db, torn>>
             PROVE  active \in 1..Len(objs) /\ MemberWrite(k)
  OBVIOUS
<1>1. /\ active # Nil /\ p \in DOMAIN m /\ Owner \in m[p]
      /\ \E n \in Heirs(others) :
            \/ Crown(k, [ch EXCEPT !.members[p] = mine], UpdateMemberFlags(db, ch.id, p, mine), n)
            \/ /\ objs' = [objs EXCEPT ![k] = Crowned([ch EXCEPT !.members[p] = mine], n)]
               /\ db' = UpdateMemberFlags(db, ch.id, n, ch.members[n] \cup {Owner})
               /\ torn' = torn \cup {"owner"}
  BY DEF TransferOwnershipOnLogout
<1>2. k \in 1..Len(objs)
  BY <1>1 DEF ChatTypeOK
<1>3. ch \in Objects /\ db \in DbStates /\ ch.id \in Ids
  BY <1>2, ObjIsTyped, ObjectFields DEF ChatTypeOK
<1>4. r \in MemberRows /\ m \in MemberRows /\ o \in Players \cup {Nil}
  BY <1>3, ObjectFields, DbFields
<1>5. mine \in SUBSET AllFlags /\ mine \ {Owner} = m[p] \ {Owner} /\ Owner \notin mine
  BY <1>1, <1>4, FlagOf
<1>6. Heirs(others) \subseteq DOMAIN m \ {p}
  BY <1>4, HeirsAreMembers, WithoutIs DEF Without
<1>7. PICK n \in DOMAIN m \ {p} :
            \/ Crown(k, [ch EXCEPT !.members[p] = mine], UpdateMemberFlags(db, ch.id, p, mine), n)
            \/ /\ objs' = [objs EXCEPT ![k] = Crowned([ch EXCEPT !.members[p] = mine], n)]
               /\ db' = UpdateMemberFlags(db, ch.id, n, ch.members[n] \cup {Owner})
               /\ torn' = torn \cup {"owner"}
  BY <1>1, <1>6
<1> HIDE DEF mine
<1>8. [ch EXCEPT !.members[p] = mine] = rest
  BY <1>3, FlagForm
<1>9. UpdateMemberFlags(db, ch.id, p, mine) = Stored(db, ch.id, s) /\ s \in MemberRows
  BY <1>3, <1>4, <1>5, UpdateIs, FlaggedIs
<1>10. /\ Flagged(m, p, mine) \in MemberRows
       /\ DOMAIN Flagged(m, p, mine) = DOMAIN m
       /\ \A q \in DOMAIN m : Flagged(m, p, mine)[q] = IF q = p THEN mine ELSE m[q]
  BY <1>4, <1>5, FlaggedIs
<1>11. /\ rest \in Objects /\ rest.id = ch.id /\ rest.banned = ch.banned
       /\ rest.members = Flagged(m, p, mine)
  <2> DEFINE x == Flagged(m, p, mine)
  <2>1. x \in MemberRows
    BY <1>10
  <2>2. rest = Changed(ch, o, x)
    OBVIOUS
  <2> HIDE DEF x, o, ch, rest
  <2>3. /\ rest \in Objects /\ rest.id = ch.id /\ rest.banned = ch.banned
        /\ rest.owner = o /\ rest.members = x
    BY <1>3, <1>4, <2>1, <2>2 DEF Changed, Objects
  <2> QED BY <2>3 DEF x
<1>12. n \in DOMAIN rest.members /\ rest.members[n] = m[n]
  BY <1>10, <1>11
<1>13. Agree(m, r) => Agree(rest.members, s) /\ Agree(rest.members, r)
  BY <1>4, <1>5, <1>11, FlaggedAgree, FlaggedLeftAgrees
<1>14. OwnersOf(rest.members) = OwnersOf(m) \ {p}
  BY <1>1, <1>4, <1>5, <1>11, FlaggedOwners
<1> HIDE DEF rest, s
<1>15. CASE Crown(k, rest, Stored(db, ch.id, s), n)
  <2>1. Keeps(ch, r, rest, s, FALSE)
    BY <1>11, <1>13 DEF Keeps
  <2>2. ASSUME m = r, Owned(ch) PROVE rest.members = s /\ OwnersOf(rest.members) = {}
    <3>1. rest.members = s
      BY <1>11, <2>2 DEF s
    <3>2. p \in OwnersOf(m)
      BY <1>1 DEF OwnersOf
    <3> QED BY <1>1, <1>14, <2>2, <3>1, <3>2 DEF Owned
  <2>3. Crown(k, rest, Stored(db, rest.id, s), n)
    BY <1>11, <1>15
  <2> QED BY <1>2, <1>9, <1>11, <1>12, <2>1, <2>2, <2>3, CrownWrites
<1>16. CASE /\ objs' = [objs EXCEPT ![k] = Crowned(rest, n)]
            /\ db' = UpdateMemberFlags(db, ch.id, n, m[n] \cup {Owner})
            /\ torn' = torn \cup {"owner"}
  <2> DEFINE f == m[n] \cup {Owner}
  <2>1. f \in SUBSET AllFlags
    BY <1>4, FlagOf
  <2>2. Agree(m, r) => Agree(Crowned(rest, n).members, Flagged(r, n, f))
    BY <1>4, <1>11, <1>12, <1>13, CrownedKeeps
  <2> HIDE DEF f
  <2>3. db' = Stored(db, ch.id, Flagged(r, n, f)) /\ Flagged(r, n, f) \in MemberRows
    BY <1>3, <1>4, <1>16, <2>1, UpdateIs, FlaggedIs DEF f
  <2>4. Crowned(rest, n) \in Objects /\ Crowned(rest, n).id = ch.id /\ Crowned(rest, n).banned = ch.banned
    BY <1>11, <1>12, CrownedIs
  <2>5. Keeps(ch, r, Crowned(rest, n), Flagged(r, n, f), "owner" \notin torn')
    BY <1>16, <2>2, <2>4 DEF Keeps
  <2>6. torn' \subseteq Faults
    BY <1>16 DEF ChatTypeOK, Faults
  <2>7. torn \cup DroppedMark(k) \subseteq torn'
    BY <1>16 DEF DroppedMark
  <2> QED BY <1>2, <1>16, <2>3, <2>4, <2>5, <2>6, <2>7 DEF MemberWrite
<1> QED BY <1>7, <1>8, <1>9, <1>15, <1>16

-----------------------------------------------------------------------------
(* Types                                                                   *)

ReqType(held) == [Players -> Requests(held) \cup {Nil}]

LEMMA RequestsGrow ==
  ASSUME NEW h, NEW g, h \subseteq g
  PROVE  Requests(h) \subseteq Requests(g) /\ ReqType(h) \subseteq ReqType(g)
<1>1. Requests(h) \subseteq Requests(g)
  BY DEF Requests
<1> QED BY <1>1 DEF ReqType

LEMMA AskedTypes ==
  ASSUME ChatTypeOK, NEW p \in Players, NEW x,
         x \in Requests(1..Len(objs')) \cup {Nil},
         req' = [req EXCEPT ![p] = x], 1..Len(objs) \subseteq 1..Len(objs')
  PROVE  req' \in ReqType(1..Len(objs'))
<1>1. req \in ReqType(1..Len(objs'))
  BY RequestsGrow DEF ChatTypeOK, ReqType
<1> QED BY <1>1 DEF ReqType

LEMMA DoneTypes ==
  ASSUME ChatTypeOK, NEW p \in Players, Done(p), Len(objs') = Len(objs)
  PROVE  req' \in ReqType(1..Len(objs'))
<1>1. req \in ReqType(1..Len(objs'))
  BY DEF ChatTypeOK, ReqType
<1> QED BY <1>1 DEF Done, ReqType

LEMMA NextOp ==
  ASSUME NEW h, NEW r \in Requests(h), r.op \in Steps, NEW op \in Steps, NEW k \in h
  PROVE  /\ [r EXCEPT !.op = op] \in Requests(h)
         /\ [r EXCEPT !.op = op, !.obj = k] \in Requests(h)
<1>1. "join" \notin Steps /\ "settingsRow" \notin Steps
  BY DEF Steps
<1>2. r \in [op : Steps, obj : h, target : Players]
  BY <1>1 DEF Requests
<1>3. /\ [r EXCEPT !.op = op] \in [op : Steps, obj : h, target : Players]
      /\ [r EXCEPT !.op = op, !.obj = k] \in [op : Steps, obj : h, target : Players]
  BY <1>2
<1> QED BY <1>3 DEF Requests

LEMMA GoesOn ==
  ASSUME ChatTypeOK, NEW p \in Players, req[p] # Nil, req[p].op \in Steps, NEW op \in Steps,
         NEW k \in 1..Len(objs), Len(objs') = Len(objs),
         \/ req' = [req EXCEPT ![p].op = op]
         \/ req' = [req EXCEPT ![p].op = op, ![p].obj = k]
  PROVE  req' \in ReqType(1..Len(objs'))
<1>1. req \in ReqType(1..Len(objs)) /\ req[p] \in Requests(1..Len(objs))
  BY DEF ChatTypeOK, ReqType
<1>2. /\ [req[p] EXCEPT !.op = op] \in Requests(1..Len(objs))
      /\ [req[p] EXCEPT !.op = op, !.obj = k] \in Requests(1..Len(objs))
  BY <1>1, NextOp
<1>3. CASE req' = [req EXCEPT ![p].op = op]
  <2>1. req' = [req EXCEPT ![p] = [req[p] EXCEPT !.op = op]]
    BY <1>3
  <2> QED BY <1>1, <1>2, <2>1 DEF ReqType
<1>4. CASE req' = [req EXCEPT ![p].op = op, ![p].obj = k]
  <2>1. req' = [req EXCEPT ![p] = [req[p] EXCEPT !.op = op, !.obj = k]]
    BY <1>1, <1>4 DEF ReqType
  <2> QED BY <1>1, <1>2, <2>1 DEF ReqType
<1> QED BY <1>3, <1>4

\* An object with the same id, members and owner takes the place of object k.
LEMMA ObjectStep ==
  ASSUME ChatTypeOK, NEW k \in 1..Len(objs), NEW new \in Objects, objs' = [objs EXCEPT ![k] = new]
  PROVE  /\ objs' \in Seq(Objects) /\ Len(objs') = Len(objs)
         /\ \A i \in 1..Len(objs) : objs'[i] = IF i = k THEN new ELSE objs[i]
  BY DEF ChatTypeOK

\* The object that is loaded.
LEMMA LoadIs ==
  ASSUME NEW d \in DbStates, d.row # Nil, NEW o \in LastOwner(d)
  PROVE  /\ LoadChannel(d, o) \in Objects
         /\ LoadChannel(d, o).id = d.row.id
         /\ LoadChannel(d, o).members = d.members[d.row.id]
         /\ LoadChannel(d, o).banned = d.bans[d.row.id]
         /\ LoadChannel(d, o).owner = o
         /\ d.row.id \in Ids /\ d.members[d.row.id] \in MemberRows
<1>1. d.row \in DbRows /\ d.members \in [Ids -> MemberRows] /\ d.bans \in [Ids -> SUBSET Players]
  BY DbFields
<1>2. d.row.id \in Ids /\ d.row.password \in Passwords /\ d.row.announce \in BOOLEAN
  BY <1>1 DEF DbRows
<1>3. d.members[d.row.id] \in MemberRows /\ d.bans[d.row.id] \in SUBSET Players
  BY <1>1, <1>2
<1>4. OwnersOf(d.members[d.row.id]) \subseteq Players
  BY <1>3, RowsElim DEF OwnersOf
<1>5. o \in Players \cup {Nil}
  BY <1>4 DEF LastOwner
<1> QED BY <1>2, <1>3, <1>5 DEF LoadChannel, Objects

LEMMA CreateIs ==
  ASSUME NEW d \in DbStates, d.next \in Ids, NEW pw \in Passwords
  PROVE  /\ CreateChannel(d, pw) \in DbStates
         /\ CreateChannel(d, pw).row # Nil
         /\ CreateChannel(d, pw).row.id = d.next
         /\ CreateChannel(d, pw).next = d.next + 1
         /\ CreateChannel(d, pw).members = d.members
         /\ CreateChannel(d, pw).bans = d.bans
<1>1. d.next \in Ids => d.next + 1 \in 1..MaxId + 1
  BY ChannelAssumption DEF Ids
<1>2. [id |-> d.next, password |-> pw, announce |-> TRUE, fresh |-> TRUE] \in DbRows
  BY DEF DbRows
<1> DEFINE x == [id |-> d.next, password |-> pw, announce |-> TRUE, fresh |-> TRUE]
           y == d.next + 1
           e == CreateChannel(d, pw)
<1>3. e = [d EXCEPT !.row = x, !.next = y]
  BY DEF CreateChannel
<1>4. x \in DbRows /\ y \in 1..MaxId + 1 /\ x.id = d.next
  BY <1>1, <1>2
<1> HIDE DEF x, y, e
<1>5. e \in DbStates /\ e.row = x /\ e.next = y /\ e.members = d.members /\ e.bans = d.bans
  BY <1>3, <1>4 DEF DbStates
<1>6. x # Nil
  BY <1>4, ChannelAssumption
<1> QED BY <1>4, <1>5, <1>6 DEF e, y

-----------------------------------------------------------------------------
(* Steps that leave the members alone                                      *)

SameMembers(new, ch) ==
    new \in Objects /\ new.id = ch.id /\ new.members = ch.members /\ new.owner = ch.owner

SameRows(e, d) ==
    /\ e \in DbStates
    /\ e.members = d.members /\ e.next = d.next
    /\ e.row = Nil <=> d.row = Nil
    /\ d.row # Nil => e.row.id = d.row.id

Quiet ==
    /\ objs' \in Seq(Objects) /\ Len(objs') = Len(objs)
    /\ \A i \in 1..Len(objs) : SameMembers(objs'[i], objs[i])
    /\ SameRows(db', db)
    /\ active' = active
    /\ torn \subseteq torn'

LEMMA QuietKeeps ==
  ASSUME ChatTypeOK, ChannelInv, Quiet
  PROVE  ChannelInv'
<1>1. \A i \in 1..Len(objs) : objs'[i].id = objs[i].id /\ objs'[i].members = objs[i].members
                              /\ objs'[i].owner = objs[i].owner
  BY DEF Quiet, SameMembers
<1>2. Len(objs') = Len(objs) /\ active' = active /\ torn \subseteq torn'
  BY DEF Quiet
<1>3. /\ db'.members = db.members /\ db'.next = db.next
      /\ db'.row = Nil <=> db.row = Nil
      /\ db.row # Nil => db'.row.id = db.row.id
  BY DEF Quiet, SameRows
<1>4. active # Nil => active \in 1..Len(objs)
  BY DEF ChatTypeOK
<1>5. active # Nil => /\ objs'[active].id = objs[active].id
                      /\ objs'[active].members = objs[active].members
                      /\ objs'[active].owner = objs[active].owner
  BY <1>1, <1>4
<1>6. DroppedIsEmpty'
  BY <1>1, <1>2 DEF ChannelInv, DroppedIsEmpty
<1>7. IdsAreOrdered'
  <2>1. \A k \in 1..Len(objs') : objs'[k].id < db'.next
    BY <1>1, <1>2, <1>3 DEF ChannelInv, IdsAreOrdered
  <2>2. \A i \in Ids : i >= db'.next => DOMAIN db'.members[i] = {}
    BY <1>3 DEF ChannelInv, IdsAreOrdered
  <2>3. db'.row # Nil => db'.row.id < db'.next
    BY <1>3 DEF ChannelInv, IdsAreOrdered
  <2>4. active # Nil /\ db'.row # Nil => objs'[active].id = db'.row.id
    BY <1>3, <1>5 DEF ChannelInv, IdsAreOrdered
  <2> QED BY <1>2, <2>1, <2>2, <2>3, <2>4 DEF IdsAreOrdered
<1>8. AgreesWithDb'
  BY <1>2, <1>3, <1>5 DEF ChannelInv, AgreesWithDb
<1>9. RowsAreMembers'
  <2>1. ASSUME active # Nil, torn' \cap {"dropped", "owner"} = {}
        PROVE  objs'[active].members = db'.members[objs'[active].id]
    BY <1>2, <1>3, <1>5, <2>1 DEF ChannelInv, RowsAreMembers
  <2>2. ASSUME active = Nil, db'.row # Nil, torn' \cap {"dropped", "owner"} = {}
        PROVE  DOMAIN db'.members[db'.row.id] = {}
    BY <1>2, <1>3, <2>2 DEF ChannelInv, RowsAreMembers
  <2> QED BY <1>2, <2>1, <2>2 DEF RowsAreMembers
<1>10. OneOwner'
  BY <1>2, <1>5 DEF ChannelInv, OneOwner
<1> QED BY <1>6, <1>7, <1>8, <1>9, <1>10 DEF ChannelInv

LEMMA ObjectQuiet ==
  ASSUME ChatTypeOK, NEW k \in 1..Len(objs), NEW new, SameMembers(new, objs[k]),
         objs' = [objs EXCEPT ![k] = new]
  PROVE  /\ objs' \in Seq(Objects) /\ Len(objs') = Len(objs)
         /\ \A i \in 1..Len(objs) : SameMembers(objs'[i], objs[i])
         /\ objs'[k] = new
         /\ \A i \in 1..Len(objs) : i # k => objs'[i] = objs[i]
<1>1. new \in Objects
  BY DEF SameMembers
<1>2. /\ objs' \in Seq(Objects) /\ Len(objs') = Len(objs)
      /\ \A i \in 1..Len(objs) : objs'[i] = IF i = k THEN new ELSE objs[i]
  BY <1>1, ObjectStep
<1>3. ASSUME NEW i \in 1..Len(objs) PROVE SameMembers(objs'[i], objs[i])
  <2>1. CASE i = k
    BY <1>2, <2>1
  <2>2. CASE i # k
    BY <1>2, <2>2, ObjIsTyped DEF SameMembers
  <2> QED BY <2>1, <2>2
<1> QED BY <1>2, <1>3

LEMMA ObjectsUnchanged ==
  ASSUME ChatTypeOK, UNCHANGED objs
  PROVE  /\ objs' \in Seq(Objects) /\ Len(objs') = Len(objs)
         /\ \A i \in 1..Len(objs) : SameMembers(objs'[i], objs[i])
  BY ObjIsTyped DEF ChatTypeOK, SameMembers

LEMMA DbUnchanged ==
  ASSUME ChatTypeOK, UNCHANGED db
  PROVE  SameRows(db', db)
  BY DEF ChatTypeOK, SameRows

LEMMA FieldForms ==
  ASSUME NEW ch \in Objects
  PROVE  /\ \A b \in SUBSET Players : SameMembers([ch EXCEPT !.banned = b], ch)
                                      /\ [ch EXCEPT !.banned = b].banned = b
         /\ \A w \in Passwords : SameMembers([ch EXCEPT !.password = w], ch)
                                 /\ [ch EXCEPT !.password = w].banned = ch.banned
         /\ \A a \in BOOLEAN : SameMembers([ch EXCEPT !.announce = a], ch)
                               /\ [ch EXCEPT !.announce = a].banned = ch.banned
         /\ \A a \in BOOLEAN : SameMembers([ch EXCEPT !.moderation = a], ch)
                               /\ [ch EXCEPT !.moderation = a].banned = ch.banned
  BY DEF Objects, SameMembers

LEMMA RowForm ==
  ASSUME NEW d \in DbStates, d.row # Nil, NEW x \in DbRows, x.id = d.row.id,
         NEW e, e = [d EXCEPT !.row = x]
  PROVE  SameRows(e, d) /\ e.row = x /\ e.bans = d.bans
<1>1. x # Nil
  BY ChannelAssumption
<1>2. e \in DbStates /\ e.row = x /\ e.bans = d.bans /\ e.members = d.members /\ e.next = d.next
  BY DEF DbStates
<1> QED BY <1>1, <1>2 DEF SameRows

\* The rest of the state, in every step that leaves the members alone.
LEMMA QuietTypes ==
  ASSUME ChatTypeOK, Quiet, req' \in ReqType(1..Len(objs')), online' \subseteq Players,
         logouts' \subseteq Players, confirmed' \subseteq Players, torn' \subseteq Faults
  PROVE  ChatTypeOK'
  BY DEF ChatTypeOK, Quiet, SameRows, ReqType

\* Bans, ids and what is loaded stay as they are.
SameBans ==
    /\ Len(objs') = Len(objs)
    /\ \A i \in 1..Len(objs) : objs'[i].id = objs[i].id /\ objs'[i].banned = objs[i].banned
    /\ db'.row = Nil <=> db.row = Nil
    /\ db.row # Nil => db'.row.id = db.row.id
    /\ db'.bans = db.bans
    /\ active' = active
    /\ confirmed' = confirmed
    /\ torn \subseteq torn'

LEMMA SameBansKeep ==
  ASSUME ChatTypeOK, BansAreStored, SameBans, objs' \in Seq(Objects)
  PROVE  BansAreStored'
<1> SUFFICES ASSUME torn' \cap {"dropped", "cleaned"} = {}
             PROVE  /\ db'.row = Nil => confirmed' = {} /\ objs' = <<>>
                    /\ db'.row # Nil => /\ confirmed' \subseteq db'.bans[db'.row.id]
                                        /\ \A k \in 1..Len(objs') : objs'[k].id = db'.row.id
                    /\ active' # Nil => confirmed' \subseteq objs'[active'].banned
  BY DEF BansAreStored
<1>1. torn \cap {"dropped", "cleaned"} = {}
  BY DEF SameBans
<1>2. ASSUME db'.row = Nil PROVE confirmed' = {} /\ objs' = <<>>
  <2>1. db.row = Nil /\ objs = <<>> /\ confirmed = {}
    BY <1>1, <1>2 DEF BansAreStored, SameBans
  <2>2. Len(objs') = 0
    BY <2>1 DEF SameBans
  <2> QED BY <2>1, <2>2 DEF SameBans
<1>3. ASSUME db'.row # Nil
      PROVE  /\ confirmed' \subseteq db'.bans[db'.row.id]
             /\ \A k \in 1..Len(objs') : objs'[k].id = db'.row.id
  BY <1>1, <1>3 DEF BansAreStored, SameBans
<1>4. ASSUME active' # Nil PROVE confirmed' \subseteq objs'[active'].banned
  <2>1. active \in 1..Len(objs) /\ active' = active
    BY <1>4 DEF ChatTypeOK, SameBans
  <2> QED BY <1>1, <1>4, <2>1 DEF BansAreStored, SameBans
<1> QED BY <1>2, <1>3, <1>4

\* An operation on members, refused, failed or done.
LEMMA Operation ==
  ASSUME ChatTypeOK, ChannelInv, BansAreStored, NEW k \in 1..Len(objs),
         UNCHANGED <<objs, db, torn>> \/ MemberWrite(k),
         UNCHANGED <<active, confirmed>>, online' \subseteq Players, logouts' \subseteq Players,
         Len(objs') = Len(objs) => req' \in ReqType(1..Len(objs'))
  PROVE  ChatTypeOK' /\ ChannelInv' /\ BansAreStored'
<1>1. CASE UNCHANGED <<objs, db, torn>>
  <2>1. Quiet
    BY <1>1, ObjectsUnchanged, DbUnchanged DEF Quiet
  <2>2. SameBans
    BY <1>1 DEF SameBans
  <2>3. ChatTypeOK'
    BY <1>1, <2>1, QuietTypes DEF ChatTypeOK
  <2>4. objs' \in Seq(Objects)
    BY <2>1 DEF Quiet
  <2> QED BY <2>1, <2>2, <2>3, <2>4, QuietKeeps, SameBansKeep
<1>2. CASE MemberWrite(k)
  <2>1. /\ objs' \in Seq(Objects) /\ Len(objs') = Len(objs)
        /\ db' \in DbStates
        /\ torn' \subseteq Faults
        /\ db'.row = db.row /\ db'.next = db.next /\ db'.bans = db.bans
        /\ \A i \in 1..Len(objs) : objs'[i].id = objs[i].id /\ objs'[i].banned = objs[i].banned
        /\ torn \subseteq torn'
    BY <1>2, MemberWriteTypes
  <2>2. ChatTypeOK'
    BY <2>1 DEF ChatTypeOK, ReqType
  <2>3. SameBans
    BY <2>1 DEF SameBans
  <2> QED BY <1>2, <2>1, <2>2, <2>3, MemberWriteKeeps, SameBansKeep
<1> QED BY <1>1, <1>2

LEMMA JoinStep ==
  ASSUME ChatTypeOK, ChannelInv, BansAreStored, NEW p \in Players, JoinChannel(p)
  PROVE  ChatTypeOK' /\ ChannelInv' /\ BansAreStored'
<1>1. req[p].obj \in 1..Len(objs)
  BY HeldObject DEF JoinChannel, Doing
<1>2. UNCHANGED <<active, confirmed, online, logouts>> /\ Done(p)
  BY DEF JoinChannel
<1> QED BY <1>1, <1>2, JoinWrites, DoneTypes, Operation DEF ChatTypeOK

LEMMA SetFlagStep ==
  ASSUME ChatTypeOK, ChannelInv, BansAreStored, NEW p \in Players, SetFlag(p)
  PROVE  ChatTypeOK' /\ ChannelInv' /\ BansAreStored'
<1>1. req[p].obj \in 1..Len(objs)
  BY HeldObject DEF SetFlag, Doing
<1>2. UNCHANGED <<active, confirmed, online, logouts>> /\ Done(p)
  BY DEF SetFlag
<1> QED BY <1>1, <1>2, SetFlagWrites, DoneTypes, Operation DEF ChatTypeOK

LEMMA SetOwnerStep ==
  ASSUME ChatTypeOK, ChannelInv, BansAreStored, NEW p \in Players, SetOwner(p)
  PROVE  ChatTypeOK' /\ ChannelInv' /\ BansAreStored'
<1>1. req[p].obj \in 1..Len(objs)
  BY HeldObject DEF SetOwner, Doing
<1>2. UNCHANGED <<active, confirmed, online, logouts>> /\ Done(p)
  BY DEF SetOwner
<1>3. UNCHANGED <<objs, db, torn>> \/ MemberWrite(req[p].obj)
  BY SetOwnerWrites DEF ChannelInv
<1> QED BY <1>1, <1>2, <1>3, DoneTypes, Operation DEF ChatTypeOK

LEMMA LeaveOrKickStep ==
  ASSUME ChatTypeOK, ChannelInv, BansAreStored, NEW p \in Players, LeaveOrKick(p)
  PROVE  ChatTypeOK' /\ ChannelInv' /\ BansAreStored'
<1>1. req[p].obj \in 1..Len(objs)
  BY HeldObject DEF LeaveOrKick, Doing
<1>2. UNCHANGED <<active, confirmed, online, logouts>> /\ Done(p)
  BY DEF LeaveOrKick
<1>3. UNCHANGED <<objs, db, torn>> \/ MemberWrite(req[p].obj)
  BY <1>1, LeaveWrites DEF LeaveOrKick, LeaveChannelFails
<1> QED BY <1>1, <1>2, <1>3, DoneTypes, Operation DEF ChatTypeOK

LEMMA BanKickStep ==
  ASSUME ChatTypeOK, ChannelInv, BansAreStored, NEW p \in Players, BanKick(p)
  PROVE  ChatTypeOK' /\ ChannelInv' /\ BansAreStored'
<1>1. req[p].obj \in 1..Len(objs)
  BY HeldObject DEF BanKick, Doing
<1>2. UNCHANGED <<active, confirmed, online, logouts>> /\ req' = [req EXCEPT ![p].op = "banMemory"]
  BY DEF BanKick
<1>3. UNCHANGED <<objs, db, torn>> \/ MemberWrite(req[p].obj)
  BY <1>1, LeaveWrites DEF BanKick, LeaveChannelFails
<1>4. req[p] # Nil /\ req[p].op \in Steps /\ "banMemory" \in Steps
  BY DEF BanKick, Doing, Steps
<1>5. Len(objs') = Len(objs) => req' \in ReqType(1..Len(objs'))
  BY <1>1, <1>2, <1>4, GoesOn
<1> QED BY <1>1, <1>2, <1>3, <1>5, Operation DEF ChatTypeOK

LEMMA TransferStep ==
  ASSUME ChatTypeOK, ChannelInv, BansAreStored, NEW p \in Players, TransferOwnershipOnLogout(p)
  PROVE  ChatTypeOK' /\ ChannelInv' /\ BansAreStored'
<1>1. UNCHANGED <<active, confirmed, online, req>> /\ logouts' \subseteq Players
  BY DEF TransferOwnershipOnLogout, ChatTypeOK
<1>2. Len(objs') = Len(objs) => req' \in ReqType(1..Len(objs'))
  BY <1>1 DEF ChatTypeOK, ReqType
<1>3. CASE UNCHANGED <<objs, db, torn>>
  <2>1. Quiet
    BY <1>1, <1>3, ObjectsUnchanged, DbUnchanged DEF Quiet
  <2>2. SameBans
    BY <1>1, <1>3 DEF SameBans
  <2>3. ChatTypeOK'
    BY <1>1, <1>2, <1>3, <2>1, QuietTypes DEF ChatTypeOK
  <2>4. objs' \in Seq(Objects)
    BY <2>1 DEF Quiet
  <2> QED BY <2>1, <2>2, <2>3, <2>4, QuietKeeps, SameBansKeep
<1>4. CASE active \in 1..Len(objs) /\ MemberWrite(active)
  BY <1>1, <1>2, <1>4, Operation DEF ChatTypeOK
<1> QED BY <1>3, <1>4, TransferWrites

LEMMA AskStep ==
  ASSUME ChatTypeOK, ChannelInv, BansAreStored, NEW p \in Players, NEW x,
         x \in Requests(1..Len(objs)), Asks(p, x), UNCHANGED <<active, objs, db>>
  PROVE  ChatTypeOK' /\ ChannelInv' /\ BansAreStored'
<1>1. UNCHANGED <<online, logouts, confirmed, torn>> /\ req' = [req EXCEPT ![p] = x]
  BY DEF Asks
<1>2. req' \in ReqType(1..Len(objs'))
  BY <1>1, AskedTypes
<1>3. Quiet
  BY <1>1, ObjectsUnchanged, DbUnchanged DEF Quiet
<1>4. SameBans
  BY <1>1 DEF SameBans
<1>5. objs' \in Seq(Objects)
  BY <1>3 DEF Quiet
<1> QED BY <1>1, <1>2, <1>3, <1>4, <1>5, QuietTypes, QuietKeeps, SameBansKeep DEF ChatTypeOK

LEMMA AskLeaveStep ==
  ASSUME ChatTypeOK, ChannelInv, BansAreStored, NEW p \in Players, AskLeave(p)
  PROVE  ChatTypeOK' /\ ChannelInv' /\ BansAreStored'
<1>1. active \in 1..Len(objs)
  BY DEF AskLeave, ChatTypeOK
<1> DEFINE x == [op |-> "leave", obj |-> active, target |-> p]
<1>2. x \in Requests(1..Len(objs))
  BY <1>1 DEF Requests, Steps
<1>3. Asks(p, x) /\ UNCHANGED <<active, objs, db>>
  BY DEF AskLeave
<1> HIDE DEF x
<1> QED BY <1>2, <1>3, AskStep

LEMMA AskModerateStep ==
  ASSUME ChatTypeOK, ChannelInv, BansAreStored, NEW p \in Players, NEW t \in Players,
         NEW op \in Moderations \cup {"password", "announce"}, AskModerate(p, op, t)
  PROVE  ChatTypeOK' /\ ChannelInv' /\ BansAreStored'
<1>1. active \in 1..Len(objs)
  BY DEF AskModerate, Has, ChatTypeOK
<1> DEFINE x == [op |-> op, obj |-> active, target |-> t]
<1>2. op \in Steps
  BY DEF Moderations, Steps
<1>3. x \in Requests(1..Len(objs))
  BY <1>1, <1>2 DEF Requests
<1>4. Asks(p, x) /\ UNCHANGED <<active, objs, db>>
  BY DEF AskModerate
<1> HIDE DEF x
<1> QED BY <1>3, <1>4, AskStep

\* A request goes on with the settings of an object; or nothing of the
\* channel changes but a field of the object that no member is affected by.
LEMMA SettingsStep ==
  ASSUME ChatTypeOK, ChannelInv, BansAreStored,
         NEW k \in 1..Len(objs), NEW new, SameMembers(new, objs[k]), new.banned = objs[k].banned,
         objs' = [objs EXCEPT ![k] = new],
         Len(objs') = Len(objs) => req' \in ReqType(1..Len(objs')),
         UNCHANGED <<active, online, logouts, db, confirmed, torn>>
  PROVE  ChatTypeOK' /\ ChannelInv' /\ BansAreStored'
<1>1. /\ objs' \in Seq(Objects) /\ Len(objs') = Len(objs)
      /\ \A i \in 1..Len(objs) : SameMembers(objs'[i], objs[i])
      /\ objs'[k] = new
      /\ \A i \in 1..Len(objs) : i # k => objs'[i] = objs[i]
  BY ObjectQuiet
<1>2. Quiet
  BY <1>1, DbUnchanged DEF Quiet
<1>3. \A i \in 1..Len(objs) : objs'[i].id = objs[i].id /\ objs'[i].banned = objs[i].banned
  BY <1>1 DEF SameMembers
<1>4. SameBans
  BY <1>1, <1>3 DEF SameBans
<1> QED BY <1>1, <1>2, <1>4, QuietTypes, QuietKeeps, SameBansKeep DEF ChatTypeOK

LEMMA SetPasswordStep ==
  ASSUME ChatTypeOK, ChannelInv, BansAreStored, NEW p \in Players, SetPassword(p)
  PROVE  ChatTypeOK' /\ ChannelInv' /\ BansAreStored'
<1>1. req[p].obj \in 1..Len(objs)
  BY HeldObject DEF SetPassword, Doing
<1> DEFINE k == req[p].obj
<1>2. PICK pw \in Passwords :
        /\ objs' = [objs EXCEPT ![k] = [objs[k] EXCEPT !.password = pw]]
        /\ req' = [req EXCEPT ![p] = [op |-> "settingsRow", id |-> [objs[k] EXCEPT !.password = pw].id,
                                      copy |-> [objs[k] EXCEPT !.password = pw]]]
  BY DEF SetPassword
<1> DEFINE new == [objs[k] EXCEPT !.password = pw]
           x == [op |-> "settingsRow", id |-> new.id, copy |-> new]
<1>3. objs[k] \in Objects
  BY <1>1, ObjIsTyped
<1>4. SameMembers(new, objs[k]) /\ new.banned = objs[k].banned
  BY <1>3, FieldForms
<1>5. objs' = [objs EXCEPT ![k] = new] /\ req' = [req EXCEPT ![p] = x]
  BY <1>2
<1> HIDE DEF new
<1>6. new \in Objects /\ new.id \in Ids
  BY <1>4, ObjectFields DEF SameMembers
<1>7. x \in Requests(1..Len(objs'))
  BY <1>6 DEF Requests
<1> HIDE DEF x
<1>8. Len(objs') = Len(objs) => req' \in ReqType(1..Len(objs'))
  BY <1>5, <1>7, AskedTypes
<1>9. UNCHANGED <<active, online, logouts, db, confirmed, torn>>
  BY DEF SetPassword
<1> QED BY <1>1, <1>4, <1>5, <1>8, <1>9, SettingsStep

LEMMA ToggleAnnouncementsStep ==
  ASSUME ChatTypeOK, ChannelInv, BansAreStored, NEW p \in Players, ToggleAnnouncements(p)
  PROVE  ChatTypeOK' /\ ChannelInv' /\ BansAreStored'
<1>1. req[p].obj \in 1..Len(objs) /\ req[p] # Nil /\ req[p].op \in Steps /\ "announceCopy" \in Steps
  BY HeldObject DEF ToggleAnnouncements, Doing, Steps
<1> DEFINE k == req[p].obj
           new == [objs[k] EXCEPT !.announce = ~@]
<1>2. objs[k] \in Objects
  BY <1>1, ObjIsTyped
<1>3. SameMembers(new, objs[k]) /\ new.banned = objs[k].banned
  BY <1>2, FieldForms, ObjectFields
<1>4. objs' = [objs EXCEPT ![k] = new] /\ req' = [req EXCEPT ![p].op = "announceCopy"]
      /\ UNCHANGED <<active, online, logouts, db, confirmed, torn>>
  BY DEF ToggleAnnouncements
<1> HIDE DEF new
<1>5. Len(objs') = Len(objs) => req' \in ReqType(1..Len(objs'))
  BY <1>1, <1>4, GoesOn
<1> QED BY <1>1, <1>3, <1>4, <1>5, SettingsStep

LEMMA CopySettingsStep ==
  ASSUME ChatTypeOK, ChannelInv, BansAreStored, NEW p \in Players, CopySettings(p)
  PROVE  ChatTypeOK' /\ ChannelInv' /\ BansAreStored'
<1>1. req[p].obj \in 1..Len(objs)
  BY HeldObject DEF CopySettings, Doing
<1> DEFINE ch == objs[req[p].obj]
           x == [op |-> "settingsRow", id |-> ch.id, copy |-> ch]
<1>2. ch \in Objects /\ ch.id \in Ids
  BY <1>1, ObjIsTyped, ObjectFields
<1>3. UNCHANGED <<active, objs, online, logouts, db, confirmed, torn>> /\ req' = [req EXCEPT ![p] = x]
  BY DEF CopySettings
<1> HIDE DEF ch
<1>4. x \in Requests(1..Len(objs'))
  BY <1>2 DEF Requests
<1> HIDE DEF x
<1>5. req' \in ReqType(1..Len(objs'))
  BY <1>3, <1>4, AskedTypes
<1>6. Quiet
  BY <1>3, ObjectsUnchanged, DbUnchanged DEF Quiet
<1>7. SameBans
  BY <1>3 DEF SameBans
<1>8. objs' \in Seq(Objects)
  BY <1>6 DEF Quiet
<1> QED BY <1>3, <1>5, <1>6, <1>7, <1>8, QuietTypes, QuietKeeps, SameBansKeep DEF ChatTypeOK

LEMMA ToggleModerationStep ==
  ASSUME ChatTypeOK, ChannelInv, BansAreStored, NEW p \in Players, ToggleModeration(p)
  PROVE  ChatTypeOK' /\ ChannelInv' /\ BansAreStored'
<1>1. active \in 1..Len(objs)
  BY DEF ToggleModeration, Has, ChatTypeOK
<1> DEFINE new == [objs[active] EXCEPT !.moderation = ~@]
<1>2. objs[active] \in Objects
  BY <1>1, ObjIsTyped
<1>3. SameMembers(new, objs[active]) /\ new.banned = objs[active].banned
  BY <1>2, FieldForms, ObjectFields
<1>4. objs' = [objs EXCEPT ![active] = new]
      /\ UNCHANGED <<active, req, online, logouts, db, confirmed, torn>>
  BY DEF ToggleModeration
<1>5. Len(objs') = Len(objs) => req' \in ReqType(1..Len(objs'))
  BY <1>4 DEF ChatTypeOK, ReqType
<1> HIDE DEF new
<1> QED BY <1>1, <1>3, <1>4, <1>5, SettingsStep

\* Only the settings of the row, its age, sessions or requests change.
LEMMA RowStep ==
  ASSUME ChatTypeOK, ChannelInv, BansAreStored,
         UNCHANGED <<active, objs, confirmed>>, SameRows(db', db), db'.bans = db.bans,
         torn \subseteq torn', torn' \subseteq Faults,
         online' \subseteq Players, logouts' \subseteq Players, req' \in ReqType(1..Len(objs'))
  PROVE  ChatTypeOK' /\ ChannelInv' /\ BansAreStored'
<1>1. Quiet
  BY ObjectsUnchanged DEF Quiet
<1>2. SameBans
  BY DEF SameBans, SameRows
<1>3. objs' \in Seq(Objects)
  BY <1>1 DEF Quiet
<1> QED BY <1>1, <1>2, <1>3, QuietTypes, QuietKeeps, SameBansKeep DEF ChatTypeOK

LEMMA SettingsRowStep ==
  ASSUME ChatTypeOK, ChannelInv, BansAreStored, NEW p \in Players, SettingsRow(p)
  PROVE  ChatTypeOK' /\ ChannelInv' /\ BansAreStored'
<1>1. UNCHANGED <<active, objs, online, logouts, confirmed>> /\ Done(p)
  BY DEF SettingsRow
<1>2. req' \in ReqType(1..Len(objs'))
  BY <1>1, DoneTypes
<1>3. torn \subseteq torn' /\ torn' \subseteq Faults
  BY DEF SettingsRow, ChatTypeOK, Faults
<1>4. SameRows(db', db) /\ db'.bans = db.bans
  <2>1. CASE UNCHANGED db
    BY <2>1, DbUnchanged
  <2>2. CASE db' # db
    <3> DEFINE id == req[p].id
               ch == req[p].copy
               x == [id |-> id, password |-> ch.password, announce |-> ch.announce, fresh |-> TRUE]
    <3>1. id \in Ids /\ ch \in Objects
      BY DEF SettingsRow, Doing, ChatTypeOK, Requests, Steps
    <3>2. db.row # Nil /\ db.row.id = id /\ db' = [db EXCEPT !.row = x]
      BY <2>2 DEF SettingsRow, UpdateChannel
    <3>3. x \in DbRows /\ x.id = id
      BY <3>1, ObjectFields DEF DbRows
    <3> HIDE DEF x, id, ch
    <3> QED BY <3>2, <3>3, RowForm DEF ChatTypeOK
  <2> QED BY <2>1, <2>2
<1> QED BY <1>1, <1>2, <1>3, <1>4, RowStep DEF ChatTypeOK

\* The row is marked as used, or it ages.
LEMMA FreshForm ==
  ASSUME NEW d \in DbStates, d.row # Nil, NEW a \in BOOLEAN, NEW e, e = [d EXCEPT !.row.fresh = a]
  PROVE  SameRows(e, d) /\ e.bans = d.bans
<1> DEFINE x == [d.row EXCEPT !.fresh = a]
<1>1. d.row \in DbRows
  BY DbFields
<1>2. x \in DbRows /\ x.id = d.row.id
  BY <1>1 DEF DbRows
<1>3. e = [d EXCEPT !.row = x]
  OBVIOUS
<1> HIDE DEF x
<1> QED BY <1>2, <1>3, RowForm

LEMMA SpeakStep ==
  ASSUME ChatTypeOK, ChannelInv, BansAreStored, NEW p \in Players, Speak(p)
  PROVE  ChatTypeOK' /\ ChannelInv' /\ BansAreStored'
<1>1. UNCHANGED <<active, objs, req, online, logouts, confirmed, torn>>
      /\ db.row # Nil /\ db' = [db EXCEPT !.row.fresh = TRUE]
  BY DEF Speak
<1>2. SameRows(db', db) /\ db'.bans = db.bans
  BY <1>1, FreshForm DEF ChatTypeOK
<1>3. req' \in ReqType(1..Len(objs'))
  BY <1>1 DEF ChatTypeOK, ReqType
<1> QED BY <1>1, <1>2, <1>3, RowStep DEF ChatTypeOK

LEMMA RowAgesStep ==
  ASSUME ChatTypeOK, ChannelInv, BansAreStored, RowAges
  PROVE  ChatTypeOK' /\ ChannelInv' /\ BansAreStored'
<1>1. UNCHANGED <<active, objs, req, online, logouts, confirmed, torn>>
      /\ db.row # Nil /\ db' = [db EXCEPT !.row.fresh = FALSE]
  BY DEF RowAges
<1>2. SameRows(db', db) /\ db'.bans = db.bans
  BY <1>1, FreshForm DEF ChatTypeOK
<1>3. req' \in ReqType(1..Len(objs'))
  BY <1>1 DEF ChatTypeOK, ReqType
<1> QED BY <1>1, <1>2, <1>3, RowStep DEF ChatTypeOK

LEMMA SessionStep ==
  ASSUME ChatTypeOK, ChannelInv, BansAreStored, NEW p \in Players, PlayerLogout(p) \/ PlayerLogin(p)
  PROVE  ChatTypeOK' /\ ChannelInv' /\ BansAreStored'
<1>1. UNCHANGED <<active, objs, req, db, confirmed, torn>>
      /\ online' \subseteq Players /\ logouts' \subseteq Players
  BY DEF PlayerLogout, PlayerLogin, ChatTypeOK
<1>2. SameRows(db', db) /\ db'.bans = db.bans
  BY <1>1, DbUnchanged
<1>3. req' \in ReqType(1..Len(objs'))
  BY <1>1 DEF ChatTypeOK, ReqType
<1> QED BY <1>1, <1>2, <1>3, RowStep DEF ChatTypeOK

-----------------------------------------------------------------------------
(* Bans                                                                    *)

\* The bans of the channel in memory change to b.
LEMMA BannedForm ==
  ASSUME ChatTypeOK, active # Nil, NEW b \in SUBSET Players,
         objs' = [objs EXCEPT ![active].banned = b]
  PROVE  /\ objs' \in Seq(Objects) /\ Len(objs') = Len(objs)
         /\ \A i \in 1..Len(objs) : SameMembers(objs'[i], objs[i])
         /\ objs'[active].banned = b
<1>1. active \in 1..Len(objs)
  BY DEF ChatTypeOK
<1> DEFINE new == [objs[active] EXCEPT !.banned = b]
<1>2. SameMembers(new, objs[active]) /\ new.banned = b
  BY <1>1, ObjIsTyped, FieldForms
<1>3. objs' = [objs EXCEPT ![active] = new]
  OBVIOUS
<1> HIDE DEF new
<1> QED BY <1>1, <1>2, <1>3, ObjectQuiet

LEMMA BanMemoryStep ==
  ASSUME ChatTypeOK, ChannelInv, BansAreStored, NEW p \in Players, BanMemory(p)
  PROVE  ChatTypeOK' /\ ChannelInv' /\ BansAreStored'
<1>0. req[p] # Nil /\ req[p].op \in Steps /\ "banRow" \in Steps
  BY DEF BanMemory, Doing, Steps
<1>1. req[p].target \in Players
  BY <1>0, TargetOf
<1>2. UNCHANGED <<active, online, logouts, db, confirmed, torn>>
  BY DEF BanMemory
<1>3. CASE active = Nil
  <2>1. Done(p) /\ UNCHANGED objs
    BY <1>3 DEF BanMemory
  <2>2. req' \in ReqType(1..Len(objs'))
    BY <2>1, DoneTypes
  <2>3. SameRows(db', db) /\ db'.bans = db.bans
    BY <1>2, DbUnchanged
  <2> QED BY <1>2, <2>1, <2>2, <2>3, RowStep DEF ChatTypeOK
<1>4. CASE active # Nil
  <2> DEFINE b == objs[active].banned \cup {req[p].target}
  <2>1. active \in 1..Len(objs)
    BY <1>4 DEF ChatTypeOK
  <2>2. b \in SUBSET Players
    BY <1>1, <2>1, ObjIsTyped, ObjectFields
  <2>3. objs' = [objs EXCEPT ![active].banned = b]
        /\ req' = [req EXCEPT ![p].op = "banRow", ![p].obj = active]
    BY <1>4 DEF BanMemory
  <2>4. objs[active].banned \subseteq b
    OBVIOUS
  <2> HIDE DEF b
  <2>5. /\ objs' \in Seq(Objects) /\ Len(objs') = Len(objs)
        /\ \A i \in 1..Len(objs) : SameMembers(objs'[i], objs[i])
        /\ objs'[active].banned = b
    BY <1>4, <2>2, <2>3, BannedForm
  <2>6. Quiet
    BY <1>2, <2>5, DbUnchanged DEF Quiet
  <2>7. req' \in ReqType(1..Len(objs'))
    BY <1>0, <2>1, <2>3, <2>5, GoesOn
  <2>8. BansAreStored'
    <3>1. \A k \in 1..Len(objs) : objs'[k].id = objs[k].id
      BY <2>5 DEF SameMembers
    <3>2. objs # <<>>
      BY <2>1
    <3> QED BY <1>2, <1>4, <2>4, <2>5, <3>1, <3>2 DEF BansAreStored
  <2> QED BY <1>2, <2>6, <2>7, <2>8, QuietTypes, QuietKeeps DEF ChatTypeOK
<1> QED BY <1>3, <1>4

LEMMA UnbanMemoryStep ==
  ASSUME ChatTypeOK, ChannelInv, BansAreStored, NEW p \in Players, UnbanMemory(p)
  PROVE  ChatTypeOK' /\ ChannelInv' /\ BansAreStored'
<1>0. req[p] # Nil /\ req[p].op \in Steps /\ "unbanRow" \in Steps
  BY DEF UnbanMemory, Doing, Steps
<1>2. UNCHANGED <<active, online, logouts, db, torn>>
  BY DEF UnbanMemory
<1>3. CASE active = Nil
  <2>1. Done(p) /\ UNCHANGED <<objs, confirmed>>
    BY <1>3 DEF UnbanMemory
  <2>2. req' \in ReqType(1..Len(objs'))
    BY <2>1, DoneTypes
  <2>3. SameRows(db', db) /\ db'.bans = db.bans
    BY <1>2, DbUnchanged
  <2> QED BY <1>2, <2>1, <2>2, <2>3, RowStep DEF ChatTypeOK
<1>4. CASE active # Nil
  <2> DEFINE t == req[p].target
             b == objs[active].banned \ {t}
  <2>1. active \in 1..Len(objs)
    BY <1>4 DEF ChatTypeOK
  <2>2. b \in SUBSET Players
    BY <2>1, ObjIsTyped, ObjectFields
  <2>3. objs' = [objs EXCEPT ![active].banned = b]
        /\ req' = [req EXCEPT ![p].op = "unbanRow", ![p].obj = active]
        /\ confirmed' = confirmed \ {t}
    BY <1>4 DEF UnbanMemory
  <2>4. \A S : S \subseteq objs[active].banned => S \ {t} \subseteq b
    OBVIOUS
  <2> HIDE DEF b, t
  <2>5. /\ objs' \in Seq(Objects) /\ Len(objs') = Len(objs)
        /\ \A i \in 1..Len(objs) : SameMembers(objs'[i], objs[i])
        /\ objs'[active].banned = b
    BY <1>4, <2>2, <2>3, BannedForm
  <2>6. Quiet
    BY <1>2, <2>5, DbUnchanged DEF Quiet
  <2>7. req' \in ReqType(1..Len(objs'))
    BY <1>0, <2>1, <2>3, <2>5, GoesOn
  <2>8. BansAreStored'
    <3>1. \A k \in 1..Len(objs) : objs'[k].id = objs[k].id
      BY <2>5 DEF SameMembers
    <3>2. objs # <<>>
      BY <2>1
    <3> QED BY <1>2, <1>4, <2>3, <2>4, <2>5, <3>1, <3>2 DEF BansAreStored
  <2>9. confirmed' \subseteq Players
    BY <2>3 DEF ChatTypeOK
  <2> QED BY <1>2, <2>6, <2>7, <2>8, <2>9, QuietTypes, QuietKeeps DEF ChatTypeOK
<1> QED BY <1>3, <1>4

\* The rows of a channel's bans change to b.
LEMMA BansStep ==
  ASSUME ChatTypeOK, ChannelInv, NEW k \in 1..Len(objs), NEW b \in SUBSET Players,
         db' = [db EXCEPT !.bans[objs[k].id] = b],
         UNCHANGED <<active, objs, online, logouts>>, req' \in ReqType(1..Len(objs')),
         confirmed' \subseteq Players, torn \subseteq torn', torn' \subseteq Faults
  PROVE  /\ ChatTypeOK' /\ ChannelInv'
         /\ db'.row = db.row
         /\ \A i \in Ids : db'.bans[i] = IF i = objs[k].id THEN b ELSE db.bans[i]
<1>1. objs[k].id \in Ids
  BY ObjIsTyped, ObjectFields
<1>2. db \in DbStates /\ db.bans \in [Ids -> SUBSET Players]
  BY DbFields DEF ChatTypeOK
<1>3. SameRows(db', db) /\ db'.row = db.row /\ db'.bans = [db.bans EXCEPT ![objs[k].id] = b]
  <2> DEFINE id == objs[k].id
  <2>1. db' = [db EXCEPT !.bans[id] = b] /\ id \in Ids
    BY <1>1
  <2> HIDE DEF id
  <2>2. SameRows(db', db) /\ db'.row = db.row /\ db'.bans = [db.bans EXCEPT ![id] = b]
    BY <1>2, <2>1 DEF DbStates, SameRows
  <2> QED BY <2>2 DEF id
<1>4. Quiet
  BY <1>3, ObjectsUnchanged DEF Quiet
<1>5. \A i \in Ids : db'.bans[i] = IF i = objs[k].id THEN b ELSE db.bans[i]
  BY <1>1, <1>2, <1>3
<1> QED BY <1>3, <1>4, <1>5, QuietTypes, QuietKeeps DEF ChatTypeOK

LEMMA BanRowStep ==
  ASSUME ChatTypeOK, ChannelInv, BansAreStored, NEW p \in Players, BanRow(p)
  PROVE  ChatTypeOK' /\ ChannelInv' /\ BansAreStored'
<1>0. req[p] # Nil /\ req[p].op \in Steps /\ req[p].op # "settingsRow"
  BY DEF BanRow, Doing, Steps
<1>1. req[p].target \in Players /\ req[p].obj \in 1..Len(objs)
  BY <1>0, TargetOf, HeldObject
<1>2. UNCHANGED <<active, objs, online, logouts>> /\ req' \in ReqType(1..Len(objs'))
  BY DoneTypes DEF BanRow
<1> DEFINE k == req[p].obj
           t == req[p].target
           b == db.bans[objs[k].id] \cup {t}
<1>3. CASE UNCHANGED <<db, confirmed, torn>>
  <2>1. SameRows(db', db) /\ db'.bans = db.bans
    BY <1>3, DbUnchanged
  <2> QED BY <1>2, <1>3, <2>1, RowStep DEF ChatTypeOK
<1>4. CASE /\ db' = [db EXCEPT !.bans[objs[k].id] = @ \cup {t}]
           /\ confirmed' = confirmed \cup ({t} \cap objs[k].banned)
           /\ torn' = torn \cup DroppedMark(k)
  <2>1. objs[k].id \in Ids /\ db.bans \in [Ids -> SUBSET Players]
    BY <1>1, ObjIsTyped, ObjectFields, DbFields DEF ChatTypeOK
  <2>2. b \in SUBSET Players
    BY <1>1, <2>1
  <2>3. db' = [db EXCEPT !.bans[objs[k].id] = b]
    BY <1>4
  <2>4. confirmed' \subseteq Players /\ torn \subseteq torn' /\ torn' \subseteq Faults
    BY <1>1, <1>4, DroppedMarkIs DEF ChatTypeOK
  <2>5. db.bans[objs[k].id] \subseteq b /\ t \in b
    OBVIOUS
  <2> HIDE DEF b
  <2>6. /\ ChatTypeOK' /\ ChannelInv'
        /\ db'.row = db.row
        /\ \A i \in Ids : db'.bans[i] = IF i = objs[k].id THEN b ELSE db.bans[i]
    BY <1>1, <1>2, <2>2, <2>3, <2>4, BansStep
  <2>7. BansAreStored'
    <3> SUFFICES ASSUME torn' \cap {"dropped", "cleaned"} = {}
                 PROVE  /\ db'.row = Nil => confirmed' = {} /\ objs' = <<>>
                        /\ db'.row # Nil => /\ confirmed' \subseteq db'.bans[db'.row.id]
                                            /\ \A i \in 1..Len(objs') : objs'[i].id = db'.row.id
                        /\ active' # Nil => confirmed' \subseteq objs'[active'].banned
      BY DEF BansAreStored
    <3>1. k = active /\ torn \cap {"dropped", "cleaned"} = {}
      BY <1>4 DEF DroppedMark
    <3>2. objs # <<>>
      BY <1>1
    <3>3. /\ db.row # Nil /\ confirmed \subseteq db.bans[db.row.id]
          /\ \A i \in 1..Len(objs) : objs[i].id = db.row.id
          /\ active # Nil => confirmed \subseteq objs[active].banned
      BY <3>1, <3>2 DEF BansAreStored
    <3>4. db'.bans[db'.row.id] = b
      BY <1>1, <2>1, <2>6, <3>3
    <3>5. confirmed' \subseteq b
      BY <1>1, <1>4, <2>5, <3>3
    <3> QED BY <1>2, <1>4, <2>6, <3>1, <3>3, <3>4, <3>5
  <2> QED BY <2>6, <2>7
<1> QED BY <1>3, <1>4 DEF BanRow

LEMMA UnbanRowStep ==
  ASSUME ChatTypeOK, ChannelInv, BansAreStored, NEW p \in Players, UnbanRow(p)
  PROVE  ChatTypeOK' /\ ChannelInv' /\ BansAreStored'
<1>0. req[p] # Nil /\ req[p].op \in Steps /\ req[p].op # "settingsRow"
  BY DEF UnbanRow, Doing, Steps
<1>1. req[p].obj \in 1..Len(objs)
  BY <1>0, HeldObject
<1>2. UNCHANGED <<active, objs, online, logouts, torn>> /\ req' \in ReqType(1..Len(objs'))
  BY DoneTypes DEF UnbanRow
<1> DEFINE k == req[p].obj
           t == req[p].target
           b == db.bans[objs[k].id] \ {t}
<1>3. CASE UNCHANGED <<db, confirmed>>
  <2>1. SameRows(db', db) /\ db'.bans = db.bans
    BY <1>3, DbUnchanged
  <2> QED BY <1>2, <1>3, <2>1, RowStep DEF ChatTypeOK
<1>4. CASE /\ db' = [db EXCEPT !.bans[objs[k].id] = @ \ {t}]
           /\ confirmed' = confirmed \ {t}
  <2>1. objs[k].id \in Ids /\ db.bans \in [Ids -> SUBSET Players]
    BY <1>1, ObjIsTyped, ObjectFields, DbFields DEF ChatTypeOK
  <2>2. b \in SUBSET Players
    BY <2>1
  <2>3. db' = [db EXCEPT !.bans[objs[k].id] = b]
    BY <1>4
  <2>4. confirmed' \subseteq Players /\ torn \subseteq torn' /\ torn' \subseteq Faults
    BY <1>2, <1>4 DEF ChatTypeOK
  <2>5. \A S : S \subseteq db.bans[objs[k].id] => S \ {t} \subseteq b
    OBVIOUS
  <2> HIDE DEF b
  <2>6. /\ ChatTypeOK' /\ ChannelInv'
        /\ db'.row = db.row
        /\ \A i \in Ids : db'.bans[i] = IF i = objs[k].id THEN b ELSE db.bans[i]
    BY <1>1, <1>2, <2>2, <2>3, <2>4, BansStep
  <2>7. BansAreStored'
    <3> SUFFICES ASSUME torn \cap {"dropped", "cleaned"} = {}
                 PROVE  /\ db'.row = Nil => confirmed' = {} /\ objs' = <<>>
                        /\ db'.row # Nil => /\ confirmed' \subseteq db'.bans[db'.row.id]
                                            /\ \A i \in 1..Len(objs') : objs'[i].id = db'.row.id
                        /\ active' # Nil => confirmed' \subseteq objs'[active'].banned
      BY <1>2 DEF BansAreStored
    <3>1. objs # <<>>
      BY <1>1
    <3>2. /\ db.row # Nil /\ confirmed \subseteq db.bans[db.row.id]
          /\ \A i \in 1..Len(objs) : objs[i].id = db.row.id
          /\ active # Nil => confirmed \subseteq objs[active].banned
      BY <3>1 DEF BansAreStored
    <3>3. db'.bans[db'.row.id] = b
      BY <1>1, <2>1, <2>6, <3>2
    <3>4. confirmed' \subseteq b
      BY <1>1, <1>4, <2>5, <3>2
    <3> QED BY <1>2, <1>4, <2>6, <3>2, <3>3, <3>4
  <2> QED BY <2>6, <2>7
<1> QED BY <1>3, <1>4 DEF UnbanRow

-----------------------------------------------------------------------------
(* The channel is forgotten, expires and is loaded                         *)

LEMMA CleanupLocalMemoryStep ==
  ASSUME ChatTypeOK, ChannelInv, BansAreStored, CleanupLocalMemory
  PROVE  ChatTypeOK' /\ ChannelInv' /\ BansAreStored'
<1>1. /\ active # Nil /\ active' = Nil /\ objs[active].members = <<>>
      /\ UNCHANGED <<objs, req, online, logouts, db, confirmed, torn>>
  BY DEF CleanupLocalMemory
<1>2. ChatTypeOK'
  BY <1>1 DEF ChatTypeOK
<1>3. DOMAIN objs[active].members = {}
  BY <1>1, NoRows
<1>4. DroppedIsEmpty'
  BY <1>1, <1>3 DEF ChannelInv, DroppedIsEmpty
<1>5. IdsAreOrdered'
  BY <1>1 DEF ChannelInv, IdsAreOrdered
<1>6. AgreesWithDb' /\ OneOwner'
  BY <1>1 DEF AgreesWithDb, OneOwner
<1>7. RowsAreMembers'
  <2> SUFFICES ASSUME torn \cap {"dropped", "owner"} = {}, db.row # Nil
               PROVE  DOMAIN db.members[db.row.id] = {}
    BY <1>1 DEF RowsAreMembers
  <2>1. objs[active].members = db.members[objs[active].id]
    BY <1>1 DEF ChannelInv, RowsAreMembers
  <2>2. objs[active].id = db.row.id
    BY <1>1 DEF ChannelInv, IdsAreOrdered
  <2> QED BY <1>3, <2>1, <2>2
<1>8. BansAreStored'
  BY <1>1 DEF BansAreStored
<1> QED BY <1>2, <1>4, <1>5, <1>6, <1>7, <1>8 DEF ChannelInv

LEMMA CleanOldChannelsStep ==
  ASSUME ChatTypeOK, ChannelInv, BansAreStored, CleanOldChannels
  PROVE  ChatTypeOK' /\ ChannelInv' /\ BansAreStored'
<1>1. /\ db' = [db EXCEPT !.row = Nil] /\ torn' = torn \cup {"cleaned"}
      /\ UNCHANGED <<active, objs, req, online, logouts, confirmed>>
  BY DEF CleanOldChannels
<1>2. db' \in DbStates /\ db'.row = Nil /\ db'.next = db.next /\ db'.members = db.members
  BY <1>1 DEF ChatTypeOK, DbStates
<1>3. ChatTypeOK'
  BY <1>1, <1>2 DEF ChatTypeOK, Faults
<1>4. DroppedIsEmpty'
  BY <1>1 DEF ChannelInv, DroppedIsEmpty
<1>5. IdsAreOrdered'
  BY <1>1, <1>2 DEF ChannelInv, IdsAreOrdered
<1>6. AgreesWithDb'
  BY <1>1, <1>2 DEF ChannelInv, AgreesWithDb
<1>7. RowsAreMembers'
  BY <1>1, <1>2 DEF ChannelInv, RowsAreMembers
<1>8. OneOwner'
  BY <1>1 DEF ChannelInv, OneOwner
<1>9. BansAreStored'
  BY <1>1 DEF BansAreStored
<1> QED BY <1>3, <1>4, <1>5, <1>6, <1>7, <1>8, <1>9 DEF ChannelInv

\* The rows a channel that is not in memory is loaded from: the old ones, or
\* those under a new id.
LEMMA RowsToLoad ==
  ASSUME ChatTypeOK, ChannelInv, BansAreStored, active = Nil, NEW pw \in Passwords,
         NEW d, d = (IF db.row = Nil THEN CreateChannel(db, pw) ELSE db), d.next - 1 \in Ids
  PROVE  /\ d \in DbStates /\ d.row # Nil
         /\ d.members = db.members
         /\ db.next <= d.next /\ d.row.id < d.next
         /\ torn \cap {"dropped", "owner"} = {} => DOMAIN d.members[d.row.id] = {}
         /\ torn \cap {"dropped", "cleaned"} = {} =>
               /\ confirmed \subseteq d.bans[d.row.id]
               /\ \A k \in 1..Len(objs) : objs[k].id = d.row.id
<1>1. db \in DbStates /\ db.next \in 1..MaxId + 1 /\ MaxId \in Nat
  BY DbFields, ChannelAssumption DEF ChatTypeOK
<1>2. CASE db.row # Nil
  <2>1. d = db
    BY <1>2
  <2>2. d.row.id < d.next /\ db.next <= d.next
    BY <1>1, <1>2, <2>1 DEF ChannelInv, IdsAreOrdered
  <2>3. torn \cap {"dropped", "owner"} = {} => DOMAIN d.members[d.row.id] = {}
    BY <1>2, <2>1 DEF ChannelInv, RowsAreMembers
  <2> QED BY <1>1, <1>2, <2>1, <2>2, <2>3 DEF BansAreStored
<1>3. CASE db.row = Nil
  <2>1. d = CreateChannel(db, pw)
    BY <1>3
  <2>2. d.next = db.next + 1
    BY <2>1 DEF CreateChannel, ChatTypeOK, DbStates
  <2>3. db.next \in Ids
    BY <1>1, <2>2
  <2>4. /\ d \in DbStates /\ d.row # Nil /\ d.row.id = db.next
        /\ d.members = db.members /\ d.bans = db.bans
    BY <1>1, <2>1, <2>3, CreateIs
  <2>5. db.next <= d.next /\ d.row.id < d.next
    BY <1>1, <2>2, <2>4
  <2>6. DOMAIN d.members[d.row.id] = {}
    BY <1>1, <2>3, <2>4 DEF ChannelInv, IdsAreOrdered
  <2>7. ASSUME torn \cap {"dropped", "cleaned"} = {}
        PROVE  /\ confirmed \subseteq d.bans[d.row.id]
               /\ \A k \in 1..Len(objs) : objs[k].id = d.row.id
    <3>1. confirmed = {} /\ objs = <<>>
      BY <1>3, <2>7 DEF BansAreStored
    <3> QED BY <3>1
  <2> QED BY <2>4, <2>5, <2>6, <2>7
<1> QED BY <1>2, <1>3

LEMMA LoadStep ==
  ASSUME ChatTypeOK, ChannelInv, BansAreStored, active = Nil, NEW pw \in Passwords,
         db' = (IF db.row = Nil THEN CreateChannel(db, pw) ELSE db), db'.next - 1 \in Ids,
         NEW o \in LastOwner(db'), objs' = Append(objs, LoadChannel(db', o)),
         active' = Len(objs) + 1, req' \in ReqType(1..Len(objs) + 1),
         UNCHANGED <<online, logouts, confirmed, torn>>
  PROVE  ChatTypeOK' /\ ChannelInv' /\ BansAreStored'
<1> DEFINE c == LoadChannel(db', o)
           n == Len(objs) + 1
<1>1. /\ db' \in DbStates /\ db'.row # Nil
      /\ db'.members = db.members
      /\ db.next <= db'.next /\ db'.row.id < db'.next
  BY RowsToLoad
<1>2. torn \cap {"dropped", "owner"} = {} => DOMAIN db'.members[db'.row.id] = {}
  BY RowsToLoad
<1>3. torn \cap {"dropped", "cleaned"} = {} =>
               /\ confirmed \subseteq db'.bans[db'.row.id]
               /\ \A k \in 1..Len(objs) : objs[k].id = db'.row.id
  BY RowsToLoad
<1>4. /\ c \in Objects /\ c.id = db'.row.id /\ c.members = db'.members[db'.row.id]
      /\ c.banned = db'.bans[db'.row.id] /\ c.owner = o /\ db'.row.id \in Ids
  BY <1>1, LoadIs
<1>5. objs' = Append(objs, c)
  OBVIOUS
<1> HIDE DEF c
<1>6. objs \in Seq(Objects) /\ Len(objs) \in Nat
  BY DEF ChatTypeOK
<1>7. /\ objs' \in Seq(Objects) /\ Len(objs') = n
      /\ objs'[n] = c
      /\ \A k \in 1..Len(objs) : objs'[k] = objs[k]
  BY <1>4, <1>5, <1>6
<1>8. active' = n /\ n \in 1..n /\ active' # Nil /\ \A k \in 1..n : k # n => k \in 1..Len(objs)
  BY <1>6, ChannelAssumption
<1>9. \A k \in 1..Len(objs) : k # active
  BY <1>6, ChannelAssumption
<1>10. ChatTypeOK'
  BY <1>1, <1>7, <1>8 DEF ChatTypeOK, ReqType
<1> HIDE DEF n
<1>11. DroppedIsEmpty'
  BY <1>7, <1>8, <1>9 DEF ChannelInv, DroppedIsEmpty
<1>12. IdsAreOrdered'
  <2>1. ASSUME NEW k \in 1..Len(objs') PROVE objs'[k].id < db'.next
    <3>1. CASE k = n
      BY <1>1, <1>4, <1>7, <3>1
    <3>2. CASE k # n
      <4>1. k \in 1..Len(objs) /\ objs'[k] = objs[k]
        BY <1>7, <1>8, <3>2
      <4>2. objs[k].id < db.next /\ objs[k].id \in Ids
        BY <4>1, ObjIsTyped, ObjectFields DEF ChannelInv, IdsAreOrdered
      <4>3. db.next \in Nat /\ db'.next \in Nat /\ objs[k].id \in Nat
        BY <1>1, <4>2, DbFields, ChannelAssumption DEF ChatTypeOK, Ids
      <4> QED BY <1>1, <4>1, <4>2, <4>3
    <3> QED BY <3>1, <3>2
  <2>2. ASSUME NEW i \in Ids, i >= db'.next PROVE DOMAIN db'.members[i] = {}
    <3>1. db.next \in Nat /\ db'.next \in Nat /\ i \in Nat
      BY <1>1, DbFields, ChannelAssumption DEF ChatTypeOK, Ids
    <3>2. i >= db.next
      BY <1>1, <2>2, <3>1
    <3> QED BY <1>1, <3>2 DEF ChannelInv, IdsAreOrdered
  <2> QED BY <1>1, <1>4, <1>7, <1>8, <2>1, <2>2 DEF IdsAreOrdered
<1>13. objs'[active'].members = db'.members[objs'[active'].id]
  BY <1>4, <1>7, <1>8
<1>14. AgreesWithDb'
  BY <1>13 DEF AgreesWithDb
<1>15. RowsAreMembers'
  BY <1>8, <1>13 DEF RowsAreMembers
<1>16. OneOwner'
  <2>1. ASSUME torn' \cap {"dropped", "owner"} = {} PROVE objs'[active'].members = <<>>
    <3>1. DOMAIN c.members = {} /\ c.members \in MemberRows
      BY <1>2, <1>4, <2>1, ObjectFields
    <3> QED BY <1>7, <1>8, <3>1, NoRows
  <2> QED BY <2>1 DEF OneOwner
<1>17. BansAreStored'
  <2>1. ASSUME torn \cap {"dropped", "cleaned"} = {}, NEW k \in 1..Len(objs')
        PROVE  objs'[k].id = db'.row.id
    <3>1. CASE k = n
      BY <1>4, <1>7, <3>1
    <3>2. CASE k # n
      BY <1>3, <1>7, <1>8, <2>1, <3>2
    <3> QED BY <3>1, <3>2
  <2> QED BY <1>1, <1>3, <1>4, <1>7, <1>8, <2>1 DEF BansAreStored
<1> QED BY <1>10, <1>11, <1>12, <1>14, <1>15, <1>16, <1>17 DEF ChannelInv

LEMMA AskJoinStep ==
  ASSUME ChatTypeOK, ChannelInv, BansAreStored, NEW p \in Players, NEW pw \in Passwords, AskJoin(p, pw)
  PROVE  ChatTypeOK' /\ ChannelInv' /\ BansAreStored'
<1>1. CASE active # Nil
  <2> DEFINE x == [op |-> "join", obj |-> active, password |-> pw]
  <2>1. active \in 1..Len(objs)
    BY <1>1 DEF ChatTypeOK
  <2>2. x \in Requests(1..Len(objs))
    BY <2>1 DEF Requests
  <2>3. Asks(p, x) /\ UNCHANGED <<active, objs, db>>
    BY <1>1 DEF AskJoin
  <2> HIDE DEF x
  <2> QED BY <2>2, <2>3, AskStep
<1>2. CASE active = Nil
  <2> DEFINE x == [op |-> "join", obj |-> Len(objs) + 1, password |-> pw]
             d == IF db.row = Nil THEN CreateChannel(db, pw) ELSE db
  <2>1. /\ d.next - 1 \in Ids /\ db' = d
        /\ \E o \in LastOwner(d) : objs' = Append(objs, LoadChannel(d, o))
        /\ active' = Len(objs) + 1
        /\ Asks(p, x)
    BY <1>2 DEF AskJoin
  <2>2. PICK o \in LastOwner(db') : objs' = Append(objs, LoadChannel(db', o))
    BY <2>1
  <2>3. Len(objs) \in Nat /\ objs \in Seq(Objects)
    BY DEF ChatTypeOK
  <2>4. x \in Requests(1..Len(objs) + 1)
    BY <2>3 DEF Requests
  <2>5. db' = (IF db.row = Nil THEN CreateChannel(db, pw) ELSE db) /\ db'.next - 1 \in Ids
    BY <2>1
  <2>6. req' = [req EXCEPT ![p] = x] /\ UNCHANGED <<online, logouts, confirmed, torn>>
    BY <2>1 DEF Asks
  <2> HIDE DEF x, d
  <2>7. req \in ReqType(1..Len(objs) + 1)
    <3>1. 1..Len(objs) \subseteq 1..Len(objs) + 1
      BY <2>3
    <3>2. req \in ReqType(1..Len(objs))
      BY DEF ChatTypeOK, ReqType
    <3> QED BY <3>1, <3>2, RequestsGrow
  <2>8. req' \in ReqType(1..Len(objs) + 1)
    BY <2>4, <2>6, <2>7 DEF ReqType
  <2> QED BY <1>2, <2>1, <2>2, <2>5, <2>6, <2>8, LoadStep
<1> QED BY <1>1, <1>2

-----------------------------------------------------------------------------
(* Restarts                                                                *)

\* The members who are online.
Present(m) == Restrict(m, DOMAIN m \cap online)

LEMMA PresentIs ==
  ASSUME NEW m \in MemberRows
  PROVE  /\ Present(m) \in MemberRows
         /\ DOMAIN Present(m) = DOMAIN m \cap online
         /\ OwnersOf(Present(m)) = OwnersOf(m) \cap online
<1>1. Present(m) = [q \in DOMAIN m \cap online |-> m[q]]
  BY DEF Present, Restrict
<1>2. Present(m) \in [DOMAIN m \cap online -> SUBSET AllFlags]
  BY <1>1, RowsElim
<1>3. DOMAIN m \cap online \in SUBSET Players
  BY RowsElim
<1>4. Present(m) \in MemberRows
  BY <1>2, <1>3, RowsIntro
<1>5. OwnersOf(Present(m)) = OwnersOf(m) \cap online
  BY <1>1 DEF OwnersOf
<1> QED BY <1>1, <1>4, <1>5

LEMMA PrunedForm ==
  ASSUME NEW ch \in Objects, NEW new \in Pruned(ch)
  PROVE  LET m == Present(ch.members)
         IN \/ (ch.owner = Nil \/ ch.owner \in online) /\ new = Changed(ch, ch.owner, m)
            \/ m = <<>> /\ new = Changed(ch, Nil, m)
            \/ /\ ch.owner \notin online
               /\ \E n \in Heirs(m) : new = Changed(ch, n, Flagged(m, n, m[n] \cup {Owner}))
<1> DEFINE m == Present(ch.members)
           gone == ch.owner # Nil /\ ch.owner \notin online
<1>1. Pruned(ch) =
        IF ~gone THEN {[ch EXCEPT !.members = m]}
        ELSE IF m = <<>> THEN {[ch EXCEPT !.members = m, !.owner = Nil]}
        ELSE {[ch EXCEPT !.owner = n, !.members = [m EXCEPT ![n] = @ \cup {Owner}]] : n \in Heirs(m)}
  BY DEF Pruned, Present
<1> HIDE DEF m
<1>2. CASE ~gone
  <2>1. new = [ch EXCEPT !.members = m]
    BY <1>1, <1>2
  <2>2. new = Changed(ch, ch.owner, m)
    BY <2>1 DEF Objects, Changed
  <2> QED BY <1>2, <2>2 DEF m
<1>3. CASE gone /\ m = <<>>
  <2>1. new = [ch EXCEPT !.members = m, !.owner = Nil]
    BY <1>1, <1>3
  <2>2. new = Changed(ch, Nil, m)
    BY <2>1 DEF Objects, Changed
  <2> QED BY <1>3, <2>2 DEF m
<1>4. CASE gone /\ m # <<>>
  <2>1. PICK n \in Heirs(m) : new = [ch EXCEPT !.owner = n, !.members = [m EXCEPT ![n] = @ \cup {Owner}]]
    BY <1>1, <1>4
  <2>2. new = Changed(ch, n, Flagged(m, n, m[n] \cup {Owner}))
    BY <2>1 DEF Changed, Flagged
  <2> QED BY <1>4, <2>2 DEF m
<1> QED BY <1>2, <1>3, <1>4

\* Pruning hands the channel on when its owner is among those removed.
LEMMA PrunedIs ==
  ASSUME ChatTypeOK, NEW ch \in Objects, NEW new \in Pruned(ch)
  PROVE  /\ new \in Objects /\ new.id = ch.id /\ new.banned = ch.banned
         /\ Owned(ch) => Owned(new)
<1> DEFINE m == Present(ch.members)
<1>1. ch.members \in MemberRows /\ ch.owner \in Players \cup {Nil}
  BY ObjectFields
<1>2. /\ m \in MemberRows /\ DOMAIN m = DOMAIN ch.members \cap online
      /\ OwnersOf(m) = OwnersOf(ch.members) \cap online
  BY <1>1, PresentIs
<1>3. OwnersOf(ch.members) \subseteq Players /\ Nil \notin Players
  BY <1>1, RowsElim, ChannelAssumption DEF OwnersOf
<1>4. \/ (ch.owner = Nil \/ ch.owner \in online) /\ new = Changed(ch, ch.owner, m)
      \/ m = <<>> /\ new = Changed(ch, Nil, m)
      \/ /\ ch.owner \notin online
         /\ \E n \in Heirs(m) : new = Changed(ch, n, Flagged(m, n, m[n] \cup {Owner}))
  BY PrunedForm
<1> HIDE DEF m
<1>5. CASE (ch.owner = Nil \/ ch.owner \in online) /\ new = Changed(ch, ch.owner, m)
  <2>1. /\ new \in Objects /\ new.id = ch.id /\ new.banned = ch.banned
        /\ new.owner = ch.owner /\ new.members = m
    BY <1>1, <1>2, <1>5, ChangedIs
  <2>2. ASSUME Owned(ch), DOMAIN m # {} PROVE OwnersOf(m) = {ch.owner}
    <3>1. OwnersOf(ch.members) = {ch.owner}
      BY <1>2, <2>2 DEF Owned
    <3>2. ch.owner \in online
      BY <1>3, <1>5, <3>1
    <3> QED BY <1>2, <3>1, <3>2
  <2> QED BY <2>1, <2>2 DEF Owned
<1>6. CASE m = <<>> /\ new = Changed(ch, Nil, m)
  <2>1. /\ new \in Objects /\ new.id = ch.id /\ new.banned = ch.banned
        /\ new.owner = Nil /\ new.members = m
    <3>1. Nil \in Players \cup {Nil} /\ new = Changed(ch, Nil, m)
      BY <1>6
    <3> QED BY <1>2, <3>1, ChangedIs
  <2> QED BY <1>6, <2>1, NoRows DEF Owned
<1>7. CASE /\ ch.owner \notin online
           /\ \E n \in Heirs(m) : new = Changed(ch, n, Flagged(m, n, m[n] \cup {Owner}))
  <2>1. PICK n \in Heirs(m) : new = Changed(ch, n, Flagged(m, n, m[n] \cup {Owner}))
    BY <1>7
  <2> DEFINE f == m[n] \cup {Owner}
             w == Flagged(m, n, f)
  <2>2. n \in DOMAIN m
    BY HeirsAreMembers
  <2>3. n \in Players /\ f \in SUBSET AllFlags
    BY <1>2, <2>2, RowsElim DEF AllFlags
  <2>4. Owner \in f
    OBVIOUS
  <2>5. new = Changed(ch, n, w)
    BY <2>1
  <2> HIDE DEF f
  <2>6. /\ w \in MemberRows /\ DOMAIN w = DOMAIN m
        /\ \A q \in DOMAIN m : w[q] = IF q = n THEN f ELSE m[q]
    BY <1>2, <2>3, FlaggedIs
  <2> HIDE DEF w
  <2>7. /\ new \in Objects /\ new.id = ch.id /\ new.banned = ch.banned
        /\ new.owner = n /\ new.members = w
    BY <2>3, <2>5, <2>6, ChangedIs
  <2>8. ASSUME Owned(ch) PROVE OwnersOf(w) = {n}
    <3>1. OwnersOf(ch.members) = {ch.owner}
      BY <1>2, <2>2, <2>8 DEF Owned
    <3>2. OwnersOf(m) = {}
      BY <1>2, <1>7, <3>1
    <3> QED BY <2>2, <2>4, <2>6, <3>2 DEF OwnersOf
  <2> QED BY <2>7, <2>8 DEF Owned
<1> QED BY <1>4, <1>5, <1>6, <1>7

\* The object that is loaded has one owner when the rows do.
LEMMA LoadedIsOwned ==
  ASSUME ChatTypeOK, ChannelInv, db.row # Nil, NEW o \in LastOwner(db),
         torn \cap {"dropped", "owner"} = {}
  PROVE  Owned(LoadChannel(db, o))
<1> DEFINE c == LoadChannel(db, o)
           r == db.members[db.row.id]
<1>1. c.members = r /\ c.owner = o
  BY LoadIs DEF ChatTypeOK
<1> HIDE DEF c
<1>2. CASE active = Nil
  <2>1. DOMAIN r = {}
    BY <1>2 DEF ChannelInv, RowsAreMembers
  <2> QED BY <1>1, <2>1 DEF Owned, c
<1>3. CASE active # Nil
  <2>1. objs[active].members = r
    BY <1>3 DEF ChannelInv, RowsAreMembers, IdsAreOrdered
  <2>2. Owned(objs[active])
    BY <1>3, Restated DEF ChannelInv
  <2>3. DOMAIN r # {} => OwnersOf(r) = {objs[active].owner}
    BY <2>1, <2>2 DEF Owned
  <2>4. DOMAIN r # {} => OwnersOf(r) = {o}
    BY <2>3 DEF LastOwner
  <2> QED BY <1>1, <2>4 DEF Owned, c
<1> QED BY <1>2, <1>3

\* The server starts with object new and the rows of its members.
LEMMA StartsWith ==
  ASSUME ChatTypeOK, ChannelInv, BansAreStored, db.row # Nil, NEW new \in Objects,
         new.id = db.row.id, new.banned = db.bans[db.row.id],
         torn \cap {"dropped", "owner"} = {} => Owned(new),
         active' = 1, objs' = <<new>>, db' = Stored(db, db.row.id, new.members),
         req' = [q \in Players |-> Nil], logouts' = {}, UNCHANGED <<online, confirmed, torn>>
  PROVE  ChatTypeOK' /\ ChannelInv' /\ BansAreStored'
<1> DEFINE i == db.row.id
           m == new.members
<1>1. db \in DbStates /\ i \in Ids /\ m \in MemberRows
  BY ObjectFields DEF ChatTypeOK
<1>2. objs' \in Seq(Objects) /\ Len(objs') = 1 /\ objs'[1] = new
  OBVIOUS
<1>3. 1 # Nil
  BY ChannelAssumption
<1>4. db' = Stored(db, i, m)
  OBVIOUS
<1> HIDE DEF i, m
<1>5. db' \in DbStates /\ db'.row = db.row /\ db'.next = db.next /\ db'.bans = db.bans
  BY <1>1, <1>4, StoredIs
<1>6. db'.members[i] = m
  BY <1>1, <1>4, RowsStored
<1>7. ASSUME NEW j \in Ids, j # i PROVE db'.members[j] = db.members[j]
  BY <1>1, <1>4, <1>7, RowsStored
<1>8. ChatTypeOK'
  BY <1>2, <1>5 DEF ChatTypeOK
<1>9. active' = 1 /\ objs'[active'] = new /\ new.id = i /\ new.members = m /\ \A k \in 1..Len(objs') : k = 1
  BY <1>2 DEF i, m
<1>10. DroppedIsEmpty'
  BY <1>9 DEF DroppedIsEmpty
<1>11. IdsAreOrdered'
  <2>1. i < db.next
    BY DEF ChannelInv, IdsAreOrdered, i
  <2>2. ASSUME NEW j \in Ids, j >= db'.next PROVE DOMAIN db'.members[j] = {}
    <3>1. j \in Nat /\ i \in Nat /\ db.next \in Nat
      BY <1>1, DbFields, ChannelAssumption DEF Ids
    <3>2. j # i /\ j >= db.next
      BY <1>5, <2>1, <2>2, <3>1
    <3> QED BY <1>7, <3>2 DEF ChannelInv, IdsAreOrdered
  <2> QED BY <1>2, <1>5, <1>9, <2>1, <2>2 DEF IdsAreOrdered, i
<1>12. objs'[active'].members = db'.members[objs'[active'].id]
  BY <1>6, <1>9
<1>13. AgreesWithDb'
  BY <1>12 DEF AgreesWithDb
<1>14. RowsAreMembers'
  BY <1>3, <1>12 DEF RowsAreMembers
<1>15. OneOwner'
  <2>1. (active' # Nil /\ torn' \cap {"dropped", "owner"} = {}) => Owned(objs'[active'])
    BY <1>9
  <2>2. ASSUME torn' \cap {"dropped", "owner"} = {}, objs'[active'].members # <<>>
        PROVE  OwnersOf(objs'[active'].members) = {objs'[active'].owner}
    BY <1>1, <1>3, <1>9, <2>1, <2>2, NoRows DEF Owned
  <2> QED BY <2>2 DEF OneOwner
<1>16. BansAreStored'
  BY <1>2, <1>5, <1>9 DEF BansAreStored, i
<1> QED BY <1>8, <1>10, <1>11, <1>13, <1>14, <1>15, <1>16 DEF ChannelInv

LEMMA RestartStep ==
  ASSUME ChatTypeOK, ChannelInv, BansAreStored, Restart
  PROVE  ChatTypeOK' /\ ChannelInv' /\ BansAreStored'
<1>1. req' = [q \in Players |-> Nil] /\ logouts' = {} /\ UNCHANGED <<online, confirmed, torn>>
  BY DEF Restart
<1>2. CASE db.row = Nil
  <2>1. active' = Nil /\ objs' = <<>> /\ UNCHANGED db
    BY <1>2 DEF Restart
  <2>2. objs' \in Seq(Objects) /\ Len(objs') = 0 /\ 1..Len(objs') = {}
    BY <2>1
  <2>3. ChatTypeOK'
    BY <1>1, <2>1, <2>2 DEF ChatTypeOK
  <2>4. DroppedIsEmpty' /\ AgreesWithDb' /\ OneOwner'
    BY <2>1, <2>2 DEF DroppedIsEmpty, AgreesWithDb, OneOwner
  <2>5. IdsAreOrdered'
    BY <2>1, <2>2 DEF ChannelInv, IdsAreOrdered
  <2>6. RowsAreMembers'
    BY <1>2, <2>1 DEF RowsAreMembers
  <2>7. BansAreStored'
    BY <1>1, <1>2, <2>1 DEF BansAreStored
  <2> QED BY <2>3, <2>4, <2>5, <2>6, <2>7 DEF ChannelInv
<1>3. CASE db.row # Nil
  <2>1. PICK o \in LastOwner(db) :
          LET ch == LoadChannel(db, o)
          IN /\ active' = 1
             /\ \/ objs' = <<ch>> /\ UNCHANGED db
                \/ \E new \in Pruned(ch) :
                    /\ objs' = <<new>>
                    /\ db' = [db EXCEPT !.members[ch.id] = new.members]
    BY <1>3 DEF Restart
  <2> DEFINE c == LoadChannel(db, o)
  <2>2. /\ c \in Objects /\ c.id = db.row.id
        /\ c.members = db.members[db.row.id] /\ c.banned = db.bans[db.row.id]
        /\ db.row.id \in Ids
    BY <1>3, LoadIs DEF ChatTypeOK
  <2>3. torn \cap {"dropped", "owner"} = {} => Owned(c)
    BY <1>3, LoadedIsOwned
  <2>4. \/ objs' = <<c>> /\ UNCHANGED db
        \/ \E new \in Pruned(c) : objs' = <<new>> /\ db' = [db EXCEPT !.members[c.id] = new.members]
    BY <2>1
  <2> HIDE DEF c
  <2>5. PICK new \in Objects :
          /\ new.id = db.row.id /\ new.banned = db.bans[db.row.id]
          /\ torn \cap {"dropped", "owner"} = {} => Owned(new)
          /\ objs' = <<new>> /\ db' = Stored(db, db.row.id, new.members)
    <3>1. CASE objs' = <<c>> /\ UNCHANGED db
      <4>1. db' = Stored(db, db.row.id, c.members)
        BY <2>2, <3>1, StoredSame DEF ChatTypeOK
      <4> QED BY <2>2, <2>3, <3>1, <4>1
    <3>2. CASE \E new \in Pruned(c) : objs' = <<new>> /\ db' = [db EXCEPT !.members[c.id] = new.members]
      <4>1. PICK new \in Pruned(c) : objs' = <<new>> /\ db' = [db EXCEPT !.members[c.id] = new.members]
        BY <3>2
      <4>2. new \in Objects /\ new.id = c.id /\ new.banned = c.banned /\ (Owned(c) => Owned(new))
        BY <2>2, PrunedIs
      <4>3. db' = Stored(db, db.row.id, new.members)
        BY <2>2, <4>1 DEF Stored
      <4> QED BY <2>2, <2>3, <4>1, <4>2, <4>3
    <3> QED BY <2>4, <3>1, <3>2
  <2>6. active' = 1
    BY <2>1
  <2> QED BY <1>1, <1>3, <2>5, <2>6, StartsWith
<1> QED BY <1>2, <1>3

-----------------------------------------------------------------------------
(* The theorems                                                            *)

\* The rows the server starts with have one owner, so the object loaded from
\* them is owned.
LEMMA ChatInitHolds ==
  ASSUME ChatInit
  PROVE  ChatTypeOK /\ ChannelInv /\ BansAreStored
<1>1. PICK init \in Initials :
        LET d == [row |-> IF init = <<>> THEN Nil
                          ELSE [id |-> 1, password |-> "", announce |-> TRUE, fresh |-> TRUE],
                  next |-> IF init = <<>> THEN 1 ELSE 2,
                  members |-> [i \in Ids |-> IF i = 1 THEN init ELSE <<>>],
                  bans |-> [i \in Ids |-> {}]]
        IN /\ db = d
           /\ IF init = <<>> THEN active = Nil /\ objs = <<>>
              ELSE /\ active = 1
                   /\ \E o \in LastOwner(d) : objs = <<LoadChannel(d, o)>>
  BY DEF ChatInit
<1>2. /\ db.row = IF init = <<>> THEN Nil
                  ELSE [id |-> 1, password |-> "", announce |-> TRUE, fresh |-> TRUE]
      /\ db.next = IF init = <<>> THEN 1 ELSE 2
      /\ db.members = [i \in Ids |-> IF i = 1 THEN init ELSE <<>>]
      /\ db.bans = [i \in Ids |-> {}]
      /\ db = [row |-> db.row, next |-> db.next, members |-> db.members, bans |-> db.bans]
  BY <1>1
<1>3. /\ req = [p \in Players |-> Nil] /\ online = Players /\ logouts = {}
      /\ confirmed = {} /\ torn = {}
  BY DEF ChatInit
<1>4. init \in MemberRows /\ <<>> \in MemberRows
  BY NoRows, ChannelAssumption
<1>5. 1 \in Ids /\ 1 \in 1..MaxId + 1 /\ 2 \in 1..MaxId + 1 /\ \A i \in Ids : i \in Nat /\ i >= 1
  BY ChannelAssumption DEF Ids
<1> DEFINE first == [id |-> 1, password |-> "", announce |-> TRUE, fresh |-> TRUE]
<1>6. first \in DbRows /\ first.id = 1
  BY <1>5 DEF DbRows, Passwords
<1> HIDE DEF first
<1>7. db.row \in DbRows \cup {Nil}
  <2>1. db.row = IF init = <<>> THEN Nil ELSE first
    BY <1>2 DEF first
  <2> QED BY <1>6, <2>1
<1>8. db.members \in [Ids -> MemberRows] /\ db.bans \in [Ids -> SUBSET Players]
  BY <1>2, <1>4
<1>9. db.next \in 1..MaxId + 1
  BY <1>2, <1>5
<1>10. db \in DbStates
  BY <1>2, <1>7, <1>8, <1>9 DEF DbStates
<1>11. req \in [Players -> Requests(1..Len(objs)) \cup {Nil}]
  BY <1>3
<1>12. CASE init = <<>>
  <2>1. active = Nil /\ objs = <<>> /\ db.row = Nil /\ db.next = 1
    BY <1>1, <1>2, <1>12
  <2>2. objs \in Seq(Objects) /\ 1..Len(objs) = {}
    BY <2>1
  <2>3. ChatTypeOK
    BY <1>3, <1>10, <1>11, <2>1, <2>2 DEF ChatTypeOK
  <2>4. \A i \in Ids : DOMAIN db.members[i] = {}
    BY <1>2, <1>12, NoRows
  <2>5. DroppedIsEmpty /\ AgreesWithDb /\ RowsAreMembers /\ OneOwner
    BY <2>1, <2>2 DEF DroppedIsEmpty, AgreesWithDb, RowsAreMembers, OneOwner
  <2>6. IdsAreOrdered
    BY <2>1, <2>2, <2>4 DEF IdsAreOrdered
  <2>7. BansAreStored
    BY <1>3, <2>1 DEF BansAreStored
  <2> QED BY <2>3, <2>5, <2>6, <2>7 DEF ChannelInv
<1>13. CASE init # <<>>
  <2>1. active = 1 /\ \E o \in LastOwner(db) : objs = <<LoadChannel(db, o)>>
    BY <1>1, <1>13
  <2>2. PICK o \in LastOwner(db) : objs = <<LoadChannel(db, o)>>
    BY <2>1
  <2>3. db.row = [id |-> 1, password |-> "", announce |-> TRUE, fresh |-> TRUE] /\ db.next = 2
    BY <1>2, <1>13
  <2>4. db.row \in DbRows /\ db.row.id = 1
    BY <1>6, <2>3 DEF first
  <2>5. db.row # Nil
    BY <2>4, ChannelAssumption
  <2> DEFINE c == LoadChannel(db, o)
  <2>6. c \in Objects /\ c.id = 1 /\ c.members = db.members[1] /\ c.owner = o
    BY <1>10, <2>4, <2>5, LoadIs
  <2>7. objs \in Seq(Objects) /\ Len(objs) = 1 /\ objs[1] = c
    BY <2>2, <2>6
  <2> HIDE DEF c
  <2>8. 1 \in 1..Len(objs) /\ \A k \in 1..Len(objs) : k = 1
    BY <2>7
  <2>9. ChatTypeOK
    BY <1>3, <1>10, <1>11, <2>1, <2>7, <2>8 DEF ChatTypeOK
  <2>10. DroppedIsEmpty
    BY <2>1, <2>8 DEF DroppedIsEmpty
  <2>11. IdsAreOrdered
    <3>1. db.next = 2
      BY <2>3
    <3>2. ASSUME NEW i \in Ids, i >= db.next PROVE DOMAIN db.members[i] = {}
      <4>1. i # 1
        BY <3>2, <3>1
      <4>2. db.members[i] = <<>>
        BY <1>2, <4>1
      <4> QED BY <4>2, NoRows
    <3>3. 1 < db.next
      BY <3>1
    <3> QED BY <2>1, <2>4, <2>6, <2>7, <2>8, <3>2, <3>3 DEF IdsAreOrdered
  <2>12. objs[active].members = db.members[objs[active].id]
    BY <2>1, <2>6, <2>7
  <2>13. AgreesWithDb
    BY <2>12 DEF AgreesWithDb
  <2>14. RowsAreMembers
    BY <2>1, <2>5, <2>12, ChannelAssumption DEF RowsAreMembers
  <2>15. OneOwner
    <3>1. db.members[1] = init
      BY <1>2, <1>5
    <3>2. PICK p \in Players : OwnersOf(init) = {p}
      BY <1>13, ChannelAssumption
    <3>3. LastOwner(db) = {p}
      BY <2>4, <3>1, <3>2 DEF LastOwner
    <3>4. o = p
      BY <3>3
    <3> QED BY <2>1, <2>6, <2>7, <3>1, <3>2, <3>4 DEF OneOwner
  <2>16. BansAreStored
    BY <1>3, <2>4, <2>5, <2>6, <2>7, <2>8 DEF BansAreStored
  <2> QED BY <2>9, <2>10, <2>11, <2>13, <2>14, <2>15, <2>16 DEF ChannelInv
<1> QED BY <1>12, <1>13

LEMMA ChatStepKeeps ==
  ASSUME ChatTypeOK, ChannelInv, BansAreStored, [ChatNext]_chatVars
  PROVE  ChatTypeOK' /\ ChannelInv' /\ BansAreStored'
<1>1. ASSUME NEW p \in Players, NEW pw \in Passwords, AskJoin(p, pw)
      PROVE  ChatTypeOK' /\ ChannelInv' /\ BansAreStored'
  BY <1>1, AskJoinStep
<1>2. ASSUME NEW p \in Players, JoinChannel(p) \/ AskLeave(p) \/ LeaveOrKick(p)
      PROVE  ChatTypeOK' /\ ChannelInv' /\ BansAreStored'
  BY <1>2, JoinStep, AskLeaveStep, LeaveOrKickStep
<1>3. ASSUME NEW p \in Players, NEW t \in Players, NEW op \in Moderations \cup {"password", "announce"},
             AskModerate(p, op, t)
      PROVE  ChatTypeOK' /\ ChannelInv' /\ BansAreStored'
  BY <1>3, AskModerateStep
<1>4. ASSUME NEW p \in Players, BanKick(p) \/ BanMemory(p) \/ BanRow(p) \/ UnbanMemory(p) \/ UnbanRow(p)
      PROVE  ChatTypeOK' /\ ChannelInv' /\ BansAreStored'
  BY <1>4, BanKickStep, BanMemoryStep, BanRowStep, UnbanMemoryStep, UnbanRowStep
<1>5. ASSUME NEW p \in Players, SetFlag(p) \/ SetOwner(p)
      PROVE  ChatTypeOK' /\ ChannelInv' /\ BansAreStored'
  BY <1>5, SetFlagStep, SetOwnerStep
<1>6. ASSUME NEW p \in Players,
             \/ SetPassword(p) \/ ToggleAnnouncements(p) \/ CopySettings(p) \/ SettingsRow(p)
             \/ ToggleModeration(p) \/ Speak(p)
      PROVE  ChatTypeOK' /\ ChannelInv' /\ BansAreStored'
  BY <1>6, SetPasswordStep, ToggleAnnouncementsStep, CopySettingsStep, SettingsRowStep,
     ToggleModerationStep, SpeakStep
<1>7. ASSUME NEW p \in Players, PlayerLogout(p) \/ PlayerLogin(p) \/ TransferOwnershipOnLogout(p)
      PROVE  ChatTypeOK' /\ ChannelInv' /\ BansAreStored'
  BY <1>7, SessionStep, TransferStep
<1>8. ASSUME CleanupLocalMemory \/ RowAges \/ CleanOldChannels \/ Restart
      PROVE  ChatTypeOK' /\ ChannelInv' /\ BansAreStored'
  BY <1>8, CleanupLocalMemoryStep, RowAgesStep, CleanOldChannelsStep, RestartStep
<1>9. ASSUME UNCHANGED chatVars
      PROVE  ChatTypeOK' /\ ChannelInv' /\ BansAreStored'
  BY <1>9 DEF chatVars, ChatTypeOK, ChannelInv, BansAreStored, DroppedIsEmpty, IdsAreOrdered,
              AgreesWithDb, RowsAreMembers, OneOwner
<1> QED BY <1>1, <1>2, <1>3, <1>4, <1>5, <1>6, <1>7, <1>8, <1>9 DEF ChatNext

LEMMA ChannelIsInductive == ChatSpec => [](ChatTypeOK /\ ChannelInv /\ BansAreStored)
<1> DEFINE Inv == ChatTypeOK /\ ChannelInv /\ BansAreStored
<1>1. ChatInit => Inv
  BY ChatInitHolds
<1>2. Inv /\ [ChatNext]_chatVars => Inv'
  BY ChatStepKeeps
<1> QED BY <1>1, <1>2, PTL DEF ChatSpec

\* The types of the chat server's state: the object a request holds always
\* exists, and so do the row and the id a new channel is given.
THEOREM ChannelTypeCorrect == ChatSpec => []ChatTypeOK
  BY ChannelIsInductive, PTL

\* The channel in memory has the members, moderators and muted players of the
\* database through joins, leaves, kicks and flags whose writes fail and are
\* put back, hand-overs, expiry and restarts, unless a request went on with an
\* object that cleanupLocalMemory had dropped.
THEOREM MembersAgreeWithRows == ChatSpec => []AgreesWithDb
<1>1. ChannelInv => AgreesWithDb
  BY DEF ChannelInv
<1> QED BY <1>1, ChannelIsInductive, PTL

\* JoinChannel, LeaveChannel, SetOwner, TransferOwnershipOnLogout and
\* PruneOfflineMembers together keep one owner, the one the channel names,
\* whenever there are members and no write of an owner's flag failed.
THEOREM ChannelHasOneOwner == ChatSpec => []OneOwner
<1>1. ChannelInv => OneOwner
  BY DEF ChannelInv
<1> QED BY <1>1, ChannelIsInductive, PTL

\* A ban BanPlayer confirmed and nobody lifted is in channels_bans and in the
\* channel, through clean-ups, loads and restarts, until the row expires.
THEOREM ConfirmedBansHold == ChatSpec => []ConfirmedBanHolds
<1>1. BansAreStored => ConfirmedBanHolds
  <2> SUFFICES ASSUME BansAreStored, torn \cap {"dropped", "cleaned"} = {}, NEW p \in confirmed
               PROVE  p \in db.bans[db.row.id] /\ (active # Nil => p \in objs[active].banned)
    BY DEF ConfirmedBanHolds
  <2>1. db.row # Nil
    BY DEF BansAreStored
  <2> QED BY <2>1 DEF BansAreStored
<1> QED BY <1>1, ChannelIsInductive, PTL

=============================================================================
