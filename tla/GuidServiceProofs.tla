------------------------- MODULE GuidServiceProofs -------------------------
(***************************************************************************)
(* Proofs about the guid server, for every number of keys, callers,        *)
(* workers, retries and restarts.                                          *)
(***************************************************************************)
EXTENDS GuidService, SequenceTheorems, TLAPS

LEMMA AmountsAreNat == Amounts \subseteq Nat \ {0}
  BY GuidAssumption DEF Amounts

\* What the program counter of a caller or a worker says of its fields.
LEMMA CallerFields ==
  ASSUME NEW s \in CallerStates, s.pc # "idle"
  PROVE  s.key \in Keys /\ s.size \in Sizes
  BY DEF CallerStates

LEMMA WorkerFields ==
  ASSUME NEW s \in WorkerStates
  PROVE  /\ s.pc \in {"idle", "get", "exec", "respond"}
         /\ s.pc # "idle" => s.request \in Requests
         /\ s.pc \in {"get", "exec"} => s.tries \in Nat
         /\ s.pc = "exec" => s.n \in Nat
         /\ s.pc = "respond" => s.newGuids \in Ranges
  BY DEF WorkerStates

LEMMA RequestIsTyped ==
  ASSUME ControlTypeOK, NEW c \in Callers, caller[c].pc # "idle",
         NEW cb \in Callers \cup {None}
  PROVE  Request(c, cb) \in Requests
<1>1. caller[c].key \in Keys /\ caller[c].size \in Sizes
  BY CallerFields DEF ControlTypeOK
<1> QED BY <1>1 DEF Request, Requests, Amounts

LEMMA ControlTypeInit == Init => ControlTypeOK
  BY DEF Init, ControlTypeOK, WorkerStates, CallerStates, IdleWorker, IdleCaller

LEMMA ControlTypeStep == ControlTypeOK /\ [Next]_vars => ControlTypeOK'
<1> SUFFICES ASSUME ControlTypeOK, [Next]_vars PROVE ControlTypeOK'
  OBVIOUS
<1> USE GuidAssumption, AmountsAreNat
<1>1. ASSUME NEW k \in Keys, NewGuidService(k) PROVE ControlTypeOK'
  BY <1>1 DEF ControlTypeOK, NewGuidService, InitMaxGuid, dispVars, chanVars, boundVars
<1>2. ASSUME NEW c \in Callers, StartCall(c) PROVE ControlTypeOK'
  BY <1>2 DEF ControlTypeOK, StartCall, CallerStates, dispVars, chanVars
<1>3. ASSUME NEW c \in Callers, NEW pc \in {"check", "sendAndWait", "send", "wait", "use"},
             caller[c].pc # "idle", Goto(c, pc)
      PROVE  caller' \in [Callers -> CallerStates]
  <2>1. caller[c].key \in Keys /\ caller[c].size \in Sizes
    BY <1>3, CallerFields DEF ControlTypeOK
  <2> QED BY <1>3, <2>1 DEF ControlTypeOK, Goto, CallerStates
<1>4. ASSUME NEW c \in Callers, CheckUsage(c) PROVE ControlTypeOK'
  <2>1. \E pc \in {"sendAndWait", "send", "use"} : Goto(c, pc)
    BY <1>4 DEF CheckUsage
  <2>2. caller' \in [Callers -> CallerStates]
    BY <1>3, <1>4, <2>1 DEF CheckUsage
  <2> QED BY <1>4, <2>2 DEF CheckUsage, ControlTypeOK, dispVars, chanVars, boundVars
<1>5. ASSUME NEW c \in Callers, SendAndWait(c) PROVE ControlTypeOK'
  <2>1. caller' \in [Callers -> CallerStates] /\ Request(c, c) \in Requests
    BY <1>3, <1>5, RequestIsTyped DEF SendAndWait
  <2> QED BY <1>5, <2>1 DEF SendAndWait, ControlTypeOK, dispVars, boundVars
<1>6. ASSUME NEW c \in Callers, Send(c) PROVE ControlTypeOK'
  <2>1. caller' \in [Callers -> CallerStates] /\ Request(c, None) \in Requests
    BY <1>3, <1>6, RequestIsTyped DEF Send
  <2> QED BY <1>6, <2>1 DEF Send, ControlTypeOK, dispVars, boundVars
<1>7. ASSUME NEW c \in Callers, Use(c) PROVE ControlTypeOK'
  <2>1. caller[c].pc # "idle" /\ (Goto(c, "check") \/ caller' = [caller EXCEPT ![c] = IdleCaller])
    BY <1>7 DEF Use
  <2>2. caller' \in [Callers -> CallerStates]
    BY <1>3, <2>1, SMTT(30) DEF ControlTypeOK, CallerStates, IdleCaller
  <2> QED BY <1>7, <2>2 DEF Use, ControlTypeOK, dispVars, chanVars, boundVars
<1>8. CASE HandleRequest
  <2>1. Head(requestChan) \in Requests /\ Tail(requestChan) \in Seq(Requests)
    BY <1>8 DEF HandleRequest, ControlTypeOK
  <2>2. RequestKey(Head(requestChan)) \in Keys \X Amounts
    BY <2>1 DEF RequestKey, Requests
  <2>3. Head(requestChan).callback # None => Head(requestChan).callback \in Callers
    BY <2>1 DEF Requests
  <2>4. inProcess' \subseteq Keys \X Amounts /\ pending' \in Requests \cup {None}
    BY <1>8, <2>1, <2>2 DEF HandleRequest, ControlTypeOK
  <2>5. callbacksQueue' \subseteq (Keys \X Amounts) \X Callers
    BY <1>8, <2>2, <2>3 DEF HandleRequest, ControlTypeOK
  <2> QED BY <1>8, <2>1, <2>4, <2>5 DEF HandleRequest, ControlTypeOK, boundVars
<1>9. CASE PushRequest
  BY <1>9 DEF PushRequest, ControlTypeOK, boundVars
<1>10. CASE HandleResponse
  <2>1. responseChan' \in Seq(Responses)
    BY <1>10 DEF HandleResponse, ControlTypeOK
  <2>2. ASSUME NEW c \in Callers, NEW r, c \in Awaiting(r)
        PROVE  caller[c].key \in Keys /\ caller[c].size \in Sizes
    BY <2>2, CallerFields DEF Awaiting, ControlTypeOK
  <2>3. caller' \in [Callers -> CallerStates]
    <3> SUFFICES ASSUME NEW c \in Callers PROVE caller'[c] \in CallerStates
      BY <1>10 DEF HandleResponse
    <3>1. CASE c \in Awaiting(Head(responseChan).request)
      <4>1. caller[c].key \in Keys /\ caller[c].size \in Sizes
        BY <2>2, <3>1
      <4>2. caller'[c] = [pc |-> "check", key |-> caller[c].key, size |-> caller[c].size]
        BY <1>10, <3>1 DEF HandleResponse
      <4> QED BY <4>1, <4>2 DEF CallerStates
    <3>2. CASE c \notin Awaiting(Head(responseChan).request)
      BY <1>10, <3>2 DEF HandleResponse, ControlTypeOK
    <3> QED BY <3>1, <3>2
  <2> QED BY <1>10, <2>1, <2>3 DEF HandleResponse, NoLongerInProcess, ControlTypeOK, boundVars
<1>11. ASSUME NEW w \in Workers, NEW s \in WorkerStates, worker' = [worker EXCEPT ![w] = s]
       PROVE  worker' \in [Workers -> WorkerStates]
  BY <1>11 DEF ControlTypeOK
<1>12. ASSUME NEW w \in Workers, TakeRequest(w) PROVE ControlTypeOK'
  <2>1. [pc |-> "get", request |-> Head(requestsChan), tries |-> 0] \in WorkerStates
    BY <1>12 DEF TakeRequest, ControlTypeOK, WorkerStates
  <2>2. worker' \in [Workers -> WorkerStates]
    BY <1>11, <1>12, <2>1 DEF TakeRequest
  <2> QED BY <1>12, <2>2 DEF TakeRequest, ControlTypeOK, dispVars, boundVars
<1>13. ASSUME NEW w \in Workers, WatchAndGet(w) PROVE ControlTypeOK'
  <2>1. worker[w] \in WorkerStates
    BY DEF ControlTypeOK
  <2>2. worker[w].request \in Requests /\ worker[w].tries \in Nat
    BY <1>13, <2>1, WorkerFields DEF WatchAndGet
  <2>3. redis[worker[w].request.key] \in Nat
    BY <2>2 DEF ControlTypeOK, Requests
  <2>4. [pc |-> "exec", request |-> worker[w].request, tries |-> worker[w].tries,
         n |-> redis[worker[w].request.key]] \in WorkerStates
    BY <2>2, <2>3 DEF WorkerStates
  <2>5. worker' \in [Workers -> WorkerStates]
    BY <1>13, <2>4 DEF WatchAndGet, ControlTypeOK
  <2> QED BY <1>13, <2>5 DEF WatchAndGet, ControlTypeOK, dispVars, chanVars, boundVars
<1>14. ASSUME NEW w \in Workers, NEW g \in Ranges, worker[w].pc # "idle", Answer(w, g)
       PROVE  worker' \in [Workers -> WorkerStates]
  <2>1. worker[w].request \in Requests
    BY <1>14, WorkerFields DEF ControlTypeOK
  <2>2. [pc |-> "respond", request |-> worker[w].request, newGuids |-> g] \in WorkerStates
    BY <2>1 DEF WorkerStates
  <2> QED BY <1>14, <2>2 DEF Answer, ControlTypeOK
<1>15. NoGuids \in Ranges
  BY DEF NoGuids, Ranges
<1>16. ASSUME NEW w \in Workers, worker[w].pc = "exec"
       PROVE  /\ worker[w].request.key \in Keys /\ worker[w].tries \in Nat
              /\ NewMax(w) \in Nat /\ Reserved(w) \in Ranges /\ worker[w].request \in Requests
  <2>1. worker[w].request \in Requests /\ worker[w].n \in Nat /\ worker[w].tries \in Nat
    BY <1>16, WorkerFields DEF ControlTypeOK
  <2>2. worker[w].request.amount \in Nat /\ worker[w].request.key \in Keys
    BY <2>1 DEF Requests
  <2> QED BY <2>1, <2>2 DEF NewMax, Reserved, Ranges
<1>17. ASSUME NEW w \in Workers, Exec(w) PROVE ControlTypeOK'
  <2>0. worker[w].pc = "exec"
    BY <1>17 DEF Exec
  <2>1. worker' \in [Workers -> WorkerStates]
    <3>1. CASE Answer(w, Reserved(w)) \/ Answer(w, NoGuids)
      BY <2>0, <3>1, <1>14, <1>15, <1>16
    <3>2. CASE worker' = [worker EXCEPT ![w] = [pc |-> "get", request |-> @.request,
                                                tries |-> @.tries + 1]]
      <4>1. [pc |-> "get", request |-> worker[w].request, tries |-> worker[w].tries + 1]
              \in WorkerStates
        BY <2>0, <1>16 DEF WorkerStates
      <4> QED BY <3>2, <4>1 DEF ControlTypeOK
    <3> QED BY <1>17, <3>1, <3>2 DEF Exec
  <2>2. redis' \in [Keys -> Nat]
    BY <1>17, <2>0, <1>16, ZenonT(60) DEF Exec, ControlTypeOK
  <2> QED BY <1>17, <2>1, <2>2 DEF Exec, ControlTypeOK, dispVars, chanVars, boundVars
<1>18. ASSUME NEW w \in Workers, RedisFails(w) PROVE ControlTypeOK'
  <2>1. worker' \in [Workers -> WorkerStates]
    BY <1>14, <1>15, <1>18 DEF RedisFails
  <2>2. redis' \in [Keys -> Nat]
    BY <1>16, <1>18, ZenonT(60) DEF RedisFails, ControlTypeOK
  <2>3. /\ UNCHANGED <<boot, pool, dispVars, chanVars, caller, issued, calls, restarts>>
        /\ failures' = failures + 1
    BY <1>18 DEF RedisFails
  <2> QED BY <2>1, <2>2, <2>3 DEF ControlTypeOK, dispVars, chanVars
<1>19. ASSUME NEW w \in Workers, Respond(w) PROVE ControlTypeOK'
  <2>1. [request |-> worker[w].request, newGuids |-> worker[w].newGuids] \in Responses
    BY <1>19, WorkerFields DEF Respond, Responses, ControlTypeOK
  <2>2. worker' \in [Workers -> WorkerStates]
    BY <1>19 DEF Respond, WorkerStates, IdleWorker, ControlTypeOK
  <2> QED BY <1>19, <2>1, <2>2 DEF Respond, ControlTypeOK, dispVars, boundVars
<1>20. CASE Restart
  BY <1>20 DEF Restart, ControlTypeOK, WorkerStates, CallerStates, IdleWorker, IdleCaller
<1>21. CASE UNCHANGED vars
  BY <1>21 DEF vars, ControlTypeOK, dispVars, chanVars, boundVars
<1> QED
  BY <1>1, <1>2, <1>4, <1>5, <1>6, <1>7, <1>8, <1>9, <1>10, <1>12, <1>13, <1>17, <1>18,
     <1>19, <1>20, <1>21 DEF Next, GetGuids, Dispatcher, RequestProcessor

(***************************************************************************)
(* The channels, the dispatcher, the workers, the callers and Redis keep   *)
(* their types; in particular no reservation has a negative bound.         *)
(***************************************************************************)
THEOREM ControlTypeCorrect == Spec => []ControlTypeOK
  BY ControlTypeInit, ControlTypeStep, PTL DEF Spec
-----------------------------------------------------------------------------
(***************************************************************************)
(* The dispatcher's bookkeeping.  Serving(q) is a disjoint union of four   *)
(* sets; that it is a singleton is easier to follow set by set.            *)
(***************************************************************************)
Only(S, T, U, V) == (\E x : S = {x}) /\ T = {} /\ U = {} /\ V = {}

ServedOnce(q) ==
  \/ Only(PendingAt(q), QueuedAt(q), WorkedOnBy(q), AnsweredAt(q))
  \/ Only(QueuedAt(q), PendingAt(q), WorkedOnBy(q), AnsweredAt(q))
  \/ Only(WorkedOnBy(q), PendingAt(q), QueuedAt(q), AnsweredAt(q))
  \/ Only(AnsweredAt(q), PendingAt(q), QueuedAt(q), WorkedOnBy(q))

Unserved(q) ==
  PendingAt(q) = {} /\ QueuedAt(q) = {} /\ WorkedOnBy(q) = {} /\ AnsweredAt(q) = {}

Exact == \A q \in Keys \X Amounts : IF q \in inProcess THEN ServedOnce(q) ELSE Unserved(q)

Tagged(P, Q, W, A) ==
  ({"pending"} \X P) \cup ({"queue"} \X Q) \cup ({"worker"} \X W) \cup ({"answer"} \X A)

Singleton(U) == \E p \in U : U = {p}

LEMMA TaggedUnion ==
  ASSUME NEW P, NEW Q, NEW W, NEW A,
         \/ Only(P, Q, W, A) \/ Only(Q, P, W, A) \/ Only(W, P, Q, A) \/ Only(A, P, Q, W)
  PROVE  Singleton(Tagged(P, Q, W, A))
<1>1. ASSUME NEW p, Tagged(P, Q, W, A) = {p} PROVE Singleton(Tagged(P, Q, W, A))
  BY <1>1 DEF Singleton
<1>2. CASE Only(P, Q, W, A)
  <2> PICK x : P = {x}
    BY <1>2 DEF Only
  <2>1. Tagged(P, Q, W, A) = {<<"pending", x>>}
    BY <1>2 DEF Only, Tagged
  <2> QED BY <1>1, <2>1
<1>3. CASE Only(Q, P, W, A)
  <2> PICK x : Q = {x}
    BY <1>3 DEF Only
  <2>1. Tagged(P, Q, W, A) = {<<"queue", x>>}
    BY <1>3 DEF Only, Tagged
  <2> QED BY <1>1, <2>1
<1>4. CASE Only(W, P, Q, A)
  <2> PICK x : W = {x}
    BY <1>4 DEF Only
  <2>1. Tagged(P, Q, W, A) = {<<"worker", x>>}
    BY <1>4 DEF Only, Tagged
  <2> QED BY <1>1, <2>1
<1>5. CASE Only(A, P, Q, W)
  <2> PICK x : A = {x}
    BY <1>5 DEF Only
  <2>1. Tagged(P, Q, W, A) = {<<"answer", x>>}
    BY <1>5 DEF Only, Tagged
  <2> QED BY <1>1, <2>1
<1> QED BY <1>2, <1>3, <1>4, <1>5

LEMMA ExactImplies == Exact => InProcessIsExact
<1> SUFFICES ASSUME Exact, NEW q \in Keys \X Amounts
             PROVE  IF q \in inProcess THEN \E p \in Serving(q) : Serving(q) = {p}
                    ELSE Serving(q) = {}
  BY DEF InProcessIsExact
<1>1. CASE q \in inProcess
  <2>1. ServedOnce(q)
    BY <1>1 DEF Exact
  <2>2. Singleton(Tagged(PendingAt(q), QueuedAt(q), WorkedOnBy(q), AnsweredAt(q)))
    BY <2>1, TaggedUnion DEF ServedOnce
  <2>3. \E p \in Serving(q) : Serving(q) = {p}
    BY <2>2 DEF Serving, Tagged, Singleton
  <2> QED BY <1>1, <2>3
<1>2. CASE q \notin inProcess
  <2>1. Unserved(q)
    BY <1>2 DEF Exact
  <2>2. Serving(q) = {}
    BY <2>1 DEF Unserved, Serving
  <2> QED BY <1>2, <2>2
<1> QED BY <1>1, <1>2

LEMMA ExactInit == Init => Exact
  BY DEF Init, Exact, Unserved, PendingAt, QueuedAt, WorkedOnBy, AnsweredAt, Busy, IdleWorker

\* Two states with the same four sets and the same bookkeeping.
LEMMA ExactFrame ==
  ASSUME Exact, inProcess' = inProcess,
         \A q \in Keys \X Amounts :
           /\ PendingAt(q)' = PendingAt(q) /\ QueuedAt(q)' = QueuedAt(q)
           /\ WorkedOnBy(q)' = WorkedOnBy(q) /\ AnsweredAt(q)' = AnsweredAt(q)
  PROVE  Exact'
  BY DEF Exact, ServedOnce, Unserved, Only

\* Removing the head of a channel shifts the positions of the rest by one.
LEMMA Shift ==
  ASSUME NEW before \in SUBSET (Nat \ {0}), NEW after,
         \A i : i \in after <=> i \in Nat \ {0} /\ i + 1 \in before
  PROVE  /\ before = {} => after = {}
         /\ 1 \notin before => ((\E x : before = {x}) => \E x : after = {x})
         /\ 1 \in before => ((\E x : before = {x}) => after = {})
<1>1. ASSUME 1 \notin before, NEW x, before = {x} PROVE \E y : after = {y}
  <2>1. x \in Nat /\ x > 1
    BY <1>1
  <2>2. after = {x - 1}
    BY <1>1, <2>1
  <2> QED BY <2>2
<1>2. ASSUME 1 \in before, NEW x, before = {x} PROVE after = {}
  <2>1. before = {1}
    BY <1>2
  <2> QED BY <2>1
<1>3. before = {} => after = {}
  OBVIOUS
<1> QED BY <1>1, <1>2, <1>3

LEMMA Heads ==
  ASSUME NEW T, NEW s \in Seq(T), s # <<>>
  PROVE  /\ Head(s) = s[1] /\ 1 \in DOMAIN s
         /\ DOMAIN s \subseteq Nat \ {0}
         /\ \A i : i \in DOMAIN Tail(s) <=> i \in Nat \ {0} /\ i + 1 \in DOMAIN s
         /\ \A i \in DOMAIN Tail(s) : Tail(s)[i] = s[i + 1]
  OBVIOUS

LEMMA Appends ==
  ASSUME NEW T, NEW s \in Seq(T), NEW e \in T
  PROVE  /\ DOMAIN Append(s, e) = DOMAIN s \cup {Len(s) + 1}
         /\ Len(s) + 1 \notin DOMAIN s
         /\ Append(s, e)[Len(s) + 1] = e
         /\ \A i \in DOMAIN s : Append(s, e)[i] = s[i]
  OBVIOUS

\* A worker that keeps its request, whatever else changes, serves the same key.
LEMMA SameRequest ==
  ASSUME Exact, NEW w \in Workers, NEW t, worker \in [Workers -> WorkerStates],
         worker' = [worker EXCEPT ![w] = t], Busy(w), t.pc # "idle",
         t.request = worker[w].request,
         UNCHANGED <<inProcess, pending, requestsChan, responseChan>>
  PROVE  Exact'
<1>1. ASSUME NEW q \in Keys \X Amounts PROVE WorkedOnBy(q)' = WorkedOnBy(q)
  BY DEF WorkedOnBy, Busy
<1>2. ASSUME NEW q \in Keys \X Amounts
      PROVE  PendingAt(q)' = PendingAt(q) /\ QueuedAt(q)' = QueuedAt(q) /\ AnsweredAt(q)' = AnsweredAt(q)
  BY DEF PendingAt, QueuedAt, AnsweredAt
<1> QED BY <1>1, <1>2, ExactFrame

LEMMA ExactStep == ControlTypeOK /\ Exact /\ [Next]_vars => Exact'
<1> SUFFICES ASSUME ControlTypeOK, Exact, [Next]_vars PROVE Exact'
  OBVIOUS
<1>1. ASSUME UNCHANGED <<inProcess, pending, requestsChan, responseChan, worker>> PROVE Exact'
  BY <1>1, ExactFrame DEF PendingAt, QueuedAt, WorkedOnBy, AnsweredAt, Busy
<1>2. ASSUME NEW k \in Keys, NewGuidService(k) PROVE Exact'
  BY <1>1, <1>2 DEF NewGuidService, dispVars, chanVars
<1>3. ASSUME NEW c \in Callers, StartCall(c) \/ GetGuids(c) PROVE Exact'
  BY <1>1, <1>3 DEF StartCall, GetGuids, CheckUsage, SendAndWait, Send, Use, dispVars, chanVars
<1>4. CASE HandleRequest
  <2> DEFINE r == Head(requestChan)
  <2>1. r \in Requests
    BY <1>4 DEF HandleRequest, ControlTypeOK
  <2>2. CASE RequestKey(r) \in inProcess
    BY <1>1, <1>4, <2>2 DEF HandleRequest
  <2>3. CASE RequestKey(r) \notin inProcess
    <3> SUFFICES ASSUME NEW q \in Keys \X Amounts
                 PROVE  IF q \in inProcess' THEN ServedOnce(q)' ELSE Unserved(q)'
      BY DEF Exact
    <3>1. /\ inProcess' = inProcess \cup {RequestKey(r)} /\ pending' = r /\ pending = None
          /\ UNCHANGED <<requestsChan, responseChan, worker>>
      BY <1>4, <2>3 DEF HandleRequest
    <3>2. r # None
      BY <2>1, NoneAssumption
    <3>3. /\ QueuedAt(q)' = QueuedAt(q) /\ WorkedOnBy(q)' = WorkedOnBy(q)
          /\ AnsweredAt(q)' = AnsweredAt(q) /\ PendingAt(q) = {}
          /\ PendingAt(q)' = IF RequestKey(r) = q THEN {0} ELSE {}
      BY <3>1, <3>2 DEF QueuedAt, WorkedOnBy, AnsweredAt, PendingAt, Busy
    <3>4. CASE q = RequestKey(r)
      <4>1. Unserved(q)
        BY <2>3, <3>4 DEF Exact
      <4> QED BY <3>1, <3>3, <3>4, <4>1 DEF Unserved, ServedOnce, Only
    <3>5. CASE q # RequestKey(r)
      BY <3>1, <3>3, <3>5 DEF Exact, Unserved, ServedOnce, Only
    <3> QED BY <3>4, <3>5
  <2> QED BY <2>2, <2>3
<1>5. CASE PushRequest
  <2>1. pending \in Requests /\ requestsChan \in Seq(Requests)
    BY <1>5 DEF PushRequest, ControlTypeOK
  <2> SUFFICES ASSUME NEW q \in Keys \X Amounts
               PROVE  IF q \in inProcess' THEN ServedOnce(q)' ELSE Unserved(q)'
    BY DEF Exact
  <2>2. /\ WorkedOnBy(q)' = WorkedOnBy(q) /\ AnsweredAt(q)' = AnsweredAt(q)
        /\ PendingAt(q)' = {} /\ inProcess' = inProcess
    BY <1>5 DEF PushRequest, WorkedOnBy, AnsweredAt, PendingAt, Busy
  <2>3. QueuedAt(q)' = IF q = RequestKey(pending) THEN QueuedAt(q) \cup {Len(requestsChan) + 1}
                       ELSE QueuedAt(q)
    BY <1>5, <2>1, Appends DEF PushRequest, QueuedAt
  <2>4. PendingAt(q) = IF q = RequestKey(pending) THEN {0} ELSE {}
    BY <1>5 DEF PushRequest, PendingAt
  <2> QED BY <2>2, <2>3, <2>4, ZenonT(60) DEF Exact, ServedOnce, Unserved, Only
<1>6. CASE HandleResponse
  <2> DEFINE r == Head(responseChan).request
  <2>1. responseChan \in Seq(Responses) /\ responseChan # <<>> /\ responseChan' = Tail(responseChan)
    BY <1>6 DEF HandleResponse, ControlTypeOK
  <2> SUFFICES ASSUME NEW q \in Keys \X Amounts
               PROVE  IF q \in inProcess' THEN ServedOnce(q)' ELSE Unserved(q)'
    BY DEF Exact
  <2>2. /\ WorkedOnBy(q)' = WorkedOnBy(q) /\ QueuedAt(q)' = QueuedAt(q)
        /\ PendingAt(q)' = PendingAt(q) /\ inProcess' = inProcess \ {RequestKey(r)}
    BY <1>6 DEF HandleResponse, NoLongerInProcess, WorkedOnBy, QueuedAt, PendingAt, Busy
  <2>3. /\ AnsweredAt(q) \in SUBSET (Nat \ {0})
        /\ \A i : i \in AnsweredAt(q)' <=> i \in Nat \ {0} /\ i + 1 \in AnsweredAt(q)
        /\ 1 \in AnsweredAt(q) <=> q = RequestKey(r)
    BY <2>1, Heads DEF AnsweredAt
  <2>4. /\ AnsweredAt(q) = {} => AnsweredAt(q)' = {}
        /\ 1 \notin AnsweredAt(q) =>
             ((\E x : AnsweredAt(q) = {x}) => \E x : AnsweredAt(q)' = {x})
        /\ 1 \in AnsweredAt(q) => ((\E x : AnsweredAt(q) = {x}) => AnsweredAt(q)' = {})
    BY <2>3, Shift, ZenonT(60)
  <2> QED BY <2>2, <2>3, <2>4 DEF Exact, ServedOnce, Unserved, Only
<1>7. ASSUME NEW w \in Workers, TakeRequest(w) PROVE Exact'
  <2> DEFINE r == Head(requestsChan)
  <2>1. /\ requestsChan \in Seq(Requests) /\ requestsChan # <<>> /\ requestsChan' = Tail(requestsChan)
        /\ worker \in [Workers -> WorkerStates]
    BY <1>7 DEF TakeRequest, ControlTypeOK
  <2> SUFFICES ASSUME NEW q \in Keys \X Amounts
               PROVE  IF q \in inProcess' THEN ServedOnce(q)' ELSE Unserved(q)'
    BY DEF Exact
  <2>2. /\ AnsweredAt(q)' = AnsweredAt(q) /\ PendingAt(q)' = PendingAt(q) /\ inProcess' = inProcess
    BY <1>7 DEF TakeRequest, AnsweredAt, PendingAt, dispVars
  <2>3. /\ QueuedAt(q) \in SUBSET (Nat \ {0})
        /\ \A i : i \in QueuedAt(q)' <=> i \in Nat \ {0} /\ i + 1 \in QueuedAt(q)
        /\ 1 \in QueuedAt(q) <=> q = RequestKey(r)
    BY <2>1, Heads DEF QueuedAt
  <2>4. /\ QueuedAt(q) = {} => QueuedAt(q)' = {}
        /\ 1 \notin QueuedAt(q) =>
             ((\E x : QueuedAt(q) = {x}) => \E x : QueuedAt(q)' = {x})
        /\ 1 \in QueuedAt(q) => ((\E x : QueuedAt(q) = {x}) => QueuedAt(q)' = {})
    BY <2>3, Shift, ZenonT(60)
  <2>5. WorkedOnBy(q)' = IF q = RequestKey(r) THEN WorkedOnBy(q) \cup {w} ELSE WorkedOnBy(q)
    BY <1>7, <2>1 DEF TakeRequest, WorkedOnBy, Busy
  <2> QED BY <2>2, <2>3, <2>4, <2>5 DEF Exact, ServedOnce, Unserved, Only
<1>8. ASSUME NEW w \in Workers, WatchAndGet(w) PROVE Exact'
  <2> DEFINE t == [pc |-> "exec", request |-> worker[w].request, tries |-> worker[w].tries,
                   n |-> redis[worker[w].request.key]]
  <2>1. worker' = [worker EXCEPT ![w] = t] /\ t.pc # "idle" /\ t.request = worker[w].request
    BY <1>8 DEF WatchAndGet
  <2> HIDE DEF t
  <2> QED BY <1>8, <2>1, SameRequest DEF WatchAndGet, ControlTypeOK, Busy, dispVars, chanVars
<1>9. ASSUME NEW w \in Workers, NEW g, Answer(w, g), Busy(w),
             UNCHANGED <<inProcess, pending, requestsChan, responseChan>>
      PROVE  Exact'
  <2> DEFINE t == [pc |-> "respond", request |-> worker[w].request, newGuids |-> g]
  <2>1. worker' = [worker EXCEPT ![w] = t] /\ t.pc # "idle" /\ t.request = worker[w].request
    BY <1>9 DEF Answer
  <2> HIDE DEF t
  <2> QED BY <1>9, <2>1, SameRequest DEF ControlTypeOK
<1>10. ASSUME NEW w \in Workers, Exec(w) PROVE Exact'
  <2>1. Busy(w) /\ UNCHANGED <<inProcess, pending, requestsChan, responseChan>>
    BY <1>10 DEF Exec, Busy, dispVars, chanVars
  <2>2. CASE Answer(w, Reserved(w)) \/ Answer(w, NoGuids)
    BY <1>9, <2>1, <2>2
  <2>3. CASE worker' = [worker EXCEPT ![w] = [pc |-> "get", request |-> @.request,
                                              tries |-> @.tries + 1]]
    <3> DEFINE t == [pc |-> "get", request |-> worker[w].request, tries |-> worker[w].tries + 1]
    <3>1. worker' = [worker EXCEPT ![w] = t] /\ t.pc # "idle" /\ t.request = worker[w].request
      BY <2>3
    <3> HIDE DEF t
    <3> QED BY <2>1, <3>1, SameRequest DEF ControlTypeOK
  <2> QED BY <1>10, <2>2, <2>3 DEF Exec
<1>11. ASSUME NEW w \in Workers, RedisFails(w) PROVE Exact'
  BY <1>9, <1>11 DEF RedisFails, Busy, dispVars, chanVars
<1>12. ASSUME NEW w \in Workers, Respond(w) PROVE Exact'
  <2> DEFINE a == [request |-> worker[w].request, newGuids |-> worker[w].newGuids]
  <2>1. /\ responseChan \in Seq(Responses) /\ responseChan' = Append(responseChan, a)
        /\ worker \in [Workers -> WorkerStates]
    BY <1>12 DEF Respond, ControlTypeOK
  <2>2. a \in Responses
    BY <1>12, <2>1, WorkerFields DEF Respond, Responses
  <2> SUFFICES ASSUME NEW q \in Keys \X Amounts
               PROVE  IF q \in inProcess' THEN ServedOnce(q)' ELSE Unserved(q)'
    BY DEF Exact
  <2>3. /\ QueuedAt(q)' = QueuedAt(q) /\ PendingAt(q)' = PendingAt(q) /\ inProcess' = inProcess
    BY <1>12 DEF Respond, QueuedAt, PendingAt, dispVars
  <2>4. AnsweredAt(q)' = IF q = RequestKey(worker[w].request)
                         THEN AnsweredAt(q) \cup {Len(responseChan) + 1} ELSE AnsweredAt(q)
    BY <2>1, <2>2, Appends DEF AnsweredAt
  <2>5. WorkedOnBy(q)' = WorkedOnBy(q) \ {w} /\ (w \in WorkedOnBy(q) <=> q = RequestKey(worker[w].request))
    BY <1>12, <2>1 DEF Respond, WorkedOnBy, Busy, IdleWorker
  <2> QED BY <2>3, <2>4, <2>5, ZenonT(60) DEF Exact, ServedOnce, Unserved, Only
<1>13. CASE Restart
  BY <1>13 DEF Restart, Exact, Unserved, PendingAt, QueuedAt, WorkedOnBy, AnsweredAt, Busy, IdleWorker
<1>14. CASE UNCHANGED vars
  BY <1>1, <1>14 DEF vars, dispVars, chanVars
<1> QED
  BY <1>2, <1>3, <1>4, <1>5, <1>6, <1>7, <1>8, <1>10, <1>11, <1>12, <1>13, <1>14
     DEF Next, Dispatcher, RequestProcessor

(***************************************************************************)
(* The dispatcher's map of requests in process is exact in every reachable *)
(* state, with any number of sizes, workers, Redis errors and restarts: no *)
(* key is stuck in it and none is served twice.                            *)
(***************************************************************************)
THEOREM DispatcherIsExact == Spec => []InProcessIsExact
<1>1. Init => ControlTypeOK /\ Exact
  BY ControlTypeInit, ExactInit
<1>2. ControlTypeOK /\ Exact /\ [Next]_vars => ControlTypeOK' /\ Exact'
  BY ControlTypeStep, ExactStep
<1> QED BY <1>1, <1>2, ExactImplies, PTL DEF Spec

-----------------------------------------------------------------------------
(***************************************************************************)
(* Blocked calls.  The six places where the request that will wake a call  *)
(* can be; a step that takes it from one of them puts it into the next, or *)
(* wakes the call.                                                         *)
(***************************************************************************)
Inbox(c)   == \E i \in DOMAIN requestChan : requestChan[i].callback = c
InHand(c)  == pending # None /\ pending.callback = c
Queue(c)   == \E i \in DOMAIN requestsChan : requestsChan[i].callback = c
Worked(c)  == \E w \in Workers : Busy(w) /\ worker[w].request.callback = c
Answers(c) == \E i \in DOMAIN responseChan : responseChan[i].request.callback = c
Parked(c)  == \E q \in inProcess : <<q, c>> \in callbacksQueue

Known(c) == Inbox(c) \/ InHand(c) \/ Queue(c) \/ Worked(c) \/ Answers(c) \/ Parked(c)

NoneLost == \A c \in Callers : caller[c].pc = "wait" => Known(c)

LEMMA NoneLostImplies == NoneLost => NoLostCaller
  BY DEF NoneLost, NoLostCaller, Known, Inbox, InHand, Queue, Worked, Answers, Parked

\* No request moves, and nobody begins to wait.
LEMMA KnownFrame ==
  ASSUME NoneLost, UNCHANGED <<requestChan, pending, requestsChan, responseChan,
                               inProcess, callbacksQueue>>,
         \A w \in Workers : /\ Busy(w)' <=> Busy(w)
                            /\ Busy(w) => worker'[w].request = worker[w].request,
         \A c \in Callers : caller'[c].pc = "wait" => caller[c].pc = "wait"
  PROVE  NoneLost'
<1>1. \A c \in Callers : Known(c) => Known(c)'
  BY DEF Known, Inbox, InHand, Queue, Worked, Answers, Parked
<1> QED BY <1>1 DEF NoneLost

\* A request sent to the dispatcher leaves the others where they are.
LEMMA KnownSend ==
  ASSUME ControlTypeOK, NEW r \in Requests, requestChan' = Append(requestChan, r),
         UNCHANGED <<pending, requestsChan, responseChan, inProcess, callbacksQueue, worker>>,
         NEW c \in Callers, Known(c) \/ r.callback = c
  PROVE  Known(c)'
<1>1. requestChan \in Seq(Requests)
  BY DEF ControlTypeOK
<1>2. Inbox(c) \/ r.callback = c => Inbox(c)'
  BY <1>1, Appends DEF Inbox
<1>3. (InHand(c) => InHand(c)') /\ (Queue(c) => Queue(c)') /\ (Answers(c) => Answers(c)')
      /\ (Parked(c) => Parked(c)') /\ (Worked(c) => Worked(c)')
  BY DEF InHand, Queue, Answers, Parked, Worked, Busy
<1> QED BY <1>2, <1>3 DEF Known

LEMMA NoneLostInit == Init => NoneLost
  BY DEF Init, NoneLost, IdleCaller

LEMMA NoneLostStep == ControlTypeOK /\ NoneLost /\ [Next]_vars => NoneLost'
<1> SUFFICES ASSUME ControlTypeOK, NoneLost, [Next]_vars PROVE NoneLost'
  OBVIOUS
<1>1. /\ requestChan \in Seq(Requests) /\ requestsChan \in Seq(Requests)
      /\ responseChan \in Seq(Responses) /\ pending \in Requests \cup {None}
      /\ worker \in [Workers -> WorkerStates] /\ caller \in [Callers -> CallerStates]
  BY DEF ControlTypeOK
<1>2. ASSUME UNCHANGED <<requestChan, pending, requestsChan, responseChan, inProcess,
                         callbacksQueue, worker>>,
             \A c \in Callers : caller'[c].pc = "wait" => caller[c].pc = "wait"
      PROVE  NoneLost'
  BY <1>2, KnownFrame DEF Busy
<1>3. ASSUME NEW k \in Keys, NewGuidService(k) PROVE NoneLost'
  BY <1>2, <1>3 DEF NewGuidService, dispVars, chanVars
<1>4. ASSUME NEW c \in Callers, StartCall(c) \/ CheckUsage(c) PROVE NoneLost'
  <2>1. \A d \in Callers : caller'[d].pc = "wait" => caller[d].pc = "wait"
    <3>1. CASE StartCall(c)
      BY <1>1, <3>1 DEF StartCall
    <3>2. CASE CheckUsage(c)
      <4>1. \E p \in {"sendAndWait", "send", "use"} : Goto(c, p)
        BY <3>2 DEF CheckUsage
      <4> QED BY <1>1, <4>1 DEF Goto
    <3> QED BY <1>4, <3>1, <3>2
  <2> QED BY <1>2, <1>4, <2>1 DEF StartCall, CheckUsage, dispVars, chanVars
<1>5. ASSUME NEW c \in Callers, Use(c) PROVE NoneLost'
  <2>1. \A d \in Callers : caller'[d].pc = "wait" => caller[d].pc = "wait"
    BY <1>1, <1>5 DEF Use, Goto, IdleCaller
  <2> QED BY <1>2, <1>5, <2>1 DEF Use, dispVars, chanVars
<1>6. ASSUME NEW c \in Callers, SendAndWait(c) \/ Send(c) PROVE NoneLost'
  <2>1. PICK b \in {c, None} :
          /\ requestChan' = Append(requestChan, Request(c, b))
          /\ caller'[c].pc = "wait" => b = c
    BY <1>1, <1>6 DEF SendAndWait, Send, Goto
  <2>2. Request(c, b) \in Requests /\ Request(c, b).callback = b
    <3>1. caller[c].pc # "idle"
      BY <1>6 DEF SendAndWait, Send
    <3> QED BY <3>1, RequestIsTyped DEF Request
  <2>3. UNCHANGED <<pending, requestsChan, responseChan, inProcess, callbacksQueue, worker>>
    BY <1>6 DEF SendAndWait, Send, dispVars
  <2>4. \A d \in Callers : d # c => caller'[d] = caller[d]
    BY <1>1, <1>6 DEF SendAndWait, Send, Goto
  <2>5. ASSUME NEW d \in Callers, caller'[d].pc = "wait" PROVE Known(d)'
    <3>1. Known(d) \/ b = d
      BY <2>1, <2>4, <2>5 DEF NoneLost
    <3> QED BY <2>1, <2>2, <2>3, <3>1, KnownSend
  <2> QED BY <2>5 DEF NoneLost
<1>7. CASE HandleRequest
  <2> DEFINE r == Head(requestChan)
  <2>1. /\ requestChan # <<>> /\ requestChan' = Tail(requestChan) /\ pending = None
        /\ UNCHANGED <<requestsChan, responseChan, worker, caller>>
    BY <1>7 DEF HandleRequest
  <2>2. r \in Requests /\ r # None
    BY <1>1, <2>1, Heads, NoneAssumption
  <2>3. \/ /\ RequestKey(r) \in inProcess
           /\ callbacksQueue' = IF r.callback = None THEN callbacksQueue
                                ELSE callbacksQueue \cup {<<RequestKey(r), r.callback>>}
           /\ UNCHANGED <<inProcess, pending>>
        \/ /\ inProcess' = inProcess \cup {RequestKey(r)}
           /\ pending' = r /\ callbacksQueue' = callbacksQueue
    BY <1>7 DEF HandleRequest
  <2>4. inProcess \subseteq inProcess' /\ callbacksQueue \subseteq callbacksQueue'
    BY <2>3
  <2>5. ASSUME NEW c \in Callers, Known(c) PROVE Known(c)'
    <3>1. CASE Inbox(c)
      <4>1. PICK i \in DOMAIN requestChan : requestChan[i].callback = c
        BY <3>1 DEF Inbox
      <4>2. CASE i = 1
        <5>1. r.callback = c /\ c # None
          BY <1>1, <2>1, <4>1, <4>2, Heads, GuidAssumption
        <5> HIDE DEF r
        <5>2. InHand(c)' \/ Parked(c)'
          BY <2>2, <2>3, <5>1 DEF InHand, Parked
        <5> QED BY <5>2 DEF Known
      <4>3. CASE i # 1
        <5>1. i - 1 \in DOMAIN Tail(requestChan) /\ Tail(requestChan)[i - 1] = requestChan[i]
          BY <1>1, <2>1, <4>1, <4>3, Heads
        <5>2. Inbox(c)'
          BY <2>1, <4>1, <5>1 DEF Inbox
        <5> QED BY <5>2 DEF Known
      <4> QED BY <4>2, <4>3
    <3>2. CASE InHand(c)
      BY <2>1, <3>2 DEF InHand
    <3>3. CASE Queue(c) \/ Worked(c) \/ Answers(c)
      BY <2>1, <3>3 DEF Queue, Worked, Answers, Known, Busy
    <3>4. CASE Parked(c)
      BY <2>4, <3>4 DEF Parked, Known
    <3> QED BY <2>5, <3>1, <3>2, <3>3, <3>4 DEF Known
  <2> QED BY <2>1, <2>5 DEF NoneLost
<1>8. CASE PushRequest
  <2>1. /\ pending # None /\ requestsChan' = Append(requestsChan, pending)
        /\ UNCHANGED <<requestChan, responseChan, worker, caller, inProcess, callbacksQueue>>
    BY <1>8 DEF PushRequest
  <2>2. ASSUME NEW c \in Callers, Known(c) PROVE Known(c)'
    <3>1. CASE InHand(c)
      <4>1. Queue(c)'
        BY <1>1, <2>1, <3>1, Appends DEF InHand, Queue
      <4> QED BY <4>1 DEF Known
    <3>2. CASE Queue(c)
      <4>1. Queue(c)'
        BY <1>1, <2>1, <3>2, Appends DEF Queue
      <4> QED BY <4>1 DEF Known
    <3>3. CASE Inbox(c) \/ Worked(c) \/ Answers(c) \/ Parked(c)
      BY <2>1, <3>3 DEF Inbox, Worked, Answers, Parked, Known, Busy
    <3> QED BY <2>2, <3>1, <3>2, <3>3 DEF Known
  <2> QED BY <2>1, <2>2 DEF NoneLost
<1>9. CASE HandleResponse
  <2> DEFINE r == Head(responseChan).request
  <2>1. /\ responseChan # <<>> /\ responseChan' = Tail(responseChan)
        /\ caller' = [c \in Callers |-> IF c \in Awaiting(r)
                                        THEN [pc |-> "check", key |-> caller[c].key,
                                              size |-> caller[c].size]
                                        ELSE caller[c]]
        /\ callbacksQueue' = {q \in callbacksQueue : q[1] # RequestKey(r)}
        /\ inProcess' = inProcess \ {RequestKey(r)}
        /\ UNCHANGED <<requestChan, pending, requestsChan, worker>>
    BY <1>9 DEF HandleResponse, NoLongerInProcess
  <2> HIDE DEF r
  <2>2. ASSUME NEW c \in Callers, caller'[c].pc = "wait"
        PROVE  /\ caller[c].pc = "wait" /\ c # r.callback
               /\ <<RequestKey(r), c>> \notin callbacksQueue
    BY <2>1, <2>2 DEF Awaiting
  <2>3. ASSUME NEW c \in Callers, caller'[c].pc = "wait" PROVE Known(c)'
    <3>1. Known(c)
      BY <2>2, <2>3 DEF NoneLost
    <3>2. CASE Answers(c)
      <4>1. PICK i \in DOMAIN responseChan : responseChan[i].request.callback = c
        BY <3>2 DEF Answers
      <4>2. i # 1
        <5>1. r = responseChan[1].request
          BY <1>1, <2>1 DEF r
        <5>2. c # r.callback
          BY <2>2, <2>3
        <5> QED BY <4>1, <5>1, <5>2
      <4>3. i - 1 \in DOMAIN Tail(responseChan) /\ Tail(responseChan)[i - 1] = responseChan[i]
        BY <1>1, <2>1, <4>1, <4>2, Heads
      <4>4. Answers(c)'
        BY <2>1, <4>1, <4>3 DEF Answers
      <4> QED BY <4>4 DEF Known
    <3>3. CASE Parked(c)
      <4>1. PICK q \in inProcess : <<q, c>> \in callbacksQueue
        BY <3>3 DEF Parked
      <4>2. q # RequestKey(r)
        BY <2>2, <2>3, <4>1
      <4>3. <<q, c>>[1] = q
        OBVIOUS
      <4>4. <<q, c>> \in callbacksQueue' /\ q \in inProcess'
        BY <2>1, <4>1, <4>2, <4>3
      <4>5. Parked(c)'
        BY <4>4 DEF Parked
      <4> QED BY <4>5 DEF Known
    <3>4. CASE Inbox(c) \/ InHand(c) \/ Queue(c) \/ Worked(c)
      BY <2>1, <3>4 DEF Inbox, InHand, Queue, Worked, Known, Busy
    <3> QED BY <3>1, <3>2, <3>3, <3>4 DEF Known
  <2> QED BY <2>3 DEF NoneLost
<1>10. ASSUME NEW w \in Workers, TakeRequest(w) PROVE NoneLost'
  <2>1. /\ requestsChan # <<>> /\ requestsChan' = Tail(requestsChan) /\ ~Busy(w) /\ Busy(w)'
        /\ worker'[w].request = Head(requestsChan)
        /\ \A v \in Workers : v # w => worker'[v] = worker[v]
        /\ UNCHANGED <<requestChan, pending, responseChan, caller, inProcess, callbacksQueue>>
    BY <1>1, <1>10 DEF TakeRequest, Busy, dispVars
  <2>2. ASSUME NEW c \in Callers, Known(c) PROVE Known(c)'
    <3>1. CASE Queue(c)
      <4>1. PICK i \in DOMAIN requestsChan : requestsChan[i].callback = c
        BY <3>1 DEF Queue
      <4>2. CASE i = 1
        <5>1. Worked(c)'
          BY <1>1, <2>1, <4>1, <4>2, Heads DEF Worked
        <5> QED BY <5>1 DEF Known
      <4>3. CASE i # 1
        <5>1. i - 1 \in DOMAIN Tail(requestsChan) /\ Tail(requestsChan)[i - 1] = requestsChan[i]
          BY <1>1, <2>1, <4>1, <4>3, Heads
        <5>2. Queue(c)'
          BY <2>1, <4>1, <5>1 DEF Queue
        <5> QED BY <5>2 DEF Known
      <4> QED BY <4>2, <4>3
    <3>2. CASE Worked(c)
      <4>1. PICK v \in Workers : Busy(v) /\ worker[v].request.callback = c
        BY <3>2 DEF Worked
      <4>2. v # w
        BY <2>1, <4>1
      <4>3. Worked(c)'
        BY <2>1, <4>1, <4>2 DEF Worked, Busy
      <4> QED BY <4>3 DEF Known
    <3>3. CASE Inbox(c) \/ InHand(c) \/ Answers(c) \/ Parked(c)
      BY <2>1, <3>3 DEF Inbox, InHand, Answers, Parked, Known
    <3> QED BY <2>2, <3>1, <3>2, <3>3 DEF Known
  <2> QED BY <2>1, <2>2 DEF NoneLost
<1>11. ASSUME NEW w \in Workers, WatchAndGet(w) \/ Exec(w) \/ RedisFails(w) PROVE NoneLost'
  <2>1. /\ Busy(w) /\ Busy(w)' /\ worker'[w].request = worker[w].request
        /\ \A v \in Workers : v # w => worker'[v] = worker[v]
    BY <1>1, <1>11 DEF WatchAndGet, Exec, RedisFails, Answer, Busy
  <2>2. \A v \in Workers : /\ Busy(v)' <=> Busy(v)
                           /\ Busy(v) => worker'[v].request = worker[v].request
    BY <2>1 DEF Busy
  <2> QED BY <1>11, <2>2, KnownFrame DEF WatchAndGet, Exec, RedisFails, dispVars, chanVars
<1>12. ASSUME NEW w \in Workers, Respond(w) PROVE NoneLost'
  <2> DEFINE a == [request |-> worker[w].request, newGuids |-> worker[w].newGuids]
  <2>1. /\ responseChan' = Append(responseChan, a) /\ ~Busy(w)'
        /\ \A v \in Workers : v # w => worker'[v] = worker[v]
        /\ UNCHANGED <<requestChan, pending, requestsChan, caller, inProcess, callbacksQueue>>
    BY <1>1, <1>12 DEF Respond, Busy, IdleWorker, dispVars
  <2>2. a \in Responses /\ a.request = worker[w].request
    BY <1>1, <1>12, WorkerFields DEF Respond, Responses
  <2> HIDE DEF a
  <2>3. ASSUME NEW c \in Callers, Known(c) PROVE Known(c)'
    <3>1. CASE Worked(c)
      <4>1. PICK v \in Workers : Busy(v) /\ worker[v].request.callback = c
        BY <3>1 DEF Worked
      <4>2. CASE v = w
        <5>1. Answers(c)'
          BY <1>1, <2>1, <2>2, <4>1, <4>2, Appends DEF Answers
        <5> QED BY <5>1 DEF Known
      <4>3. CASE v # w
        <5>1. Worked(c)'
          BY <2>1, <4>1, <4>3 DEF Worked, Busy
        <5> QED BY <5>1 DEF Known
      <4> QED BY <4>2, <4>3
    <3>2. CASE Answers(c)
      <4>1. Answers(c)'
        BY <1>1, <2>1, <2>2, <3>2, Appends DEF Answers
      <4> QED BY <4>1 DEF Known
    <3>3. CASE Inbox(c) \/ InHand(c) \/ Queue(c) \/ Parked(c)
      BY <2>1, <3>3 DEF Inbox, InHand, Queue, Parked, Known
    <3> QED BY <2>3, <3>1, <3>2, <3>3 DEF Known
  <2> QED BY <2>1, <2>3 DEF NoneLost
<1>13. CASE Restart
  BY <1>13 DEF Restart, NoneLost, IdleCaller
<1>14. CASE UNCHANGED vars
  BY <1>2, <1>14 DEF vars, dispVars, chanVars
<1> QED
  BY <1>3, <1>4, <1>5, <1>6, <1>7, <1>8, <1>9, <1>10, <1>11, <1>12, <1>13, <1>14
  DEF Next, GetGuids, Dispatcher, RequestProcessor

(***************************************************************************)
(* A blocked GetGUIDPool call is never forgotten: the request that will    *)
(* wake it is somewhere between its goroutine and the dispatcher, for any  *)
(* number of calls, workers and keys, whatever Redis answers and however   *)
(* often the process restarts.                                             *)
(***************************************************************************)
THEOREM CallersAreKnown == Spec => []NoLostCaller
<1>1. Init => ControlTypeOK /\ NoneLost
  BY ControlTypeInit, NoneLostInit
<1>2. ControlTypeOK /\ NoneLost /\ [Next]_vars => ControlTypeOK' /\ NoneLost'
  BY ControlTypeStep, NoneLostStep
<1> QED BY <1>1, <1>2, NoneLostImplies, PTL DEF Spec

(***************************************************************************)
(* Guids are unique when every game server asks for the same desired size  *)
(* of a kind of guid (Sizes = {S}) and Redis answers (MaxFailures = 0):    *)
(* for any number of keys, callers, workers and restarts.  Both conditions *)
(* are needed: without either TLC finds a guid handed out twice.           *)
(***************************************************************************)

-----------------------------------------------------------------------------
(* UseGuids and AddDiapason on a list of one range                         *)

LEMMA FirstOfOne == FirstOf({1}) = 1
  BY DEF FirstOf

LEMMA FirstOfNone == FirstOf({}) = 0
  BY DEF FirstOf

LEMMA CoveringHead ==
  ASSUME NEW d \in Diapasons, NEW n \in Nat \ {0}, n <= GuidsLeft(d)
  PROVE  Covering(<<d>>, n) = 1 /\ Remaining(<<d>>, n, 1) = n
<1>1. Remaining(<<d>>, n, 1) = n
  BY DEF Remaining
<1>2. {i \in DOMAIN <<d>> : Remaining(<<d>>, n, i) <= GuidsLeft(<<d>>[i])} = {1}
  BY <1>1
<1> QED BY <1>1, <1>2, FirstOfOne DEF Covering

LEMMA UseOfOne ==
  ASSUME NEW d \in Diapasons, NEW n \in Nat \ {0}, d.cur + n <= d.end + 1
  PROVE  /\ UsedGuids(<<d>>, n) = <<[start |-> d.cur, end |-> d.cur - 1 + n]>>
         /\ AfterUse(<<d>>, n) = IF d.cur + n = d.end + 1 THEN <<>>
                                 ELSE <<[d EXCEPT !.cur = d.cur + n]>>
<1>0. d.cur \in Nat /\ d.end \in Nat
  BY DEF Diapasons
<1>1. n <= GuidsLeft(d)
  BY <1>0 DEF GuidsLeft
<1>2. Covering(<<d>>, n) = 1 /\ Remaining(<<d>>, n, 1) = n
  BY <1>1, CoveringHead
<1>3. UsedGuids(<<d>>, n) = <<[start |-> d.cur, end |-> d.cur - 1 + n]>>
  BY <1>2 DEF UsedGuids
<1> DEFINE e == [d EXCEPT !.cur = d.cur + n]
<1>4. AfterUse(<<d>>, n) = CleanupEmpty(<<e>>)
  BY <1>2 DEF AfterUse
<1>5. e.cur = d.cur + n /\ e.end = d.end
  BY DEF Diapasons
<1> HIDE DEF e
<1>6. DOMAIN <<e>> = {1} /\ <<e>>[1] = e
  OBVIOUS
<1>7. CASE d.cur + n = d.end + 1
  <2>0. GuidsLeft(e) = 0
    BY <1>0, <1>5, <1>7 DEF GuidsLeft
  <2>1. {i \in DOMAIN <<e>> : GuidsLeft(<<e>>[i]) # 0} = {}
    BY <1>6, <2>0
  <2>2. CleanupEmpty(<<e>>) = <<>>
    BY <2>1, FirstOfNone DEF CleanupEmpty
  <2> QED BY <1>3, <1>4, <1>7, <2>2
<1>8. CASE d.cur + n # d.end + 1
  <2>0. GuidsLeft(e) # 0
    BY <1>0, <1>5, <1>8 DEF GuidsLeft
  <2>1. {i \in DOMAIN <<e>> : GuidsLeft(<<e>>[i]) # 0} = {1}
    BY <1>6, <2>0
  <2>2. Len(<<e>>) = 1 /\ <<e>> \in Seq({e})
    OBVIOUS
  <2>3. FirstOf({i \in DOMAIN <<e>> : GuidsLeft(<<e>>[i]) # 0}) = 1
    BY <2>1, FirstOfOne
  <2>5. CleanupEmpty(<<e>>) = SubSeq(<<e>>, 1, Len(<<e>>))
    <3>1. 1 # 0
      OBVIOUS
    <3> QED BY <2>3, <3>1, Zenon DEF CleanupEmpty
  <2>4. SubSeq(<<e>>, 1, Len(<<e>>)) = <<e>>
    BY <2>2, SubSeqFull
  <2> QED BY <1>3, <1>4, <1>8, <2>5, <2>4 DEF e
<1> QED BY <1>7, <1>8

LEMMA UseOfNone ==
  ASSUME NEW n \in Nat \ {0}
  PROVE  UsedGuids(<<>>, n) = <<>> /\ AfterUse(<<>>, n) = <<>>
<1>1. {i \in DOMAIN <<>> : Remaining(<<>>, n, i) <= GuidsLeft(<<>>[i])} = {}
  OBVIOUS
<1>2. Covering(<<>>, n) = 0
  BY <1>1, FirstOfNone DEF Covering
<1>3. UsedGuids(<<>>, n) = <<>>
  BY <1>2 DEF UsedGuids
<1>4. {i \in DOMAIN <<>> : GuidsLeft(<<>>[i]) # 0} = {}
  OBVIOUS
<1>5. AfterUse(<<>>, n) = <<>>
  BY <1>2, <1>4, FirstOfNone DEF AfterUse, CleanupEmpty
<1> QED BY <1>3, <1>5

LEMMA AddToNone ==
  ASSUME NEW r
  PROVE  AddDiapason(<<>>, r) = <<[start |-> r.start, end |-> r.end, cur |-> r.start]>>
  BY DEF AddDiapason

LEMMA AddToOne ==
  ASSUME NEW d \in Diapasons, NEW r \in Ranges, r.start = d.end + 1
  PROVE  AddDiapason(<<d>>, r) = <<[d EXCEPT !.end = r.end]>>
<1>1. d.end \in Nat /\ r.start \in Nat
  BY DEF Diapasons, Ranges
<1>2. Len(<<d>>) = 1 /\ <<d>>[1] = d /\ <<d>> # <<>>
  OBVIOUS
<1>3. d.end = r.start - 1
  BY <1>1
<1>4. AddDiapason(<<d>>, r) = [<<d>> EXCEPT ![1].end = r.end]
  BY <1>2, <1>3 DEF AddDiapason
<1> QED BY <1>4

\* Guids left in steps of S: taking S leaves a multiple of S.
LEMMA Multiples ==
  ASSUME NEW S \in Nat \ {0}, NEW m \in Nat, m * S > 0
  PROVE  m * S >= S /\ \E l \in Nat : m * S - S = l * S
<1>1. m # 0
  OBVIOUS
<1>2. m - 1 \in Nat /\ (m - 1) * S = m * S - S
  BY <1>1
<1>3. (m - 1) * S >= 0
  BY <1>2
<1> QED BY <1>2, <1>3

-----------------------------------------------------------------------------
(* The inductive invariant                                                 *)

Uniform(S) == S \in Nat \ {0} /\ Sizes = {S} /\ MaxFailures = 0

AnsweredBy(k) == {w \in Workers : worker[w].pc = "respond" /\ worker[w].request.key = k}
AnsweredIn(k) == {i \in DOMAIN responseChan : responseChan[i].request.key = k}
OnItsWay(k) == AnsweredBy(k) # {} \/ AnsweredIn(k) # {}

\* The last guid that has reached the list, and the range that has not.
Top(S, k) == IF OnItsWay(k) THEN redis[k] - S * Multiplier ELSE redis[k]
Latest(S, k) == [start |-> redis[k] - S * Multiplier + 1, end |-> redis[k]]

\* While NewGuidService runs there is nobody to serve.
Quiet ==
  boot # {} =>
    /\ requestChan = <<>> /\ requestsChan = <<>> /\ responseChan = <<>> /\ pending = None
    /\ \A w \in Workers : worker[w].pc = "idle"
    /\ \A c \in Callers : caller[c].pc = "idle"
    /\ \A k \in Keys : pool[k] = <<>>

\* Redis is above MySQL unless NewGuidService has yet to see to it.
Started == \A k \in Keys : redis[k] >= ExistingMax[k] \/ (k \in boot /\ redis[k] = 0)

\* Nobody writes a key between a worker's GET and its EXEC.
Current == \A w \in Workers : worker[w].pc = "exec" => worker[w].n = redis[worker[w].request.key]

\* An answer on its way is the last reservation made.
AnswersOK(S) ==
  \A k \in Keys :
    /\ \A w \in AnsweredBy(k) : worker[w].newGuids = Latest(S, k)
    /\ \A i \in AnsweredIn(k) : responseChan[i].newGuids = Latest(S, k)
    /\ OnItsWay(k) => redis[k] - S * Multiplier >= ExistingMax[k]

Whole(S, k, d) ==
  /\ ExistingMax[k] < d.cur /\ d.cur <= d.end /\ d.end = Top(S, k)
  /\ \E m \in Nat : d.end + 1 - d.cur = m * S

\* The list is empty or one range of a multiple of S guids that ends at Top.
ListOK(S) ==
  /\ pool \in [Keys -> Seq(Diapasons)]
  /\ \A k \in Keys : pool[k] = <<>> \/ \E d \in Diapasons : pool[k] = <<d>> /\ Whole(S, k, d)

\* What was issued is in ascending order and below what is left.
IssuedOK(S) ==
  /\ issued \in [Keys -> Seq(Ranges)]
  /\ \A k \in Keys :
       /\ \A i \in DOMAIN issued[k] :
            /\ ExistingMax[k] < issued[k][i].start /\ issued[k][i].end <= Top(S, k)
            /\ pool[k] # <<>> => issued[k][i].end < pool[k][1].cur
       /\ \A i, j \in DOMAIN issued[k] : i < j => issued[k][i].end < issued[k][j].start

UInv(S) ==
  /\ ControlTypeOK /\ Exact
  /\ Quiet /\ Started /\ Current /\ AnswersOK(S) /\ ListOK(S) /\ IssuedOK(S)

-----------------------------------------------------------------------------
LEMMA UniformAmount ==
  ASSUME NEW S, Uniform(S)
  PROVE  Amounts = {S * Multiplier} /\ S * Multiplier \in Nat \ {0}
  BY GuidAssumption DEF Uniform, Amounts

LEMMA UniformKey ==
  ASSUME NEW S, Uniform(S), NEW r \in Requests, NEW k \in Keys
  PROVE  /\ r.amount = S * Multiplier /\ r.key \in Keys
         /\ RequestKey(r) = <<k, S * Multiplier>> <=> r.key = k
<1>1. r.amount = S * Multiplier /\ r.key \in Keys
  BY UniformAmount DEF Requests
<1> QED BY <1>1 DEF RequestKey

\* One size: a key is served by one worker, or one answer, at a time.
LEMMA Alone ==
  ASSUME NEW S, Uniform(S), ControlTypeOK, Exact, NEW k \in Keys
  PROVE  /\ \A v, w \in Workers :
              (Busy(v) /\ worker[v].request.key = k /\ Busy(w) /\ worker[w].request.key = k)
                => v = w
         /\ \A w \in Workers : Busy(w) /\ worker[w].request.key = k => AnsweredIn(k) = {}
         /\ \A i, j \in AnsweredIn(k) : i = j
<1> DEFINE q == <<k, S * Multiplier>>
<1>1. q \in Keys \X Amounts
  BY UniformAmount
<1>2. ASSUME NEW w \in Workers, Busy(w)
      PROVE  worker[w].request \in Requests
  BY <1>2, WorkerFields DEF Busy, ControlTypeOK
<1>3. ASSUME NEW i \in DOMAIN responseChan
      PROVE  responseChan[i].request \in Requests
  <2>1. responseChan[i] \in Responses
    BY <1>3 DEF ControlTypeOK
  <2> QED BY <2>1 DEF Responses
<1>4. \A w \in Workers : w \in WorkedOnBy(q) <=> Busy(w) /\ worker[w].request.key = k
  BY <1>2, UniformKey DEF WorkedOnBy
<1>5. AnsweredAt(q) = AnsweredIn(k)
  BY <1>3, UniformKey DEF AnsweredAt, AnsweredIn
<1>6. ServedOnce(q) \/ Unserved(q)
  BY <1>1 DEF Exact
<1> HIDE DEF q
<1>7. \A v, w \in WorkedOnBy(q) : v = w
  BY <1>6 DEF ServedOnce, Unserved, Only
<1>8. WorkedOnBy(q) # {} => AnsweredAt(q) = {}
  BY <1>6 DEF ServedOnce, Unserved, Only
<1>9. \A i, j \in AnsweredAt(q) : i = j
  BY <1>6 DEF ServedOnce, Unserved, Only
<1>10. ASSUME NEW v \in Workers, NEW w \in Workers, Busy(v), worker[v].request.key = k,
              Busy(w), worker[w].request.key = k
       PROVE  v = w
  BY <1>4, <1>7, <1>10
<1>11. ASSUME NEW w \in Workers, Busy(w), worker[w].request.key = k
       PROVE  AnsweredIn(k) = {}
  BY <1>4, <1>5, <1>8, <1>11
<1>12. \A i, j \in AnsweredIn(k) : i = j
  BY <1>5, <1>9
<1> QED BY <1>10, <1>11, <1>12

LEMMA UInvInit == ASSUME NEW S, Uniform(S), Init PROVE UInv(S)
<1>1. ControlTypeOK /\ Exact
  BY ControlTypeInit, ExactInit
<1>2. Quiet /\ Started /\ Current
  BY GuidAssumption DEF Init, Quiet, Started, Current, IdleWorker, IdleCaller
<1>3. \A k \in Keys : AnsweredBy(k) = {} /\ AnsweredIn(k) = {}
  BY DEF Init, AnsweredBy, AnsweredIn, IdleWorker
<1>4. AnswersOK(S)
  BY <1>3 DEF AnswersOK, OnItsWay
<1>5. ListOK(S) /\ IssuedOK(S)
  BY DEF Init, ListOK, IssuedOK
<1> QED BY <1>1, <1>2, <1>4, <1>5 DEF UInv

-----------------------------------------------------------------------------
(* The parts of the invariant that do not look at guids                    *)

\* Only NewGuidService and Restart happen while the service is not up.
LEMMA ServingNeedsBoot ==
  ASSUME ControlTypeOK, Quiet, Next,
         ~(\E k \in Keys : NewGuidService(k)), ~Restart
  PROVE  boot = {} /\ boot' = boot
<1>1. ASSUME NEW c \in Callers, StartCall(c) PROVE boot = {} /\ boot' = boot
  BY <1>1 DEF StartCall
<1>2. ASSUME NEW c \in Callers, GetGuids(c) PROVE boot = {} /\ boot' = boot
  <2>1. caller[c].pc # "idle" /\ boot' = boot
    BY <1>2 DEF GetGuids, CheckUsage, SendAndWait, Send, Use
  <2> QED BY <2>1 DEF Quiet
<1>3. CASE Dispatcher
  BY <1>3 DEF Dispatcher, HandleRequest, PushRequest, HandleResponse, Quiet
<1>4. ASSUME NEW w \in Workers, RequestProcessor(w) \/ RedisFails(w)
      PROVE  boot = {} /\ boot' = boot
  <2>1. boot' = boot /\ (worker[w].pc # "idle" \/ requestsChan # <<>>)
    BY <1>4 DEF RequestProcessor, RedisFails, TakeRequest, WatchAndGet, Exec, Respond
  <2> QED BY <2>1 DEF Quiet
<1> QED BY <1>1, <1>2, <1>3, <1>4 DEF Next

LEMMA QuietStep == ControlTypeOK /\ Quiet /\ [Next]_vars => Quiet'
<1> SUFFICES ASSUME ControlTypeOK, Quiet, [Next]_vars PROVE Quiet'
  OBVIOUS
<1>1. ASSUME NEW k \in Keys, NewGuidService(k) PROVE Quiet'
  BY <1>1 DEF NewGuidService, Quiet, dispVars, chanVars
<1>2. CASE Restart
  BY <1>2 DEF Restart, Quiet, IdleWorker, IdleCaller
<1>3. CASE UNCHANGED vars
  BY <1>3 DEF vars, Quiet, dispVars, chanVars
<1>4. CASE Next /\ ~(\E k \in Keys : NewGuidService(k)) /\ ~Restart
  BY <1>4, ServingNeedsBoot DEF Quiet
<1> QED BY <1>1, <1>2, <1>3, <1>4

\* Without Redis errors only a successful EXEC and NewGuidService write Redis.
LEMMA RedisStep ==
  ASSUME NEW S, Uniform(S), ControlTypeOK, [Next]_vars
  PROVE  \/ redis' = redis
         \/ \E k \in Keys : NewGuidService(k)
         \/ \E w \in Workers : Exec(w) /\ redis[worker[w].request.key] = worker[w].n
<1>1. ASSUME NEW w \in Workers, RedisFails(w) PROVE FALSE
  BY <1>1 DEF RedisFails, Uniform, ControlTypeOK
<1>2. ASSUME NEW c \in Callers, StartCall(c) \/ GetGuids(c) PROVE redis' = redis
  BY <1>2 DEF StartCall, GetGuids, CheckUsage, SendAndWait, Send, Use
<1>3. ASSUME Dispatcher \/ Restart \/ UNCHANGED vars PROVE redis' = redis
  BY <1>3 DEF Dispatcher, HandleRequest, PushRequest, HandleResponse, Restart, vars
<1>4. ASSUME NEW w \in Workers, TakeRequest(w) \/ WatchAndGet(w) \/ Respond(w)
      PROVE  redis' = redis
  BY <1>4 DEF TakeRequest, WatchAndGet, Respond
<1>5. ASSUME NEW w \in Workers, Exec(w), redis[worker[w].request.key] # worker[w].n
      PROVE  redis' = redis
  BY <1>5 DEF Exec
<1> QED BY <1>1, <1>2, <1>3, <1>4, <1>5 DEF Next, RequestProcessor

\* What a successful EXEC does, in terms of the key it works on.
LEMMA ExecEffect ==
  ASSUME NEW S, Uniform(S), ControlTypeOK, Current, NEW w \in Workers, Exec(w)
  PROVE  LET k == worker[w].request.key
         IN  /\ k \in Keys /\ Busy(w) /\ worker[w].request \in Requests
             /\ redis' = [redis EXCEPT ![k] = redis[k] + S * Multiplier]
             /\ worker' = [worker EXCEPT ![w] =
                  [pc |-> "respond", request |-> worker[w].request,
                   newGuids |-> [start |-> redis[k] + 1, end |-> redis[k] + S * Multiplier]]]
             /\ UNCHANGED <<boot, pool, responseChan, issued>>
<1> DEFINE k == worker[w].request.key
           A == S * Multiplier
<1>1. worker[w].pc = "exec"
  BY DEF Exec
<1>2. worker[w].request \in Requests /\ worker[w].n \in Nat
  BY <1>1, WorkerFields DEF ControlTypeOK
<1>3. k \in Keys /\ worker[w].request.amount = A /\ A \in Nat
  <2>1. k \in Keys
    BY <1>2 DEF Requests
  <2> QED BY <1>2, <2>1, UniformKey, UniformAmount
<1>4. worker[w].n = redis[k]
  BY <1>1 DEF Current
<1>5. redis' = [redis EXCEPT ![k] = NewMax(w)] /\ Answer(w, Reserved(w))
  BY <1>4 DEF Exec
<1>6. NewMax(w) = redis[k] + A
  BY <1>3, <1>4 DEF NewMax
<1>7. Reserved(w) = [start |-> redis[k] + 1, end |-> redis[k] + A]
  BY <1>2, <1>3, <1>4, <1>6 DEF Reserved
<1>8. UNCHANGED <<boot, pool, responseChan, issued>>
  BY DEF Exec, chanVars
<1> QED BY <1>1, <1>2, <1>3, <1>5, <1>6, <1>7, <1>8 DEF Answer, Busy

LEMMA StartedStep ==
  ASSUME NEW S, Uniform(S), ControlTypeOK, Quiet, Started, Current, [Next]_vars
  PROVE  Started'
<1>1. ASSUME NEW k \in Keys, NewGuidService(k) PROVE Started'
  BY <1>1, GuidAssumption DEF NewGuidService, InitMaxGuid, Started, ControlTypeOK
<1>2. ASSUME NEW w \in Workers, Exec(w) PROVE Started'
  <2> DEFINE k == worker[w].request.key
  <2>1. k \in Keys /\ redis' = [redis EXCEPT ![k] = redis[k] + S * Multiplier] /\ boot' = boot
    BY <1>2, ExecEffect
  <2>2. S * Multiplier \in Nat
    BY UniformAmount
  <2>3. boot = {}
    BY <1>2 DEF Exec, Quiet
  <2>4. redis[k] \in Nat /\ redis[k] + S * Multiplier >= redis[k]
    BY <2>1, <2>2 DEF ControlTypeOK
  <2>5. \A j \in Keys : redis'[j] = IF j = k THEN redis[k] + S * Multiplier ELSE redis[j]
    BY <2>1 DEF ControlTypeOK
  <2>6. \A j \in Keys : redis[j] >= ExistingMax[j] /\ redis[j] \in Nat /\ ExistingMax[j] \in Nat
    BY <2>3, GuidAssumption DEF Started, ControlTypeOK
  <2> HIDE DEF k
  <2>7. \A j \in Keys : redis'[j] >= ExistingMax[j]
    BY <2>1, <2>2, <2>4, <2>5, <2>6
  <2> QED BY <2>7 DEF Started
<1>3. ASSUME redis' = redis, boot' = boot PROVE Started'
  BY <1>3 DEF Started
<1>4. CASE Restart
  BY <1>4, GuidAssumption DEF Restart, Started, ControlTypeOK
<1>5. CASE UNCHANGED vars
  BY <1>3, <1>5 DEF vars
<1>6. CASE Next /\ ~(\E k \in Keys : NewGuidService(k)) /\ ~Restart /\ ~(\E w \in Workers : Exec(w))
  BY <1>3, <1>6, ServingNeedsBoot, RedisStep
<1> QED BY <1>1, <1>2, <1>4, <1>5, <1>6

-----------------------------------------------------------------------------
(* The parts of the invariant about guids, action by action                *)

GInv(S) == Current /\ AnswersOK(S) /\ ListOK(S) /\ IssuedOK(S)

LEMMA TopFrame ==
  ASSUME NEW S, redis' = redis, \A k \in Keys : OnItsWay(k)' <=> OnItsWay(k)
  PROVE  \A k \in Keys : Top(S, k)' = Top(S, k) /\ Latest(S, k)' = Latest(S, k)
  BY DEF Top, Latest

LEMMA PoolFrame ==
  ASSUME NEW S, ListOK(S), IssuedOK(S), pool' = pool, issued' = issued,
         \A k \in Keys : Top(S, k)' = Top(S, k)
  PROVE  ListOK(S)' /\ IssuedOK(S)'
<1>1. ListOK(S)'
  BY DEF ListOK, Whole
<1>2. IssuedOK(S)'
  BY DEF IssuedOK
<1> QED BY <1>1, <1>2

LEMMA GFrame ==
  ASSUME NEW S, GInv(S), UNCHANGED <<redis, worker, responseChan, pool, issued>>
  PROVE  GInv(S)'
<1>1. \A k \in Keys : AnsweredBy(k)' = AnsweredBy(k) /\ AnsweredIn(k)' = AnsweredIn(k)
  BY DEF AnsweredBy, AnsweredIn
<1>2. \A k \in Keys : OnItsWay(k)' <=> OnItsWay(k)
  BY <1>1 DEF OnItsWay
<1>3. \A k \in Keys : Top(S, k)' = Top(S, k) /\ Latest(S, k)' = Latest(S, k)
  BY <1>2, TopFrame
<1>4. ListOK(S)' /\ IssuedOK(S)'
  BY <1>3, PoolFrame DEF GInv
<1>5. AnswersOK(S)'
  BY <1>1, <1>2, <1>3 DEF GInv, AnswersOK
<1>6. Current'
  BY DEF GInv, Current
<1> QED BY <1>4, <1>5, <1>6 DEF GInv

LEMMA NothingOnItsWay ==
  ASSUME Quiet, boot # {}, NEW k \in Keys
  PROVE  AnsweredBy(k) = {} /\ AnsweredIn(k) = {} /\ pool[k] = <<>>
  BY DEF Quiet, AnsweredBy, AnsweredIn

LEMMA GNewGuidService ==
  ASSUME NEW S, Uniform(S), UInv(S), NEW k \in Keys, NewGuidService(k), Quiet'
  PROVE  GInv(S)'
<1>1. boot # {} /\ Quiet /\ UNCHANGED <<pool, worker, responseChan, issued>>
  BY DEF NewGuidService, UInv, chanVars
<1>2. \A j \in Keys : AnsweredBy(j) = {} /\ AnsweredIn(j) = {} /\ pool[j] = <<>>
  BY <1>1, NothingOnItsWay
<1>3. \A j \in Keys : AnsweredBy(j)' = {} /\ AnsweredIn(j)' = {} /\ pool'[j] = <<>>
  BY <1>1, <1>2 DEF AnsweredBy, AnsweredIn
<1>4. \A j \in Keys : Top(S, j) = redis[j] /\ Top(S, j)' = redis'[j]
  BY <1>2, <1>3 DEF Top, OnItsWay
<1>5. \A j \in Keys : redis[j] \in Nat /\ redis'[j] \in Nat /\ redis[j] <= redis'[j]
  BY GuidAssumption DEF NewGuidService, InitMaxGuid, UInv, ControlTypeOK
<1>6. AnswersOK(S)'
  BY <1>3 DEF AnswersOK, OnItsWay
<1>7. ListOK(S)'
  BY <1>1, <1>3 DEF ListOK, UInv
<1>8. IssuedOK(S)'
  <2>1. issued \in [Keys -> Seq(Ranges)]
    BY DEF UInv, IssuedOK
  <2>2. ASSUME NEW j \in Keys, NEW i \in DOMAIN issued[j]
        PROVE  issued[j][i].end \in Nat /\ issued[j][i].end <= Top(S, j)'
    <3>1. issued[j][i] \in Ranges
      BY <2>1, <2>2
    <3>2. issued[j][i].end \in Nat /\ issued[j][i].end <= redis[j]
      BY <1>4, <2>2, <3>1 DEF UInv, IssuedOK, Ranges
    <3> QED BY <1>4, <1>5, <3>2
  <2> QED BY <1>1, <1>3, <2>1, <2>2 DEF UInv, IssuedOK
<1>9. Current'
  BY <1>1 DEF Current, Quiet
<1> QED BY <1>6, <1>7, <1>8, <1>9 DEF GInv

LEMMA GRestart ==
  ASSUME NEW S, Uniform(S), UInv(S), Restart
  PROVE  GInv(S)'
<1>1. \A k \in Keys : AnsweredBy(k)' = {} /\ AnsweredIn(k)' = {} /\ pool'[k] = <<>>
  BY DEF Restart, AnsweredBy, AnsweredIn, IdleWorker
<1>2. \A k \in Keys : redis[k] \in Nat /\ Top(S, k)' = redis[k] /\ Top(S, k) <= redis[k]
                      /\ Top(S, k) \in Int
  BY <1>1, UniformAmount DEF Restart, Top, OnItsWay, UInv, ControlTypeOK
<1>3. AnswersOK(S)'
  BY <1>1 DEF AnswersOK, OnItsWay
<1>4. ListOK(S)'
  BY <1>1 DEF Restart, ListOK
<1>5. IssuedOK(S)'
  <2>1. issued \in [Keys -> Seq(Ranges)] /\ issued' = issued
    BY DEF UInv, IssuedOK, Restart
  <2>2. ASSUME NEW j \in Keys, NEW i \in DOMAIN issued[j]
        PROVE  issued[j][i].end <= Top(S, j)'
    <3>1. issued[j][i] \in Ranges
      BY <2>1, <2>2
    <3>2. issued[j][i].end \in Nat /\ issued[j][i].end <= Top(S, j)
      BY <2>2, <3>1 DEF UInv, IssuedOK, Ranges
    <3> QED BY <1>2, <3>2
  <2> QED BY <1>1, <2>1, <2>2 DEF UInv, IssuedOK
<1>6. Current'
  BY DEF Restart, Current, IdleWorker
<1> QED BY <1>3, <1>4, <1>5, <1>6 DEF GInv

\* A worker that takes a request or reads the maximum.
LEMMA GWorking ==
  ASSUME NEW S, Uniform(S), UInv(S), NEW w \in Workers, TakeRequest(w) \/ WatchAndGet(w)
  PROVE  GInv(S)'
<1>1. /\ worker \in [Workers -> WorkerStates]
      /\ worker[w].pc # "respond" /\ worker'[w].pc # "respond"
      /\ \A v \in Workers : v # w => worker'[v] = worker[v]
      /\ UNCHANGED <<redis, responseChan, pool, issued>>
  BY DEF TakeRequest, WatchAndGet, UInv, ControlTypeOK, chanVars
<1>2. \A k \in Keys : AnsweredBy(k)' = AnsweredBy(k) /\ AnsweredIn(k)' = AnsweredIn(k)
  BY <1>1 DEF AnsweredBy, AnsweredIn
<1>3. \A k \in Keys : OnItsWay(k)' <=> OnItsWay(k)
  BY <1>2 DEF OnItsWay
<1>4. \A k \in Keys : Top(S, k)' = Top(S, k) /\ Latest(S, k)' = Latest(S, k)
  BY <1>1, <1>3, TopFrame
<1>5. ListOK(S)' /\ IssuedOK(S)'
  BY <1>1, <1>4, PoolFrame DEF UInv
<1>6. AnswersOK(S)'
  <2>1. ASSUME NEW k \in Keys, NEW v \in AnsweredBy(k) PROVE worker'[v] = worker[v] /\ v \in Workers
    BY <1>1 DEF AnsweredBy
  <2> QED BY <1>1, <1>2, <1>3, <1>4, <2>1 DEF UInv, AnswersOK
<1>7. worker'[w].pc = "exec" => worker'[w].n = redis[worker'[w].request.key]
  BY <1>1 DEF TakeRequest, WatchAndGet
<1>8. Current'
  BY <1>1, <1>7 DEF UInv, Current
<1> QED BY <1>5, <1>6, <1>8 DEF GInv

\* A worker that hands its answer over.
LEMMA GRespond ==
  ASSUME NEW S, Uniform(S), UInv(S), NEW w \in Workers, Respond(w)
  PROVE  GInv(S)'
<1> DEFINE a == [request |-> worker[w].request, newGuids |-> worker[w].newGuids]
           n == Len(responseChan) + 1
<1>1. /\ worker \in [Workers -> WorkerStates] /\ responseChan \in Seq(Responses)
      /\ worker[w].pc = "respond" /\ worker'[w].pc = "idle"
      /\ \A v \in Workers : v # w => worker'[v] = worker[v]
      /\ responseChan' = Append(responseChan, a)
      /\ UNCHANGED <<redis, pool, issued>>
  BY DEF Respond, UInv, ControlTypeOK, IdleWorker
<1>2. a \in Responses
  BY <1>1, WorkerFields DEF Responses
<1>3. /\ DOMAIN responseChan' = DOMAIN responseChan \cup {n} /\ n \notin DOMAIN responseChan
      /\ responseChan'[n] = a
      /\ \A i \in DOMAIN responseChan : responseChan'[i] = responseChan[i]
  BY <1>1, <1>2, Appends
<1>4. /\ a.request = worker[w].request /\ a.newGuids = worker[w].newGuids
  OBVIOUS
<1> HIDE DEF a, n
<1>5. \A k \in Keys : AnsweredBy(k)' = AnsweredBy(k) \ {w}
  BY <1>1 DEF AnsweredBy
<1>6. \A k \in Keys : AnsweredIn(k)' = IF worker[w].request.key = k THEN AnsweredIn(k) \cup {n}
                                       ELSE AnsweredIn(k)
  BY <1>3, <1>4 DEF AnsweredIn
<1>7. \A k \in Keys : w \in AnsweredBy(k) <=> worker[w].request.key = k
  BY <1>1 DEF AnsweredBy
<1>8. \A k \in Keys : OnItsWay(k)' <=> OnItsWay(k)
  BY <1>5, <1>6, <1>7 DEF OnItsWay
<1>9. \A k \in Keys : Top(S, k)' = Top(S, k) /\ Latest(S, k)' = Latest(S, k)
  BY <1>1, <1>8, TopFrame
<1>10. ListOK(S)' /\ IssuedOK(S)'
  BY <1>1, <1>9, PoolFrame DEF UInv
<1>11. AnswersOK(S)'
  <2> SUFFICES ASSUME NEW k \in Keys
               PROVE  /\ \A v \in AnsweredBy(k)' : worker'[v].newGuids = Latest(S, k)
                      /\ \A i \in AnsweredIn(k)' : responseChan'[i].newGuids = Latest(S, k)
                      /\ OnItsWay(k) => redis[k] - S * Multiplier >= ExistingMax[k]
    BY <1>1, <1>8, <1>9 DEF AnswersOK
  <2>1. \A v \in AnsweredBy(k)' : worker'[v].newGuids = Latest(S, k)
    <3>1. \A v \in AnsweredBy(k)' : v \in AnsweredBy(k) /\ v # w /\ v \in Workers
      BY <1>5 DEF AnsweredBy
    <3> QED BY <1>1, <3>1 DEF UInv, AnswersOK
  <2>2. ASSUME NEW i \in AnsweredIn(k)' PROVE responseChan'[i].newGuids = Latest(S, k)
    <3>1. CASE i \in AnsweredIn(k)
      BY <1>3, <3>1 DEF UInv, AnswersOK, AnsweredIn
    <3>2. CASE i \notin AnsweredIn(k)
      <4>1. i = n /\ worker[w].request.key = k
        BY <1>6, <3>2
      <4>2. worker[w].newGuids = Latest(S, k)
        BY <1>7, <4>1 DEF UInv, AnswersOK
      <4> QED BY <1>3, <1>4, <4>1, <4>2
    <3> QED BY <3>1, <3>2
  <2>3. OnItsWay(k) => redis[k] - S * Multiplier >= ExistingMax[k]
    BY DEF UInv, AnswersOK
  <2> QED BY <2>1, <2>2, <2>3
<1>12. Current'
  BY <1>1 DEF UInv, Current
<1> QED BY <1>10, <1>11, <1>12 DEF GInv

\* The EXEC that succeeds: Redis moves by one reservation, which is on its way.
LEMMA GExec ==
  ASSUME NEW S, Uniform(S), UInv(S), NEW w \in Workers, Exec(w)
  PROVE  GInv(S)'
<1>0. worker[w].request.key \in Keys
  BY ExecEffect DEF UInv
<1> PICK k \in Keys : k = worker[w].request.key
  BY <1>0
<1> DEFINE A == S * Multiplier
           g == [start |-> redis[k] + 1, end |-> redis[k] + A]
<1>1. /\ k \in Keys /\ Busy(w) /\ worker[w].request \in Requests
      /\ redis' = [redis EXCEPT ![k] = redis[k] + A]
      /\ worker' = [worker EXCEPT ![w] = [pc |-> "respond", request |-> worker[w].request,
                                          newGuids |-> g]]
      /\ UNCHANGED <<boot, pool, responseChan, issued>>
  BY ExecEffect DEF UInv
<1>2. worker \in [Workers -> WorkerStates] /\ redis \in [Keys -> Nat] /\ ControlTypeOK /\ Exact
  BY DEF UInv, ControlTypeOK
<1>3. /\ worker'[w].pc = "respond" /\ worker'[w].request.key = k /\ worker'[w].newGuids = g
      /\ worker[w].pc = "exec"
      /\ \A v \in Workers : v # w => worker'[v] = worker[v]
  BY <1>1, <1>2 DEF Exec
<1>4. A \in Nat \ {0} /\ redis[k] \in Nat
  BY <1>1, <1>2, UniformAmount
<1>5. \A j \in Keys : redis'[j] = IF j = k THEN redis[k] + A ELSE redis[j]
  BY <1>1, <1>2
<1>6. /\ \A v \in Workers : Busy(v) /\ worker[v].request.key = k => v = w
      /\ AnsweredIn(k) = {}
  BY <1>1, <1>2, Alone
<1>7. boot = {} /\ redis[k] >= ExistingMax[k]
  <2>1. boot = {}
    BY <1>3 DEF UInv, Quiet
  <2> QED BY <1>1, <2>1 DEF UInv, Started
<1>8. g.start = redis[k] + 1 /\ g.end = redis[k] + A
  OBVIOUS
<1>9. Latest(S, k)' = g
  <2>1. redis'[k] - A + 1 = redis[k] + 1 /\ redis'[k] = redis[k] + A
    BY <1>1, <1>4, <1>5
  <2> QED BY <2>1 DEF Latest
<1> HIDE DEF A, g
<1>10. \A j \in Keys : AnsweredBy(j)' = IF j = k THEN {w} ELSE AnsweredBy(j)
  <2>1. AnsweredBy(k) = {}
    BY <1>3, <1>6 DEF AnsweredBy, Busy
  <2> QED BY <1>3, <2>1 DEF AnsweredBy
<1>11. \A j \in Keys : AnsweredIn(j)' = AnsweredIn(j)
  BY <1>1 DEF AnsweredIn
<1>12. ~OnItsWay(k) /\ OnItsWay(k)'
  <2>1. AnsweredBy(k) = {}
    BY <1>3, <1>6 DEF AnsweredBy, Busy
  <2> QED BY <1>1, <1>6, <1>10, <1>11, <2>1 DEF OnItsWay
<1>13. \A j \in Keys : j # k => (OnItsWay(j)' <=> OnItsWay(j))
  BY <1>10, <1>11 DEF OnItsWay
<1>14. \A j \in Keys : Top(S, j)' = Top(S, j)
  <2>1. Top(S, k)' = Top(S, k)
    BY <1>1, <1>4, <1>5, <1>12 DEF Top, A
  <2>2. \A j \in Keys : j # k => Top(S, j)' = Top(S, j)
    BY <1>5, <1>13 DEF Top
  <2> QED BY <2>1, <2>2
<1>15. ListOK(S)' /\ IssuedOK(S)'
  BY <1>1, <1>14, PoolFrame DEF UInv
<1>16. Current'
  <2> SUFFICES ASSUME NEW v \in Workers, worker'[v].pc = "exec"
               PROVE  worker'[v].n = redis'[worker'[v].request.key]
    BY DEF Current
  <2>1. v # w /\ worker'[v] = worker[v]
    BY <1>3
  <2>2. worker[v].request.key # k
    BY <1>6, <2>1 DEF Busy
  <2>3. worker[v].request.key \in Keys
    <3>1. worker[v] \in WorkerStates /\ worker[v].pc = "exec"
      BY <1>2, <2>1
    <3>2. worker[v].request \in Requests
      BY <3>1, WorkerFields
    <3> QED BY <3>2 DEF Requests
  <2> QED BY <1>5, <2>1, <2>2, <2>3 DEF UInv, Current
<1>17. AnswersOK(S)'
  <2> SUFFICES ASSUME NEW j \in Keys
               PROVE  /\ \A v \in AnsweredBy(j)' : worker'[v].newGuids = Latest(S, j)'
                      /\ \A i \in AnsweredIn(j)' : responseChan'[i].newGuids = Latest(S, j)'
                      /\ OnItsWay(j)' => redis'[j] - A >= ExistingMax[j]
    BY DEF AnswersOK, A
  <2>1. CASE j = k
    <3>1. redis'[k] - A = redis[k]
      BY <1>1, <1>4, <1>5
    <3> QED BY <1>3, <1>6, <1>7, <1>9, <1>10, <1>11, <2>1, <3>1
  <2>2. CASE j # k
    <3>1. redis'[j] = redis[j] /\ Latest(S, j)' = Latest(S, j)
      BY <1>5, <2>2 DEF Latest
    <3>2. \A v \in AnsweredBy(j)' : v \in AnsweredBy(j) /\ worker'[v] = worker[v]
      BY <1>3, <1>10, <2>2 DEF AnsweredBy
    <3> QED BY <1>1, <1>11, <1>13, <2>2, <3>1, <3>2 DEF UInv, AnswersOK, A
  <2> QED BY <2>1, <2>2
<1> QED BY <1>15, <1>16, <1>17 DEF GInv

\* The dispatcher adds the reservation to the list, which it continues.
LEMMA GHandleResponse ==
  ASSUME NEW S, Uniform(S), UInv(S), HandleResponse
  PROVE  GInv(S)'
<1> DEFINE A == S * Multiplier
<1>1. /\ responseChan \in Seq(Responses) /\ responseChan # <<>>
      /\ responseChan' = Tail(responseChan) /\ UNCHANGED <<redis, worker, issued>>
      /\ redis \in [Keys -> Nat] /\ ControlTypeOK /\ Exact
  BY DEF HandleResponse, UInv, ControlTypeOK
<1>2. /\ Head(responseChan) = responseChan[1] /\ 1 \in DOMAIN responseChan
      /\ \A i : i \in DOMAIN responseChan' <=> i \in Nat \ {0} /\ i + 1 \in DOMAIN responseChan
      /\ \A i \in DOMAIN responseChan' : responseChan'[i] = responseChan[i + 1]
  BY <1>1, Heads
<1>3. responseChan[1].request.key \in Keys
  <2>1. responseChan[1] \in Responses
    BY <1>1, <1>2
  <2> QED BY <2>1 DEF Responses, Requests
<1> PICK k \in Keys : k = responseChan[1].request.key
  BY <1>3
<1>4. A \in Nat \ {0} /\ redis[k] \in Nat /\ ExistingMax[k] \in Nat
  BY <1>1, UniformAmount, GuidAssumption
<1>5. 1 \in AnsweredIn(k)
  BY <1>2 DEF AnsweredIn
<1>6. responseChan[1].newGuids = Latest(S, k) /\ redis[k] - A >= ExistingMax[k]
  BY <1>5 DEF UInv, AnswersOK, OnItsWay
<1>7. \A i \in AnsweredIn(k) : i = 1
  BY <1>1, <1>5, Alone
<1>8. AnsweredBy(k) = {}
  BY <1>1, <1>5, Alone DEF AnsweredBy, Busy
<1>9. \A j \in Keys : AnsweredBy(j)' = AnsweredBy(j)
  BY <1>1 DEF AnsweredBy
<1>10. \A j \in Keys : \A i : i \in AnsweredIn(j)' <=> i \in Nat \ {0} /\ i + 1 \in AnsweredIn(j)
  BY <1>2 DEF AnsweredIn
<1>11. AnsweredIn(k)' = {}
  BY <1>7, <1>10
<1>12. ASSUME NEW j \in Keys, j # k PROVE OnItsWay(j)' <=> OnItsWay(j)
  <2>1. 1 \notin AnsweredIn(j)
    BY <1>12 DEF AnsweredIn
  <2>2. AnsweredIn(j) \subseteq Nat \ {0}
    BY <1>1 DEF AnsweredIn
  <2>3. ASSUME NEW i \in AnsweredIn(j) PROVE i - 1 \in AnsweredIn(j)'
    <3>1. i \in Nat \ {0} /\ i # 1
      BY <2>1, <2>2, <2>3
    <3>2. i - 1 \in Nat \ {0} /\ (i - 1) + 1 = i
      BY <3>1
    <3> QED BY <1>10, <2>3, <3>2
  <2>4. AnsweredIn(j)' = {} <=> AnsweredIn(j) = {}
    BY <1>10, <2>3
  <2> QED BY <1>9, <2>4 DEF OnItsWay
<1>13. OnItsWay(k) /\ ~OnItsWay(k)'
  BY <1>5, <1>8, <1>9, <1>11 DEF OnItsWay
<1>14. Top(S, k) = redis[k] - A /\ Top(S, k)' = redis[k]
  BY <1>1, <1>13 DEF Top
<1>15. \A j \in Keys : j # k => Top(S, j)' = Top(S, j)
  BY <1>1, <1>12 DEF Top
<1>16. Latest(S, k) = [start |-> redis[k] - A + 1, end |-> redis[k]] /\ Latest(S, k) \in Ranges
  <2>1. redis[k] - A + 1 \in Nat
    BY <1>4, <1>6
  <2> QED BY <1>4, <2>1 DEF Latest, Ranges
<1>17. pool' = [pool EXCEPT ![k] = AddDiapason(pool[k], Latest(S, k))] /\ pool \in [Keys -> Seq(Diapasons)]
  BY <1>2, <1>6 DEF HandleResponse, UInv, ListOK
<1> DEFINE st == Latest(S, k).start
<1>18. Latest(S, k).start = redis[k] - A + 1 /\ Latest(S, k).end = redis[k]
  BY <1>16
<1> HIDE DEF A
<1>19. PICK d \in Diapasons :
         /\ pool'[k] = <<d>> /\ ExistingMax[k] < d.cur /\ d.cur <= d.end /\ d.end = redis[k]
         /\ \E m \in Nat : d.end + 1 - d.cur = m * S
         /\ pool[k] # <<>> => d.cur = pool[k][1].cur
         /\ pool[k] = <<>> => d.cur = redis[k] - A + 1
  <2>0. pool'[k] = AddDiapason(pool[k], Latest(S, k)) /\ S \in Nat \ {0} /\ Multiplier \in Nat \ {0}
    BY <1>17, GuidAssumption DEF Uniform
  <2>1. CASE pool[k] = <<>>
    <3> DEFINE d == [start |-> redis[k] - A + 1, end |-> redis[k], cur |-> redis[k] - A + 1]
    <3>1. pool'[k] = <<d>>
      BY <1>18, <2>0, <2>1, AddToNone
    <3>2. d \in Diapasons
      BY <1>4, <1>6 DEF Diapasons
    <3>3. d.end + 1 - d.cur = Multiplier * S
      <4>1. Multiplier * S = A
        BY <2>0 DEF A
      <4> QED BY <1>4, <4>1
    <3>4. ExistingMax[k] < d.cur /\ d.cur <= d.end
      BY <1>4, <1>6
    <3>5. \E m \in Nat : d.end + 1 - d.cur = m * S
      BY <2>0, <3>3
    <3> QED BY <2>1, <3>1, <3>2, <3>4, <3>5
  <2>2. CASE pool[k] # <<>>
    <3>1. PICK e \in Diapasons : pool[k] = <<e>> /\ Whole(S, k, e)
      BY <2>2 DEF UInv, ListOK
    <3>2. PICK m \in Nat : e.end + 1 - e.cur = m * S
      BY <3>1 DEF Whole
    <3>3. /\ ExistingMax[k] < e.cur /\ e.cur <= e.end /\ e.end = redis[k] - A
          /\ e.end \in Nat /\ e.cur \in Nat
      BY <1>14, <3>1 DEF Whole, Diapasons
    <3> DEFINE d == [e EXCEPT !.end = redis[k]]
    <3>4. pool'[k] = <<d>>
      <4>1. Latest(S, k).start = e.end + 1
        BY <1>18, <3>3
      <4> QED BY <1>16, <1>18, <2>0, <3>1, <4>1, AddToOne
    <3>5. d \in Diapasons /\ d.end = redis[k] /\ d.cur = e.cur
      BY <1>4 DEF Diapasons
    <3>6. d.end + 1 - d.cur = (m + Multiplier) * S
      <4>1. (m + Multiplier) * S = m * S + A
        BY <2>0 DEF A
      <4> QED BY <1>4, <3>2, <3>3, <3>5, <4>1
    <3>7. m + Multiplier \in Nat
      BY <2>0
    <3>8. pool[k][1].cur = e.cur
      BY <3>1
    <3>9. d.cur <= d.end
      BY <1>4, <3>3, <3>5
    <3> HIDE DEF d
    <3> QED BY <2>2, <3>3, <3>4, <3>5, <3>6, <3>7, <3>8, <3>9
  <2> QED BY <2>1, <2>2
<1>20. \A j \in Keys : j # k => pool'[j] = pool[j]
  BY <1>17
<1>21. pool' \in [Keys -> Seq(Diapasons)]
  <2>1. pool'[k] \in Seq(Diapasons)
    BY <1>19
  <2> QED BY <1>17, <2>1
<1>22. ListOK(S)'
  <2> SUFFICES ASSUME NEW j \in Keys
               PROVE  pool'[j] = <<>> \/ \E e \in Diapasons : pool'[j] = <<e>> /\ Whole(S, j, e)'
    BY <1>21 DEF ListOK
  <2>1. CASE j = k
    BY <1>14, <1>19, <2>1 DEF Whole
  <2>2. CASE j # k
    BY <1>15, <1>20, <2>2 DEF UInv, ListOK, Whole
  <2> QED BY <2>1, <2>2
<1>23. IssuedOK(S)'
  <2>0. issued \in [Keys -> Seq(Ranges)]
    BY DEF UInv, IssuedOK
  <2>1. ASSUME NEW j \in Keys, NEW i \in DOMAIN issued[j]
        PROVE  /\ issued[j][i].end <= Top(S, j)'
               /\ pool'[j] # <<>> => issued[j][i].end < pool'[j][1].cur
    <3>1. issued[j][i].end \in Nat
      <4>1. issued[j][i] \in Ranges
        BY <2>0, <2>1
      <4> QED BY <4>1 DEF Ranges
    <3>2. issued[j][i].end <= Top(S, j) /\ (pool[j] # <<>> => issued[j][i].end < pool[j][1].cur)
      BY <2>1 DEF UInv, IssuedOK
    <3>3. CASE j = k
      <4>1. pool'[k][1] = d
        BY <1>19
      <4>2. d.cur \in Nat
        BY DEF Diapasons
      <4>3. issued[j][i].end <= redis[k] - A
        BY <1>14, <3>2, <3>3
      <4>4. issued[j][i].end <= Top(S, j)'
        BY <1>4, <1>14, <3>1, <3>3, <4>3
      <4>5. issued[j][i].end < d.cur
        <5>1. CASE pool[k] = <<>>
          BY <1>4, <1>19, <3>1, <4>3, <5>1
        <5>2. CASE pool[k] # <<>>
          BY <1>19, <3>2, <3>3, <5>2
        <5> QED BY <5>1, <5>2
      <4> QED BY <3>3, <4>1, <4>4, <4>5
    <3>4. CASE j # k
      BY <1>15, <1>20, <3>2, <3>4
    <3> QED BY <3>3, <3>4
  <2> QED BY <1>1, <2>0, <2>1 DEF UInv, IssuedOK
<1>24. AnswersOK(S)'
  <2> SUFFICES ASSUME NEW j \in Keys
               PROVE  /\ \A v \in AnsweredBy(j)' : worker[v].newGuids = Latest(S, j)
                      /\ \A i \in AnsweredIn(j)' : responseChan'[i].newGuids = Latest(S, j)
                      /\ OnItsWay(j)' => redis[j] - S * Multiplier >= ExistingMax[j]
    BY <1>1 DEF AnswersOK, Latest
  <2>1. CASE j = k
    BY <1>8, <1>9, <1>11, <1>13, <2>1
  <2>2. CASE j # k
    <3>1. ASSUME NEW i \in AnsweredIn(j)' PROVE responseChan'[i].newGuids = Latest(S, j)
      <4>1. i + 1 \in AnsweredIn(j) /\ i \in DOMAIN responseChan'
        BY <1>10, <3>1 DEF AnsweredIn
      <4> QED BY <1>2, <4>1 DEF UInv, AnswersOK
    <3> QED BY <1>9, <1>12, <2>2, <3>1 DEF UInv, AnswersOK
  <2> QED BY <2>1, <2>2
<1>25. Current'
  BY <1>1 DEF UInv, Current
<1> QED BY <1>22, <1>23, <1>24, <1>25 DEF GInv

\* A call takes the first S guids of the list, or nothing.
LEMMA GUse ==
  ASSUME NEW S, Uniform(S), UInv(S), NEW c \in Callers, Use(c)
  PROVE  GInv(S)'
<1>1. caller[c].key \in Keys /\ caller[c].size = S /\ S \in Nat \ {0}
  BY CallerFields DEF Use, UInv, ControlTypeOK, Uniform
<1> PICK k \in Keys : k = caller[c].key
  BY <1>1
<1>2. /\ pool' = [pool EXCEPT ![k] = AfterUse(pool[k], S)]
      /\ issued' = [issued EXCEPT ![k] = issued[k] \o UsedGuids(pool[k], S)]
      /\ UNCHANGED <<redis, worker, responseChan>>
      /\ pool \in [Keys -> Seq(Diapasons)] /\ issued \in [Keys -> Seq(Ranges)]
  BY <1>1 DEF Use, UInv, ListOK, IssuedOK, chanVars
<1>3. CASE pool[k] = <<>>
  <2>1. UsedGuids(pool[k], S) = <<>> /\ AfterUse(pool[k], S) = <<>>
    BY <1>1, <1>3, UseOfNone
  <2>2. issued[k] \o <<>> = issued[k]
    BY <1>2
  <2>3. pool' = pool
    BY <1>2, <1>3, <2>1
  <2>4. issued' = issued
    BY <1>2, <2>1, <2>2
  <2> QED BY <1>2, <2>3, <2>4, GFrame DEF GInv, UInv
<1>4. CASE pool[k] # <<>>
  <2>1. PICK d \in Diapasons : pool[k] = <<d>> /\ Whole(S, k, d)
    BY <1>4 DEF UInv, ListOK
  <2>2. PICK m \in Nat : d.end + 1 - d.cur = m * S
    BY <2>1 DEF Whole
  <2>3. /\ ExistingMax[k] < d.cur /\ d.cur <= d.end /\ d.end = Top(S, k)
        /\ d.cur \in Nat /\ d.end \in Nat /\ ExistingMax[k] \in Nat
    BY <2>1, GuidAssumption DEF Whole, Diapasons
  <2>4. m * S > 0 /\ m * S \in Int
    BY <1>1, <2>2, <2>3
  <2>5. m * S >= S /\ \E l \in Nat : m * S - S = l * S
    BY <1>1, <2>4, Multiples
  <2>6. d.cur + S <= d.end + 1
    BY <1>1, <2>2, <2>3, <2>4, <2>5
  <2> DEFINE r == [start |-> d.cur, end |-> d.cur - 1 + S]
             e == [d EXCEPT !.cur = d.cur + S]
  <2>7. /\ UsedGuids(pool[k], S) = <<r>>
        /\ AfterUse(pool[k], S) = IF d.cur + S = d.end + 1 THEN <<>> ELSE <<e>>
    BY <1>1, <2>1, <2>6, UseOfOne
  <2>8. r \in Ranges /\ r.start = d.cur /\ r.end = d.cur - 1 + S /\ r.end <= Top(S, k)
    BY <1>1, <2>3, <2>6 DEF Ranges
  <2>9. e \in Diapasons /\ e.cur = d.cur + S /\ e.end = d.end
    BY <1>1, <2>3 DEF Diapasons
  <2> HIDE DEF r, e
  <2>10. \A j \in Keys : /\ AnsweredBy(j)' = AnsweredBy(j) /\ AnsweredIn(j)' = AnsweredIn(j)
                         /\ Top(S, j)' = Top(S, j) /\ Latest(S, j)' = Latest(S, j)
                         /\ OnItsWay(j)' <=> OnItsWay(j)
    <3>1. \A j \in Keys : AnsweredBy(j)' = AnsweredBy(j) /\ AnsweredIn(j)' = AnsweredIn(j)
      BY <1>2 DEF AnsweredBy, AnsweredIn
    <3>2. \A j \in Keys : OnItsWay(j)' <=> OnItsWay(j)
      BY <3>1 DEF OnItsWay
    <3> QED BY <1>2, <3>1, <3>2, TopFrame
  <2>11. /\ pool'[k] = IF d.cur + S = d.end + 1 THEN <<>> ELSE <<e>>
         /\ \A j \in Keys : j # k => pool'[j] = pool[j]
    BY <1>2, <2>7
  <2>12. ListOK(S)'
    <3>1. pool' \in [Keys -> Seq(Diapasons)]
      <4>1. pool'[k] \in Seq(Diapasons)
        BY <2>9, <2>11
      <4> QED BY <1>2, <4>1
    <3>2. ASSUME NEW j \in Keys
          PROVE  pool'[j] = <<>> \/ \E f \in Diapasons : pool'[j] = <<f>> /\ Whole(S, j, f)'
      <4>1. CASE j = k /\ d.cur + S # d.end + 1
        <5>1. ExistingMax[k] < e.cur /\ e.cur <= e.end /\ e.end = Top(S, k)
          BY <1>1, <2>3, <2>6, <2>9, <4>1
        <5>2. e.end + 1 - e.cur = m * S - S
          BY <1>1, <2>2, <2>3, <2>4, <2>9
        <5>3. \E l \in Nat : e.end + 1 - e.cur = l * S
          BY <2>5, <5>2
        <5>4. Whole(S, k, e)'
          BY <2>10, <5>1, <5>3 DEF Whole
        <5> QED BY <2>9, <2>11, <4>1, <5>4
      <4>2. CASE j = k /\ d.cur + S = d.end + 1
        BY <2>11, <4>2
      <4>3. CASE j # k
        BY <2>10, <2>11, <4>3 DEF UInv, ListOK, Whole
      <4> QED BY <4>1, <4>2, <4>3
    <3> QED BY <3>1, <3>2 DEF ListOK
  <2>13. IssuedOK(S)'
    <3>0. issued[k] \in Seq(Ranges)
      BY <1>2
    <3>1. /\ issued' = [issued EXCEPT ![k] = Append(issued[k], r)]
          /\ issued[k] \in Seq(Ranges)
      <4>1. issued[k] \o <<r>> = Append(issued[k], r)
        BY <2>8, <3>0
      <4> QED BY <1>2, <2>7, <3>0, <4>1
    <3>2. issued' \in [Keys -> Seq(Ranges)] /\ issued'[k] = Append(issued[k], r)
      <4> DEFINE a == Append(issued[k], r)
      <4>1. a \in Seq(Ranges)
        BY <2>8, <3>0
      <4>2. issued' = [issued EXCEPT ![k] = a]
        BY <3>1
      <4>3. issued \in [Keys -> Seq(Ranges)]
        BY <1>2
      <4> HIDE DEF a
      <4>4. issued' \in [Keys -> Seq(Ranges)] /\ issued'[k] = a
        BY <4>1, <4>2, <4>3
      <4> QED BY <4>4 DEF a
    <3>3. \A j \in Keys : j # k => issued'[j] = issued[j]
      BY <1>2, <3>1
    <3> DEFINE n == Len(issued[k]) + 1
    <3>4. /\ DOMAIN issued'[k] = DOMAIN issued[k] \cup {n} /\ n \notin DOMAIN issued[k]
          /\ issued'[k][n] = r /\ \A i \in DOMAIN issued[k] : issued'[k][i] = issued[k][i]
      BY <2>8, <3>1, <3>2, Appends
    <3>5. n \in Nat /\ \A i \in DOMAIN issued[k] : i \in Nat /\ i < n
      BY <3>1
    <3> HIDE DEF n
    <3>6. \A i \in DOMAIN issued[k] :
            /\ issued[k][i].end \in Nat /\ issued[k][i].end < d.cur
            /\ ExistingMax[k] < issued[k][i].start /\ issued[k][i].end <= Top(S, k)
      <4>1. \A i \in DOMAIN issued[k] : issued[k][i] \in Ranges
        BY <3>1
      <4>2. pool[k][1] = d /\ pool[k] # <<>>
        BY <2>1
      <4> QED BY <4>1, <4>2 DEF UInv, IssuedOK, Ranges
    <3>7. pool'[k] # <<>> => pool'[k][1] = e
      BY <2>11
    <3>8. ASSUME NEW i \in DOMAIN issued'[k]
          PROVE  /\ ExistingMax[k] < issued'[k][i].start /\ issued'[k][i].end <= Top(S, k)'
                 /\ pool'[k] # <<>> => issued'[k][i].end < pool'[k][1].cur
      <4>1. CASE i = n
        <5>1. r.end < d.cur + S
          BY <1>1, <2>3, <2>8
        <5> QED BY <2>3, <2>8, <2>9, <2>10, <3>4, <3>7, <4>1, <5>1
      <4>2. CASE i # n
        <5>1. i \in DOMAIN issued[k] /\ issued'[k][i] = issued[k][i]
          BY <3>4, <3>8, <4>2
        <5>2. issued[k][i].end < d.cur + S
          BY <1>1, <2>3, <3>6, <5>1
        <5> QED BY <2>9, <2>10, <3>6, <3>7, <5>1, <5>2
      <4> QED BY <4>1, <4>2
    <3>9. ASSUME NEW i \in DOMAIN issued'[k], NEW j \in DOMAIN issued'[k], i < j
          PROVE  issued'[k][i].end < issued'[k][j].start
      <4>1. i \in DOMAIN issued[k]
        BY <3>4, <3>5, <3>9
      <4>2. CASE j = n
        BY <2>8, <3>4, <3>6, <4>1, <4>2
      <4>3. CASE j # n
        <5>1. j \in DOMAIN issued[k]
          BY <3>4, <3>9, <4>3
        <5> QED BY <3>4, <3>9, <4>1, <5>1 DEF UInv, IssuedOK
      <4> QED BY <4>2, <4>3
    <3>10. ASSUME NEW j \in Keys, j # k
           PROVE  /\ \A i \in DOMAIN issued'[j] :
                       /\ ExistingMax[j] < issued'[j][i].start /\ issued'[j][i].end <= Top(S, j)'
                       /\ pool'[j] # <<>> => issued'[j][i].end < pool'[j][1].cur
                  /\ \A i, h \in DOMAIN issued'[j] : i < h => issued'[j][i].end < issued'[j][h].start
      BY <2>10, <2>11, <3>3, <3>10 DEF UInv, IssuedOK
    <3> QED BY <3>2, <3>8, <3>9, <3>10 DEF IssuedOK
  <2>14. AnswersOK(S)'
    BY <1>2, <2>10 DEF UInv, AnswersOK
  <2>15. Current'
    BY <1>2 DEF UInv, Current
  <2> QED BY <2>12, <2>13, <2>14, <2>15 DEF GInv
<1> QED BY <1>3, <1>4

LEMMA UInvStep == ASSUME NEW S, Uniform(S), UInv(S), [Next]_vars PROVE UInv(S)'
<1>1. ControlTypeOK' /\ Exact' /\ Quiet' /\ Started'
  BY ControlTypeStep, ExactStep, QuietStep, StartedStep DEF UInv
<1>2. GInv(S)
  BY DEF UInv, GInv
<1>3. GInv(S)'
  <2>1. ASSUME NEW k \in Keys, NewGuidService(k) PROVE GInv(S)'
    BY <1>1, <2>1, GNewGuidService
  <2>2. ASSUME NEW c \in Callers, StartCall(c) \/ CheckUsage(c) \/ SendAndWait(c) \/ Send(c)
        PROVE  GInv(S)'
    BY <1>2, <2>2, GFrame DEF StartCall, CheckUsage, SendAndWait, Send, chanVars
  <2>3. ASSUME NEW c \in Callers, Use(c) PROVE GInv(S)'
    BY <2>3, GUse
  <2>4. CASE HandleRequest \/ PushRequest
    BY <1>2, <2>4, GFrame DEF HandleRequest, PushRequest
  <2>5. CASE HandleResponse
    BY <2>5, GHandleResponse
  <2>6. ASSUME NEW w \in Workers, TakeRequest(w) \/ WatchAndGet(w) PROVE GInv(S)'
    BY <2>6, GWorking
  <2>7. ASSUME NEW w \in Workers, Exec(w) PROVE GInv(S)'
    BY <2>7, GExec
  <2>8. ASSUME NEW w \in Workers, Respond(w) PROVE GInv(S)'
    BY <2>8, GRespond
  <2>9. ASSUME NEW w \in Workers, RedisFails(w) PROVE GInv(S)'
    BY <2>9 DEF RedisFails, Uniform, UInv, ControlTypeOK
  <2>10. CASE Restart
    BY <2>10, GRestart
  <2>11. CASE UNCHANGED vars
    BY <1>2, <2>11, GFrame DEF vars, chanVars
  <2> QED BY <2>1, <2>2, <2>3, <2>4, <2>5, <2>6, <2>7, <2>8, <2>9, <2>10, <2>11
          DEF Next, GetGuids, Dispatcher, RequestProcessor
<1> QED BY <1>1, <1>3 DEF UInv, GInv

LEMMA UInvImplies ==
  ASSUME NEW S, Uniform(S), UInv(S)
  PROVE  TypeOK /\ UniqueGuids /\ IssuedIsReserved
<1>1. TypeOK
  BY DEF UInv, TypeOK, ListOK, IssuedOK
<1>2. UniqueGuids
  <2> SUFFICES ASSUME NEW k \in Keys, NEW i \in DOMAIN issued[k], NEW j \in DOMAIN issued[k], i # j
               PROVE  Disjoint(issued[k][i], issued[k][j])
    BY DEF UniqueGuids
  <2>1. i \in Nat /\ j \in Nat
    BY DEF UInv, IssuedOK
  <2>2. i < j \/ j < i
    BY <2>1
  <2>3. issued[k][i].end < issued[k][j].start \/ issued[k][j].end < issued[k][i].start
    BY <2>2 DEF UInv, IssuedOK
  <2> QED BY <2>3 DEF Disjoint
<1>3. IssuedIsReserved
  <2> SUFFICES ASSUME NEW k \in Keys, NEW i \in DOMAIN issued[k]
               PROVE  ExistingMax[k] < issued[k][i].start /\ issued[k][i].end <= redis[k]
    BY DEF IssuedIsReserved
  <2>1. ExistingMax[k] < issued[k][i].start /\ issued[k][i].end <= Top(S, k)
    BY DEF UInv, IssuedOK
  <2>2. redis[k] \in Nat /\ S * Multiplier \in Nat
    BY UniformAmount DEF UInv, ControlTypeOK
  <2>3. issued[k][i].end \in Nat
    <3>1. issued[k][i] \in Ranges
      BY DEF UInv, IssuedOK
    <3> QED BY <3>1 DEF Ranges
  <2>4. Top(S, k) <= redis[k] /\ Top(S, k) \in Int
    BY <2>2 DEF Top
  <2> QED BY <2>1, <2>2, <2>3, <2>4
<1> QED BY <1>1, <1>2, <1>3

LEMMA UInvContiguous == ASSUME NEW S, Uniform(S), UInv(S) PROVE PoolIsContiguous
<1> SUFFICES ASSUME NEW k \in Keys, pool[k] # <<>>
             PROVE  /\ Len(pool[k]) = 1 /\ GuidsLeft(pool[k][1]) > 0
                    /\ \/ Reservation(k, [start |-> pool[k][1].end + 1, end |-> redis[k]])
                       \/ pool[k][1].end = redis[k]
  BY DEF PoolIsContiguous
<1>1. PICK d \in Diapasons : pool[k] = <<d>> /\ Whole(S, k, d)
  BY DEF UInv, ListOK
<1>2. Len(pool[k]) = 1 /\ pool[k][1] = d
  BY <1>1
<1>3. d.cur <= d.end /\ d.end = Top(S, k) /\ d.cur \in Nat /\ d.end \in Nat
  BY <1>1 DEF Whole, Diapasons
<1>4. GuidsLeft(d) > 0
  BY <1>3 DEF GuidsLeft
<1>5. CASE OnItsWay(k)
  <2>1. redis[k] \in Nat /\ S * Multiplier \in Nat
    BY UniformAmount DEF UInv, ControlTypeOK
  <2>2. d.end + 1 = redis[k] - S * Multiplier + 1
    BY <1>3, <1>5, <2>1 DEF Top
  <2>3. Latest(S, k) = [start |-> d.end + 1, end |-> redis[k]]
    BY <2>2 DEF Latest
  <2>4. Reservation(k, Latest(S, k))
    <3>1. CASE AnsweredBy(k) # {}
      BY <3>1 DEF AnsweredBy, UInv, AnswersOK, Reservation
    <3>2. CASE AnsweredIn(k) # {}
      BY <3>2 DEF AnsweredIn, UInv, AnswersOK, Reservation
    <3> QED BY <1>5, <3>1, <3>2 DEF OnItsWay
  <2> QED BY <1>2, <1>4, <2>3, <2>4
<1>6. CASE ~OnItsWay(k)
  BY <1>2, <1>3, <1>4, <1>6 DEF Top
<1> QED BY <1>5, <1>6

(***************************************************************************)
(* Game servers that agree on a desired size, and a Redis that answers:    *)
(* then no two calls ever get the same guid, however many callers, workers *)
(* and restarts there are.                                                 *)
(***************************************************************************)
THEOREM GuidsAreUnique ==
  ASSUME NEW S, Uniform(S)
  PROVE  Spec => []UniqueGuids
<1>1. Init => UInv(S)
  BY UInvInit
<1>2. UInv(S) /\ [Next]_vars => UInv(S)'
  BY UInvStep
<1>3. UInv(S) => UniqueGuids
  BY UInvImplies
<1> QED BY <1>1, <1>2, <1>3, PTL DEF Spec

(***************************************************************************)
(* Under the same conditions everything handed out lies above what MySQL   *)
(* stored and below the maximum Redis keeps across restarts, and every     *)
(* variable keeps its type.                                                *)
(***************************************************************************)
THEOREM GuidsAreReserved ==
  ASSUME NEW S, Uniform(S)
  PROVE  Spec => [](TypeOK /\ IssuedIsReserved)
<1>1. Init => UInv(S)
  BY UInvInit
<1>2. UInv(S) /\ [Next]_vars => UInv(S)'
  BY UInvStep
<1>3. UInv(S) => TypeOK /\ IssuedIsReserved
  BY UInvImplies
<1> QED BY <1>1, <1>2, <1>3, PTL DEF Spec

(***************************************************************************)
(* Under the same conditions the local list is empty or one range that     *)
(* continues without a gap into the reservation on its way: what UseGuids  *)
(* does with a drained range of several cannot matter.                     *)
(***************************************************************************)
THEOREM ListIsContiguous ==
  ASSUME NEW S, Uniform(S)
  PROVE  Spec => []PoolIsContiguous
<1>1. Init => UInv(S)
  BY UInvInit
<1>2. UInv(S) /\ [Next]_vars => UInv(S)'
  BY UInvStep
<1>3. UInv(S) => PoolIsContiguous
  BY UInvContiguous
<1> QED BY <1>1, <1>2, <1>3, PTL DEF Spec

-----------------------------------------------------------------------------
(* The refinement: what each step does to the maximum and to the answers   *)

\* The abstract state is the maximum in Redis and what was issued.
LEMMA AllocatorStutter ==
  ASSUME redis' = redis, issued' = issued
  PROVE  UNCHANGED Allocator!vars
  BY DEF Allocator!vars

\* A larger maximum of one key reserves guids.
LEMMA AllocatorReserve ==
  ASSUME redis \in [Keys -> Nat], NEW k \in Keys, NEW n \in Nat, n > redis[k],
         redis' = [redis EXCEPT ![k] = n], issued' = issued
  PROVE  Allocator!Next
<1>1. redis'[k] = n
  OBVIOUS
<1>2. Allocator!Reserve(k)
  BY <1>1 DEF Allocator!Reserve
<1> QED BY <1>2 DEF Allocator!Next

\* One more range, above all that were given and below the maximum, is an answer.
LEMMA AllocatorGiveOut ==
  ASSUME issued \in [Keys -> Seq(Ranges)], NEW k \in Keys, NEW r \in Ranges,
         r.start <= r.end, ExistingMax[k] < r.start, r.end <= redis[k],
         redis[k] \in Nat, ExistingMax[k] \in Nat,
         \A i \in DOMAIN issued[k] : issued[k][i].end < r.start,
         issued' = [issued EXCEPT ![k] = Append(issued[k], r)], redis' = redis
  PROVE  Allocator!Next
<1> DEFINE old == Len(issued[k])
           a == Append(issued[k], r)
<1>1. issued[k] \in Seq(Ranges) /\ old \in Nat /\ DOMAIN issued[k] = 1 .. old
  OBVIOUS
<1>2. Len(a) = old + 1 /\ a[old + 1] = r /\ SubSeq(a, 1, old) = issued[k]
  BY <1>1
<1>3. issued'[k] = a /\ issued' = [issued EXCEPT ![k] = issued'[k]]
  OBVIOUS
<1>4. r.start \in Nat /\ r.end \in Nat
  BY DEF Ranges
<1> HIDE DEF a, old
<1>5. (old + 1) .. Len(a) = {old + 1}
  BY <1>1, <1>2
<1>6. Allocator!Guids(r) # {}
  BY <1>4 DEF Allocator!Guids
<1>7. ASSUME NEW g \in Allocator!Guids(r)
      PROVE  g \in ExistingMax[k] + 1 .. redis[k] /\ g \notin Allocator!Given(k)
  <2>1. g \in Int /\ r.start <= g /\ g <= r.end
    BY <1>4, <1>7 DEF Allocator!Guids
  <2>2. ASSUME NEW i \in DOMAIN issued[k] PROVE g \notin Allocator!Guids(issued[k][i])
    <3>1. issued[k][i] \in Ranges /\ issued[k][i].end < r.start
      BY <1>1, <2>2
    <3>2. issued[k][i].end \in Nat /\ issued[k][i].start \in Nat
      BY <3>1 DEF Ranges
    <3> QED BY <1>4, <2>1, <3>1, <3>2 DEF Allocator!Guids
  <2> QED BY <1>4, <2>1, <2>2 DEF Allocator!Given
<1>8. Allocator!GiveOut(k)
  <2>1. (old + 1) .. Len(issued'[k]) = {old + 1} /\ issued'[k][old + 1] = r
    BY <1>2, <1>3, <1>5
  <2>2. SubSeq(issued'[k], 1, old) = issued[k]
    BY <1>2, <1>3
  <2>3. Allocator!Guids(r) \subseteq (ExistingMax[k] + 1 .. redis[k]) \ Allocator!Given(k)
    BY <1>7
  <2>4. \A i \in (old + 1) .. Len(issued'[k]) :
          /\ Allocator!Guids(issued'[k][i]) # {}
          /\ Allocator!Guids(issued'[k][i])
               \subseteq (ExistingMax[k] + 1 .. redis[k]) \ Allocator!Given(k)
          /\ \A j \in (old + 1) .. Len(issued'[k]) : i # j =>
               Allocator!Guids(issued'[k][i]) \cap Allocator!Guids(issued'[k][j]) = {}
    BY <1>6, <2>1, <2>3, Zenon
  <2>5. (old + 1) .. Len(issued'[k]) # {}
    BY <2>1
  <2> QED BY <1>3, <2>2, <2>4, <2>5, Zenon DEF Allocator!GiveOut, old
<1> QED BY <1>8 DEF Allocator!Next

\* What a call that finds guids takes.
LEMMA UseEffect ==
  ASSUME NEW S, Uniform(S), UInv(S), NEW c \in Callers, Use(c),
         NEW k \in Keys, k = caller[c].key, pool[k] # <<>>
  PROVE  \E r \in Ranges :
           /\ issued' = [issued EXCEPT ![k] = Append(issued[k], r)]
           /\ r.start <= r.end /\ ExistingMax[k] < r.start /\ r.end <= Top(S, k)
           /\ r.start = pool[k][1].cur
<1>1. caller[c].size = S /\ S \in Nat \ {0}
  BY CallerFields DEF Use, UInv, ControlTypeOK, Uniform
<1>2. PICK d \in Diapasons : pool[k] = <<d>> /\ Whole(S, k, d)
  BY DEF UInv, ListOK
<1>3. /\ ExistingMax[k] < d.cur /\ d.cur <= d.end /\ d.end = Top(S, k)
      /\ d.cur \in Nat /\ d.end \in Nat
  BY <1>2 DEF Whole, Diapasons
<1>4. d.cur + S <= d.end + 1
  <2>1. PICK m \in Nat : d.end + 1 - d.cur = m * S
    BY <1>2 DEF Whole
  <2>2. m * S > 0 /\ m * S \in Int
    BY <1>1, <1>3, <2>1
  <2>3. m * S >= S
    BY <1>1, <2>2, Multiples
  <2> QED BY <1>1, <1>3, <2>1, <2>2, <2>3
<1> DEFINE r == [start |-> d.cur, end |-> d.cur - 1 + S]
<1>5. UsedGuids(pool[k], S) = <<r>>
  BY <1>1, <1>2, <1>4, UseOfOne
<1>6. /\ r \in Ranges /\ r.start = d.cur /\ r.start <= r.end /\ r.end <= d.end
      /\ pool[k][1] = d
  BY <1>1, <1>2, <1>3, <1>4 DEF Ranges
<1> HIDE DEF r
<1>7. issued' = [issued EXCEPT ![k] = issued[k] \o UsedGuids(pool[k], S)]
  BY <1>1 DEF Use, UInv, IssuedOK
<1>8. issued[k] \o <<r>> = Append(issued[k], r)
  <2>1. issued[k] \in Seq(Ranges)
    BY DEF UInv, IssuedOK
  <2> QED BY <1>6, <2>1
<1> QED BY <1>3, <1>5, <1>6, <1>7, <1>8

LEMMA AllocatorInit == Init => Allocator!Init
  BY DEF Init, Allocator!Init

LEMMA AllocatorStep ==
  ASSUME NEW S, Uniform(S), UInv(S), [Next]_vars
  PROVE  Allocator!Next \/ UNCHANGED Allocator!vars
<1>1. redis \in [Keys -> Nat] /\ issued \in [Keys -> Seq(Ranges)]
  BY DEF UInv, ControlTypeOK, IssuedOK
<1>2. ASSUME NEW k \in Keys, NewGuidService(k)
      PROVE  Allocator!Next \/ UNCHANGED Allocator!vars
  <2>1. issued' = issued
    BY <1>2 DEF NewGuidService
  <2>2. CASE redis' = redis
    BY <2>1, <2>2, AllocatorStutter
  <2>3. CASE redis' # redis
    <3>1. redis[k] = 0 /\ redis' = [redis EXCEPT ![k] = ExistingMax[k]]
      BY <1>2, <2>3 DEF NewGuidService, InitMaxGuid
    <3>2. ExistingMax[k] \in Nat
      BY GuidAssumption
    <3>3. ExistingMax[k] # 0
      BY <1>1, <2>3, <3>1
    <3>4. ExistingMax[k] > redis[k]
      BY <3>1, <3>2, <3>3
    <3> QED BY <1>1, <2>1, <3>1, <3>2, <3>4, AllocatorReserve
  <2> QED BY <2>2, <2>3
<1>3. ASSUME NEW w \in Workers, Exec(w) PROVE Allocator!Next
  <2> DEFINE k == worker[w].request.key
             n == redis[k] + S * Multiplier
  <2>1. k \in Keys /\ redis' = [redis EXCEPT ![k] = n] /\ issued' = issued
    BY <1>3, ExecEffect DEF UInv
  <2>2. redis[k] \in Nat /\ S * Multiplier \in Nat \ {0}
    BY <1>1, <2>1, UniformAmount
  <2>3. n \in Nat /\ n > redis[k]
    BY <2>2
  <2> HIDE DEF k, n
  <2> QED BY <1>1, <2>1, <2>3, AllocatorReserve
<1>4. ASSUME NEW c \in Callers, Use(c)
      PROVE  Allocator!Next \/ UNCHANGED Allocator!vars
  <2>1. caller[c].key \in Keys /\ caller[c].size = S /\ S \in Nat \ {0}
    BY <1>4, CallerFields DEF Use, UInv, ControlTypeOK, Uniform
  <2> PICK k \in Keys : k = caller[c].key
    BY <2>1
  <2>2. redis' = redis
    BY <1>4 DEF Use
  <2>3. CASE pool[k] = <<>>
    <3>1. UsedGuids(pool[k], S) = <<>>
      BY <2>1, <2>3, UseOfNone
    <3>2. issued' = [issued EXCEPT ![k] = issued[k] \o <<>>]
      BY <1>1, <1>4, <2>1, <3>1 DEF Use
    <3>3. issued[k] \o <<>> = issued[k]
      BY <1>1
    <3>4. issued' = issued
      BY <1>1, <3>2, <3>3
    <3> QED BY <2>2, <3>4, AllocatorStutter
  <2>4. CASE pool[k] # <<>>
    <3>1. PICK r \in Ranges :
            /\ issued' = [issued EXCEPT ![k] = Append(issued[k], r)]
            /\ r.start <= r.end /\ ExistingMax[k] < r.start /\ r.end <= Top(S, k)
            /\ r.start = pool[k][1].cur
      BY <1>4, <2>4, UseEffect
    <3>2. \A i \in DOMAIN issued[k] : issued[k][i].end < r.start
      BY <2>4, <3>1 DEF UInv, IssuedOK
    <3>3. redis[k] \in Nat /\ ExistingMax[k] \in Nat /\ r.end \in Nat
      BY <1>1, GuidAssumption DEF Ranges
    <3>4. r.end <= redis[k]
      <4>1. Top(S, k) <= redis[k] /\ Top(S, k) \in Int
        BY <3>3, UniformAmount DEF Top
      <4> QED BY <3>1, <3>3, <4>1
    <3> QED BY <1>1, <2>2, <3>1, <3>2, <3>3, <3>4, AllocatorGiveOut
  <2> QED BY <2>3, <2>4
<1>5. ASSUME NEW c \in Callers, StartCall(c) \/ CheckUsage(c) \/ SendAndWait(c) \/ Send(c)
      PROVE  UNCHANGED <<redis, issued>>
  BY <1>5 DEF StartCall, CheckUsage, SendAndWait, Send
<1>6. ASSUME Dispatcher \/ Restart \/ UNCHANGED vars
      PROVE  UNCHANGED <<redis, issued>>
  BY <1>6 DEF Dispatcher, HandleRequest, PushRequest, HandleResponse, Restart, vars
<1>7. ASSUME NEW w \in Workers, TakeRequest(w) \/ WatchAndGet(w) \/ Respond(w)
      PROVE  UNCHANGED <<redis, issued>>
  BY <1>7 DEF TakeRequest, WatchAndGet, Respond
<1>8. ASSUME NEW w \in Workers, RedisFails(w) PROVE FALSE
  BY <1>8 DEF RedisFails, Uniform, UInv, ControlTypeOK
<1> QED BY <1>2, <1>3, <1>4, <1>5, <1>6, <1>7, <1>8, AllocatorStutter
        DEF Next, GetGuids, RequestProcessor

(***************************************************************************)
(* Under the same conditions the guid server, with its channels, workers,  *)
(* cache and restarts, implements the allocator: callers see a maximum     *)
(* that only grows and answers of guids never given before.                *)
(***************************************************************************)
THEOREM ServerAllocates ==
  ASSUME NEW S, Uniform(S)
  PROVE  Spec => Allocates
<1>1. Init => UInv(S) /\ Allocator!Init
  BY UInvInit, AllocatorInit
<1>2. UInv(S) /\ [Next]_vars => UInv(S)'
  BY UInvStep
<1>3. UInv(S) /\ [Next]_vars => [Allocator!Next]_(Allocator!vars)
  BY AllocatorStep
<1> QED BY <1>1, <1>2, <1>3, PTL DEF Spec, Allocates, Allocator!Spec
=============================================================================
