---------------------------- MODULE GuidService ----------------------------
(***************************************************************************)
(* The guid server: apps/guidserver/service/guid.go over the Redis storage *)
(* of apps/guidserver/repo/redis-max-guid-storage.go.                      *)
(*                                                                         *)
(* Game servers call GetGuids to obtain ranges of guids that nobody else   *)
(* in the cluster will get.  A call is served from a local list of ranges; *)
(* when the list runs low the call asks a dispatcher goroutine for more,   *)
(* which forwards one request per key to a pool of workers; a worker moves *)
(* the maximum kept in Redis forward in an optimistic transaction and      *)
(* answers with the range it has reserved.                                 *)
(*                                                                         *)
(* A key is a pair (realm, guid type): each has its own list and its own   *)
(* Redis key.  issued is a history variable: every range a call returned,  *)
(* in order.                                                               *)
(***************************************************************************)
EXTENDS GuidDiapasons

CONSTANTS
  Keys,          \* (realm, guid type) pairs
  Callers,       \* concurrent GetGUIDPool calls
  Workers,       \* requestProcessor goroutines
  Sizes,         \* desired sizes game servers ask for
  Multiplier,    \* RequestGuidsBufferMultiplayer
  ChanCap,       \* capacity of the three channels
  Retries,       \* optimisticLockRetriesCount
  ExistingMax,   \* max guid stored in MySQL, per key
  MaxCalls,      \* bound: calls started
  MaxFailures,   \* bound: Redis errors
  MaxRestarts,   \* bound: restarts of the process
  None           \* no caller / no request

ASSUME GuidAssumption ==
  /\ Sizes \subseteq Nat \ {0} /\ Multiplier \in Nat \ {0}
  /\ ChanCap \in Nat \ {0} /\ Retries \in Nat \ {0}
  /\ ExistingMax \in [Keys -> Nat]
  /\ MaxCalls \in Nat /\ MaxFailures \in Nat /\ MaxRestarts \in Nat
  /\ None \notin Callers

VARIABLES
  redis,          \* realm:<id>:max<Type>
  boot,           \* keys NewGuidService has not initialised yet
  pool,           \* localCache
  requestChan,    \* requestsChanMiddleware: callers to dispatcher
  pending,        \* request the dispatcher is sending to requestsChan
  requestsChan,   \* dispatcher to workers
  responseChan,   \* workers to dispatcher
  inProcess,      \* keys of requestsWithRespInProcess
  callbacksQueue, \* callers parked behind a request in process
  worker,
  caller,
  issued,
  calls, failures, restarts

dispVars  == <<pending, inProcess, callbacksQueue>>
chanVars  == <<requestChan, requestsChan, responseChan>>
boundVars == <<calls, failures, restarts>>
vars == <<redis, boot, pool, dispVars, chanVars, worker, caller, issued, boundVars>>

Amounts == {n * Multiplier : n \in Sizes}

Requests == [key : Keys, amount : Amounts, callback : Callers \cup {None}]

ASSUME NoneAssumption == None \notin Requests

\* guidsRequest.key(): the amount is part of a request's identity.
RequestKey(r) == <<r.key, r.amount>>

IdleWorker == [pc |-> "idle"]
IdleCaller == [pc |-> "idle"]

Init ==
  /\ redis = [k \in Keys |-> 0]
  /\ boot = Keys
  /\ pool = [k \in Keys |-> <<>>]
  /\ requestChan = <<>> /\ requestsChan = <<>> /\ responseChan = <<>>
  /\ pending = None
  /\ inProcess = {} /\ callbacksQueue = {}
  /\ worker = [w \in Workers |-> IdleWorker]
  /\ caller = [c \in Callers |-> IdleCaller]
  /\ issued = [k \in Keys |-> <<>>]
  /\ calls = 0 /\ failures = 0 /\ restarts = 0

-----------------------------------------------------------------------------
(* NewGuidService: a key Redis does not know yet starts at MySQL's maximum *)

\* Fault: the value of one key is stored under the others.
InitMaxGuidWrongKey(k) ==
  redis' = [j \in Keys |-> IF j = k THEN redis[k] ELSE ExistingMax[k]]

InitMaxGuid(k) == redis' = [redis EXCEPT ![k] = ExistingMax[k]]

\* Fault: every start takes MySQL's maximum, whatever Redis holds.
NewGuidServiceAlways(k) ==
  /\ k \in boot
  /\ boot' = boot \ {k}
  /\ InitMaxGuid(k)
  /\ UNCHANGED <<pool, dispVars, chanVars, worker, caller, issued, boundVars>>

NewGuidService(k) ==
  /\ k \in boot
  /\ boot' = boot \ {k}
  /\ IF redis[k] = 0 THEN InitMaxGuid(k) ELSE UNCHANGED redis
  /\ UNCHANGED <<pool, dispVars, chanVars, worker, caller, issued, boundVars>>

-----------------------------------------------------------------------------
(* GetGuids, in the goroutine of the call                                  *)

StartCall(c) ==
  /\ boot = {} /\ calls < MaxCalls
  /\ caller[c].pc = "idle"
  /\ \E k \in Keys, n \in Sizes :
       caller' = [caller EXCEPT ![c] = [pc |-> "check", key |-> k, size |-> n]]
  /\ calls' = calls + 1
  /\ UNCHANGED <<redis, boot, pool, dispVars, chanVars, worker, issued, failures, restarts>>

Goto(c, pc) ==
  caller' = [caller EXCEPT ![c] = [pc |-> pc, key |-> @.key, size |-> @.size]]

\* The switch on PctUsage.  Nothing is locked between this and what follows.
CheckUsage(c) ==
  /\ caller[c].pc = "check"
  /\ LET ds == pool[caller[c].key]
     IN  Goto(c, IF PctUsageAtLeast(ds, 99) THEN "sendAndWait"
                 ELSE IF PctUsageAtLeast(ds, 70) THEN "send" ELSE "use")
  /\ UNCHANGED <<redis, boot, pool, dispVars, chanVars, worker, issued, boundVars>>

Request(c, callback) ==
  [key |-> caller[c].key, amount |-> caller[c].size * Multiplier, callback |-> callback]

\* Sending blocks while the channel is full.
SendAndWait(c) ==
  /\ caller[c].pc = "sendAndWait" /\ Len(requestChan) < ChanCap
  /\ requestChan' = Append(requestChan, Request(c, c))
  /\ Goto(c, "wait")
  /\ UNCHANGED <<redis, boot, pool, dispVars, requestsChan, responseChan, worker, issued, boundVars>>

Send(c) ==
  /\ caller[c].pc = "send" /\ Len(requestChan) < ChanCap
  /\ requestChan' = Append(requestChan, Request(c, None))
  /\ Goto(c, "use")
  /\ UNCHANGED <<redis, boot, pool, dispVars, requestsChan, responseChan, worker, issued, boundVars>>

\* An empty answer means another call was faster: start over.
Use(c) ==
  /\ caller[c].pc = "use"
  /\ LET k    == caller[c].key
         n    == caller[c].size
         used == UsedGuids(pool[k], n)
     IN  /\ pool' = [pool EXCEPT ![k] = AfterUse(@, n)]
         /\ issued' = [issued EXCEPT ![k] = @ \o used]
         /\ IF used = <<>> THEN Goto(c, "check")
            ELSE caller' = [caller EXCEPT ![c] = IdleCaller]
  /\ UNCHANGED <<redis, boot, dispVars, chanVars, worker, boundVars>>

-----------------------------------------------------------------------------
(* The dispatcher goroutine of startProcessingGoroutines                   *)

\* A request whose key is in process is dropped; only its callback is kept.
HandleRequest ==
  /\ pending = None /\ requestChan # <<>>
  /\ LET r == Head(requestChan)
     IN  IF RequestKey(r) \in inProcess
         THEN /\ callbacksQueue' = IF r.callback = None THEN callbacksQueue
                                   ELSE callbacksQueue \cup {<<RequestKey(r), r.callback>>}
              /\ UNCHANGED <<inProcess, pending>>
         ELSE /\ inProcess' = inProcess \cup {RequestKey(r)}
              /\ pending' = r
              /\ UNCHANGED callbacksQueue
  /\ requestChan' = Tail(requestChan)
  /\ UNCHANGED <<redis, boot, pool, requestsChan, responseChan, worker, caller, issued, boundVars>>

\* requestsChan <- *r: until there is room the dispatcher does nothing else.
PushRequest ==
  /\ pending # None /\ Len(requestsChan) < ChanCap
  /\ requestsChan' = Append(requestsChan, pending)
  /\ pending' = None
  /\ UNCHANGED <<redis, boot, pool, inProcess, callbacksQueue, requestChan, responseChan,
                 worker, caller, issued, boundVars>>

\* Fault: the calls parked behind the request are forgotten.
AwaitingRequester(r) == {c \in Callers : caller[c].pc = "wait" /\ c = r.callback}

\* Those the answer wakes, each blocked on its channel: the requester and
\* everyone parked behind it.
Awaiting(r) ==
  {c \in Callers : /\ caller[c].pc = "wait"
                   /\ c = r.callback \/ <<RequestKey(r), c>> \in callbacksQueue}

\* Fault: the request stays in process after its answer.
StillInProcess(r) == inProcess

NoLongerInProcess(r) == inProcess \ {RequestKey(r)}

HandleResponse ==
  /\ pending = None /\ responseChan # <<>>
  /\ LET r == Head(responseChan).request
     IN  /\ pool' = [pool EXCEPT ![r.key] = AddDiapason(@, Head(responseChan).newGuids)]
         /\ caller' = [c \in Callers |-> IF c \in Awaiting(r)
                                         THEN [pc |-> "check", key |-> caller[c].key,
                                               size |-> caller[c].size]
                                         ELSE caller[c]]
         /\ callbacksQueue' = {q \in callbacksQueue : q[1] # RequestKey(r)}
         /\ inProcess' = NoLongerInProcess(r)
  /\ responseChan' = Tail(responseChan)
  /\ UNCHANGED <<redis, boot, pending, requestChan, requestsChan, worker, issued, boundVars>>

-----------------------------------------------------------------------------
(* requestProcessor: one worker, increaseKey in its three round trips      *)

TakeRequest(w) ==
  /\ worker[w].pc = "idle" /\ requestsChan # <<>>
  /\ worker' = [worker EXCEPT ![w] = [pc |-> "get", request |-> Head(requestsChan), tries |-> 0]]
  /\ requestsChan' = Tail(requestsChan)
  /\ UNCHANGED <<redis, boot, pool, dispVars, requestChan, responseChan, caller, issued, boundVars>>

Answer(w, newGuids) ==
  worker' = [worker EXCEPT ![w] = [pc |-> "respond", request |-> worker[w].request,
                                   newGuids |-> newGuids]]

\* WATCH key; GET key
WatchAndGet(w) ==
  /\ worker[w].pc = "get"
  /\ worker' = [worker EXCEPT ![w] = [pc |-> "exec", request |-> @.request, tries |-> @.tries,
                                      n |-> redis[@.request.key]]]
  /\ UNCHANGED <<redis, boot, pool, dispVars, chanVars, caller, issued, boundVars>>

NewMax(w) == worker[w].n + worker[w].request.amount

\* Fault: the range starts at the old maximum, which is in use.
ReservedOffByOne(w) == [start |-> NewMax(w) - worker[w].request.amount, end |-> NewMax(w)]

Reserved(w) == [start |-> NewMax(w) - worker[w].request.amount + 1, end |-> NewMax(w)]

\* MULTI; SET key newMax; EXEC: refused when the watched key was written.
Exec(w) ==
  /\ worker[w].pc = "exec"
  /\ LET k == worker[w].request.key
     IN  \/ /\ redis[k] = worker[w].n
            /\ redis' = [redis EXCEPT ![k] = NewMax(w)]
            /\ Answer(w, Reserved(w))
         \/ /\ redis[k] # worker[w].n
            /\ UNCHANGED redis
            /\ IF worker[w].tries + 1 = Retries THEN Answer(w, NoGuids)
               ELSE worker' = [worker EXCEPT ![w] = [pc |-> "get", request |-> @.request,
                                                     tries |-> @.tries + 1]]
  /\ UNCHANGED <<boot, pool, dispVars, chanVars, caller, issued, boundVars>>

(***************************************************************************)
(* Any other error, the 5 second timeout included, ends in an empty        *)
(* diapason.  An EXEC whose reply is lost may have been applied.           *)
(***************************************************************************)
RedisFails(w) ==
  /\ failures < MaxFailures
  /\ worker[w].pc \in {"get", "exec"}
  /\ Answer(w, NoGuids)
  /\ \/ UNCHANGED redis
     \/ /\ worker[w].pc = "exec" /\ redis[worker[w].request.key] = worker[w].n
        /\ redis' = [redis EXCEPT ![worker[w].request.key] = NewMax(w)]
  /\ failures' = failures + 1
  /\ UNCHANGED <<boot, pool, dispVars, chanVars, caller, issued, calls, restarts>>

Respond(w) ==
  /\ worker[w].pc = "respond" /\ Len(responseChan) < ChanCap
  /\ responseChan' = Append(responseChan, [request |-> worker[w].request,
                                           newGuids |-> worker[w].newGuids])
  /\ worker' = [worker EXCEPT ![w] = IdleWorker]
  /\ UNCHANGED <<redis, boot, pool, dispVars, requestChan, requestsChan, caller, issued, boundVars>>

-----------------------------------------------------------------------------
\* The process dies and is started again: all but Redis is lost, calls fail.
Restart ==
  /\ restarts < MaxRestarts
  /\ restarts' = restarts + 1
  /\ boot' = Keys
  /\ pool' = [k \in Keys |-> <<>>]
  /\ requestChan' = <<>> /\ requestsChan' = <<>> /\ responseChan' = <<>>
  /\ pending' = None
  /\ inProcess' = {} /\ callbacksQueue' = {}
  /\ worker' = [w \in Workers |-> IdleWorker]
  /\ caller' = [c \in Callers |-> IdleCaller]
  /\ UNCHANGED <<redis, issued, calls, failures>>

GetGuids(c) == CheckUsage(c) \/ SendAndWait(c) \/ Send(c) \/ Use(c)

Dispatcher == HandleRequest \/ PushRequest \/ HandleResponse

RequestProcessor(w) == TakeRequest(w) \/ WatchAndGet(w) \/ Exec(w) \/ Respond(w)

Next ==
  \/ \E k \in Keys : NewGuidService(k)
  \/ \E c \in Callers : StartCall(c) \/ GetGuids(c)
  \/ Dispatcher
  \/ \E w \in Workers : RequestProcessor(w) \/ RedisFails(w)
  \/ Restart

Spec == Init /\ [][Next]_vars

(***************************************************************************)
(* Every goroutine that can run eventually runs; nothing obliges a game    *)
(* server to call, Redis to fail or the process to die.                    *)
(***************************************************************************)
Fairness ==
  /\ \A k \in Keys : WF_vars(NewGuidService(k))
  /\ \A c \in Callers : WF_vars(GetGuids(c))
  /\ WF_vars(Dispatcher)
  /\ \A w \in Workers : WF_vars(RequestProcessor(w))

FairSpec == Spec /\ Fairness
-----------------------------------------------------------------------------
Ranges == [start : Nat, end : Nat]
Diapasons == [start : Nat, end : Nat, cur : Nat]
Responses == [request : Requests, newGuids : Ranges]

WorkerStates ==
  [pc : {"idle"}]
    \cup [pc : {"get"}, request : Requests, tries : Nat]
    \cup [pc : {"exec"}, request : Requests, tries : Nat, n : Nat]
    \cup [pc : {"respond"}, request : Requests, newGuids : Ranges]

CallerStates ==
  [pc : {"idle"}]
    \cup [pc : {"check", "sendAndWait", "send", "wait", "use"}, key : Keys, size : Sizes]

ControlTypeOK ==
  /\ redis \in [Keys -> Nat]
  /\ boot \subseteq Keys
  /\ requestChan \in Seq(Requests) /\ requestsChan \in Seq(Requests)
  /\ responseChan \in Seq(Responses)
  /\ pending \in Requests \cup {None}
  /\ inProcess \subseteq Keys \X Amounts
  /\ callbacksQueue \subseteq (Keys \X Amounts) \X Callers
  /\ worker \in [Workers -> WorkerStates]
  /\ caller \in [Callers -> CallerStates]
  /\ calls \in Nat /\ failures \in Nat /\ restarts \in Nat

\* Every variable of the guid server stays in its type; no unsigned
\* subtraction on guids goes below zero.
TypeOK ==
  /\ ControlTypeOK
  /\ pool \in [Keys -> Seq(Diapasons)]
  /\ issued \in [Keys -> Seq(Ranges)]

(***************************************************************************)
(* No guid is returned by two calls, whatever the callers, the workers and *)
(* the restarts in between: what "guids that are unique in cluster" means. *)
(***************************************************************************)
UniqueGuids ==
  \A k \in Keys : \A i, j \in DOMAIN issued[k] :
    i # j => Disjoint(issued[k][i], issued[k][j])

(***************************************************************************)
(* A guid that was returned is above every guid MySQL already stored and   *)
(* is covered by the maximum in Redis, which is all that survives a        *)
(* restart: the next incarnation cannot hand it out again.                 *)
(***************************************************************************)
IssuedIsReserved ==
  \A k \in Keys : \A i \in DOMAIN issued[k] :
    ExistingMax[k] < issued[k][i].start /\ issued[k][i].end <= redis[k]

\* A reservation for k that has not reached the list yet, and what it adds to.
Reservation(k, r) ==
  \/ \E w \in Workers : worker[w].pc = "respond" /\ worker[w].request.key = k
                       /\ worker[w].newGuids = r
  \/ \E i \in DOMAIN responseChan : responseChan[i].request.key = k
                                  /\ responseChan[i].newGuids = r

(***************************************************************************)
(* With one desired size per key the local list is a single range without  *)
(* a gap: it ends where the reservation on its way begins, or at the       *)
(* maximum in Redis when there is none.  So a list that is not empty never *)
(* loses a reserved guid, and what UseGuids does with a drained range      *)
(* (guid-diapasons.go:76) cannot matter.                                   *)
(***************************************************************************)
PoolIsContiguous ==
  \A k \in Keys : pool[k] # <<>> =>
    /\ Len(pool[k]) = 1 /\ GuidsLeft(pool[k][1]) > 0
    /\ \/ Reservation(k, [start |-> pool[k][1].end + 1, end |-> redis[k]])
       \/ pool[k][1].end = redis[k]

\* The abstract allocator: its maximum is the one in Redis, its answers are
\* the ranges the calls returned.
Allocator == INSTANCE GuidAllocator WITH max <- redis, answers <- issued

(***************************************************************************)
(* The guid server implements the allocator: every step either sets guids  *)
(* of one key aside, or answers one call with guids of one key that were   *)
(* set aside and never given, or changes nothing a caller can see.  A      *)
(* restart in particular gives nothing back and takes nothing back.        *)
(***************************************************************************)
Allocates == Allocator!Spec

-----------------------------------------------------------------------------
(* Where the request with key q can be between HandleRequest and           *)
(* HandleResponse.                                                         *)
Busy(w) == worker[w].pc # "idle"

PendingAt(q)  == {x \in {0} : pending # None /\ RequestKey(pending) = q}
QueuedAt(q)   == {i \in DOMAIN requestsChan : RequestKey(requestsChan[i]) = q}
WorkedOnBy(q) == {w \in Workers : Busy(w) /\ RequestKey(worker[w].request) = q}
AnsweredAt(q) == {i \in DOMAIN responseChan : RequestKey(responseChan[i].request) = q}

Serving(q) ==
  ({"pending"} \X PendingAt(q)) \cup ({"queue"} \X QueuedAt(q))
    \cup ({"worker"} \X WorkedOnBy(q)) \cup ({"answer"} \X AnsweredAt(q))

(***************************************************************************)
(* The dispatcher's map of requests in process is exact: a key it believes *)
(* in process is being served in exactly one place, and nothing is served  *)
(* that it does not know of.  A key left behind would silence all later    *)
(* requests for it; a key served twice would reserve guids twice and fill  *)
(* the channels.                                                           *)
(***************************************************************************)
InProcessIsExact ==
  \A q \in Keys \X Amounts :
    IF q \in inProcess THEN \E p \in Serving(q) : Serving(q) = {p}
    ELSE Serving(q) = {}

(***************************************************************************)
(* A call blocked on its callback channel is known to the request that     *)
(* will wake it: still in the dispatcher's inbox, being served, or parked  *)
(* behind one that is.                                                     *)
(***************************************************************************)
NoLostCaller ==
  \A c \in Callers : caller[c].pc = "wait" =>
    \/ \E i \in DOMAIN requestChan : requestChan[i].callback = c
    \/ pending # None /\ pending.callback = c
    \/ \E i \in DOMAIN requestsChan : requestsChan[i].callback = c
    \/ \E w \in Workers : Busy(w) /\ worker[w].request.callback = c
    \/ \E i \in DOMAIN responseChan : responseChan[i].request.callback = c
    \/ \E q \in inProcess : <<q, c>> \in callbacksQueue

(***************************************************************************)
(* Every GetGUIDPool call is answered, however the calls race for the      *)
(* ranges and whatever the Redis errors and restarts.                      *)
(***************************************************************************)
CallReturns == \A c \in Callers : caller[c].pc # "idle" ~> caller[c].pc = "idle"
=============================================================================
