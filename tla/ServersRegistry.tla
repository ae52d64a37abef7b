-------------------------- MODULE ServersRegistry --------------------------
(***************************************************************************)
(* The servers registry for the game servers of one realm:                 *)
(* apps/servers-registry/service/game-server.go over the Redis repository  *)
(* repo/game-server_redis.go, the health checker's list, and the part of   *)
(* the game server's sidecar that answers it (game-server/libsidecar).     *)
(*                                                                         *)
(* A game server registers when it starts.  The registry stores it, spreads*)
(* the maps over all servers of the realm, stores every server again and   *)
(* announces the new assignment; maps a running server gains are pending   *)
(* until it reports that it has loaded them.  A server that fails a health *)
(* check is removed and the maps are spread again.                         *)
(*                                                                         *)
(* Nothing locks the repository across these steps: an operation reads and *)
(* writes Redis one command at a time, and operations overlap.  Procs are  *)
(* the goroutines; with one of them operations do not overlap.  Checker    *)
(* and metrics callbacks each come from a single goroutine of their own.   *)
(*                                                                         *)
(* loaded is what a game server has loaded, known to itself only.          *)
(***************************************************************************)
EXTENDS MapBalancer

CONSTANTS
  Servers, Maps, Procs,
  Weights,       \* DefaultMapsWeight
  Available,     \* AvailableMaps of each server; {} means all
  MaxStarts,     \* bound: starts of game servers
  MaxTimeouts,   \* bound: checks that fail although the server is up
  MaxFailures,   \* bound: failing Redis writes
  MaxRestarts    \* bound: restarts of the registry

ASSUME RegistryAssumption ==
  /\ IsFiniteSet(Servers) /\ IsFiniteSet(Maps)
  /\ Weights \in [Maps -> Nat] /\ Available \in [Servers -> SUBSET Maps]
  /\ MaxStarts \in Nat /\ MaxTimeouts \in Nat /\ MaxFailures \in Nat /\ MaxRestarts \in Nat

VARIABLES
  store,     \* ws:<id>
  index,     \* realm:<id>:wss
  checker,   \* servers on the health checker's list
  named,     \* of these, the ones whose ID is set already
  failing,   \* failed checks whose result is not handled yet
  observed,  \* servers on the metrics consumer's list
  op,        \* what each goroutine does
  gs,        \* game servers: "down", "starting" or "up"
  inbox,     \* GSMapsReassigned events a game server has not handled
  confirms,  \* GameServerMapsLoaded calls on their way
  loaded,
  starts, timeouts, failures, restarts

redisVars == <<store, index>>
listVars  == <<checker, named, failing, observed>>
gsVars    == <<gs, inbox, confirms, loaded>>
boundVars == <<starts, timeouts, failures, restarts>>
vars == <<redisVars, listVars, op, gsVars, boundVars>>

Absent == [present |-> FALSE, assigned |-> {}, pending |-> {}]
Stored(assigned, pending) == [present |-> TRUE, assigned |-> assigned, pending |-> pending]

Idle == [kind |-> "idle"]

Init ==
  /\ store = [s \in Servers |-> Absent] /\ index = {}
  /\ checker = {} /\ named = {} /\ failing = {} /\ observed = {}
  /\ op = [p \in Procs |-> Idle]
  /\ gs = [s \in Servers |-> "down"]
  /\ inbox = [s \in Servers |-> <<>>] /\ confirms = {}
  /\ loaded = [s \in Servers |-> {}]
  /\ starts = 0 /\ timeouts = 0 /\ failures = 0 /\ restarts = 0

Running(kind) == {p \in Procs : op[p].kind = kind}
At(p, kind, pc) == op[p].kind = kind /\ op[p].pc = pc
Goto(p, pc) == op' = [op EXCEPT ![p].pc = pc]

-----------------------------------------------------------------------------
(* Repository                                                              *)

\* Upsert: SET, then SADD to the realm's index.
Upsert(s, v) == store' = [store EXCEPT ![s] = v] /\ index' = index \cup {s}

\* Remove: SREM, then DEL; a missing key is no error.
Delete(s) == store' = [store EXCEPT ![s] = Absent] /\ index' = index \ {s}

\* listForRealmOrCrossRealm: keys of the index without a value are skipped.
Listed == {s \in index : store[s].present}

-----------------------------------------------------------------------------
(* Register.  Up to the distribution it concerns the new server only.      *)

\* The sidecar registers in TC9InitLib, with the health endpoint up already.
StartServer(s, p) ==
  /\ gs[s] = "down" /\ starts < MaxStarts /\ op[p] = Idle
  /\ \A q \in Running("register") : op[q].server # s
  /\ starts' = starts + 1
  /\ gs' = [gs EXCEPT ![s] = "starting"]
  /\ op' = [op EXCEPT ![p] = [kind |-> "register", server |-> s, pc |-> "add"]]
  /\ UNCHANGED <<redisVars, listVars, inbox, confirms, loaded, timeouts, failures, restarts>>

\* Fault: a server registered before is taken to be on the list.
AddedUnlessKnown(s) == IF s \in named THEN checker ELSE checker \cup {s}

Added(s) == checker \cup {s}

\* AddHealthCheckObject and AddMetricsObservable keep what has the address.
RegisterAdd(p) ==
  /\ At(p, "register", "add")
  /\ LET s == op[p].server
     IN  /\ checker' = Added(s) /\ observed' = observed \cup {s}
         /\ named' = IF s \in checker THEN named ELSE named \ {s}
  /\ Goto(p, "upsert")
  /\ UNCHANGED <<redisVars, failing, gsVars, boundVars>>

RegisterUpsert(p) ==
  /\ At(p, "register", "upsert")
  /\ Upsert(op[p].server, Stored({}, {}))
  /\ named' = named \cup {op[p].server}
  /\ Goto(p, "list")
  /\ UNCHANGED <<checker, failing, observed, gsVars, boundVars>>

-----------------------------------------------------------------------------
(* onServerUnhealthy, called by handleResult of the health checker         *)

CheckFails(s) ==
  /\ s \in checker \ failing
  /\ IF gs[s] = "down" THEN UNCHANGED timeouts
     ELSE timeouts < MaxTimeouts /\ timeouts' = timeouts + 1
  /\ failing' = failing \cup {s}
  /\ UNCHANGED <<redisVars, checker, named, observed, op, gsVars, starts, failures, restarts>>

ResultHandled(s) == failing \ {s}

HandleFailed(s, p) ==
  /\ s \in failing /\ op[p] = Idle /\ Running("unhealthy") = {}
  /\ failing' = ResultHandled(s) /\ checker' = checker \ {s}
  /\ op' = [op EXCEPT ![p] = [kind |-> "unhealthy", server |-> s, pc |-> "remove"]]
  /\ UNCHANGED <<redisVars, named, observed, gsVars, boundVars>>

\* An object whose ID is not set yet removes nothing from Redis.
UnhealthyRemove(p) ==
  /\ At(p, "unhealthy", "remove")
  /\ LET s == op[p].server
     IN  /\ IF s \in named THEN Delete(s) ELSE UNCHANGED redisVars
         /\ observed' = observed \ {s}
  /\ Goto(p, "list")
  /\ UNCHANGED <<checker, named, failing, gsVars, boundVars>>

-----------------------------------------------------------------------------
(* distributeMapsToServers                                                 *)

List(p) ==
  /\ op[p].kind \in {"register", "unhealthy"} /\ op[p].pc = "list"
  /\ \E d \in Distributions(Listed, Available, Weights) :
       op' = [op EXCEPT ![p] = [kind |-> @.kind, server |-> @.server, pc |-> "write",
                                before |-> [s \in Listed |-> store[s]], new |-> d, todo |-> Listed]]
  /\ UNCHANGED <<redisVars, listVars, gsVars, boundVars>>

\* Fault: what was pending stays pending.
PendingKept(before, new) == before.pending \cup (new \ before.assigned)

\* Only a server that had maps before has to confirm the new ones.
PendingAfter(before, new) ==
  IF before.assigned # {} THEN new \ before.assigned ELSE before.pending

\* Servers with maps of their own come first in the distributed list.
WriteNext(p) ==
  LET own == {s \in op[p].todo : Available[s] # {}}
  IN  IF own # {} THEN own ELSE op[p].todo

Write(p, s) ==
  /\ op[p].kind \in {"register", "unhealthy"} /\ op[p].pc = "write"
  /\ s \in WriteNext(p)
  /\ Upsert(s, Stored(op[p].new[s], PendingAfter(op[p].before[s], op[p].new[s])))
  /\ op' = [op EXCEPT ![p].todo = @ \ {s}]
  /\ UNCHANGED <<listVars, gsVars, boundVars>>

\* A failing Upsert ends the operation; a failed registration is fatal for
\* the game server.
WriteFails(p) ==
  /\ op[p].kind \in {"register", "unhealthy"} /\ op[p].pc = "write" /\ op[p].todo # {}
  /\ failures < MaxFailures /\ failures' = failures + 1
  /\ op' = [op EXCEPT ![p] = Idle]
  /\ gs' = IF op[p].kind = "register" /\ gs[op[p].server] = "starting"
           THEN [gs EXCEPT ![op[p].server] = "down"] ELSE gs
  /\ UNCHANGED <<redisVars, listVars, inbox, confirms, loaded, starts, timeouts, restarts>>

\* A running game server ignores an event in which it had no maps before, or
\* in which its maps do not change (GameServerMapsReassigned).
Heeds(p, s) ==
  /\ s \in DOMAIN op[p].new /\ gs[s] = "up"
  /\ op[p].before[s].assigned \notin {{}, op[p].new[s]}

\* GSMapsReassigned, then the answer to the server that registered.
Announce(p) ==
  /\ op[p].kind \in {"register", "unhealthy"} /\ op[p].pc = "write" /\ op[p].todo = {}
  /\ inbox' = [s \in Servers |->
       IF Heeds(p, s)
       THEN Append(inbox[s], [old |-> op[p].before[s].assigned, new |-> op[p].new[s]])
       ELSE inbox[s]]
  /\ LET s == op[p].server
         answered == op[p].kind = "register" /\ gs[s] = "starting"
     IN  /\ gs' = IF answered THEN [gs EXCEPT ![s] = "up"] ELSE gs
         /\ loaded' = IF answered
                      THEN [loaded EXCEPT ![s] = IF s \in DOMAIN op[p].new THEN op[p].new[s] ELSE {}]
                      ELSE loaded
  /\ op' = [op EXCEPT ![p] = Idle]
  /\ UNCHANGED <<redisVars, listVars, confirms, boundVars>>

-----------------------------------------------------------------------------
(* MapsLoadedForServer and onMetricsUpdate: read, then write back          *)

ReadBack(kind, p, s, maps) ==
  /\ op[p] = Idle
  /\ op' = IF store[s].present
           THEN [op EXCEPT ![p] = [kind |-> kind, server |-> s, pc |-> "write",
                                   maps |-> maps, value |-> store[s]]]
           ELSE op

MapsLoaded(c, p) ==
  /\ c \in confirms /\ ReadBack("loaded", p, c.server, c.maps)
  /\ confirms' = confirms \ {c}
  /\ UNCHANGED <<redisVars, listVars, gs, inbox, loaded, boundVars>>

\* Fault: a report of loaded maps does not clear them.
StillPending(pending, maps) == pending

NotLoaded(pending, maps) == pending \ maps

MapsLoadedWrite(p) ==
  /\ At(p, "loaded", "write")
  /\ LET v == op[p].value
     IN  Upsert(op[p].server, Stored(v.assigned, NotLoaded(v.pending, op[p].maps)))
  /\ op' = [op EXCEPT ![p] = Idle]
  /\ UNCHANGED <<listVars, gsVars, boundVars>>

\* Update writes the value back without touching the index.
MetricsRead(s, p) ==
  /\ s \in observed \cap named /\ Running("metrics") = {}
  /\ store[s].present /\ ReadBack("metrics", p, s, {})
  /\ UNCHANGED <<redisVars, listVars, gsVars, boundVars>>

MetricsWrite(p) ==
  /\ At(p, "metrics", "write")
  /\ store' = [store EXCEPT ![op[p].server] = op[p].value]
  /\ op' = [op EXCEPT ![p] = Idle]
  /\ UNCHANGED <<index, listVars, gsVars, boundVars>>

-----------------------------------------------------------------------------
(* The game server                                                         *)

\* The core loads and unloads maps in its hook and reports the new ones.
HandleEvent(s) ==
  /\ gs[s] = "up" /\ inbox[s] # <<>>
  /\ LET e == Head(inbox[s])
     IN  /\ loaded' = [loaded EXCEPT ![s] = (@ \cup (e.new \ e.old)) \ (e.old \ e.new)]
         /\ confirms' = IF e.new \ e.old = {} THEN confirms
                        ELSE confirms \cup {[server |-> s, maps |-> e.new \ e.old]}
  /\ inbox' = [inbox EXCEPT ![s] = Tail(@)]
  /\ UNCHANGED <<redisVars, listVars, op, gs, boundVars>>

StopServer(s) ==
  /\ gs[s] = "up"
  /\ gs' = [gs EXCEPT ![s] = "down"]
  /\ inbox' = [inbox EXCEPT ![s] = <<>>] /\ loaded' = [loaded EXCEPT ![s] = {}]
  /\ confirms' = {c \in confirms : c.server # s}
  /\ UNCHANGED <<redisVars, listVars, op, boundVars>>

\* NewGameServer lists the realm's servers again; calls in progress are lost.
RestartRegistry ==
  /\ restarts < MaxRestarts /\ restarts' = restarts + 1
  /\ checker' = Listed /\ named' = Listed /\ observed' = Listed /\ failing' = {}
  /\ op' = [p \in Procs |-> Idle]
  /\ gs' = [s \in Servers |-> IF gs[s] = "starting" THEN "down" ELSE gs[s]]
  /\ UNCHANGED <<redisVars, inbox, confirms, loaded, starts, timeouts, failures>>

-----------------------------------------------------------------------------
Proceed(p) ==
  \/ RegisterAdd(p) \/ RegisterUpsert(p) \/ UnhealthyRemove(p)
  \/ List(p) \/ (\E s \in Servers : Write(p, s))
  \/ Announce(p) \/ MapsLoadedWrite(p) \/ MetricsWrite(p)

Begin(p) ==
  \/ \E s \in Servers : HandleFailed(s, p)
  \/ \E c \in confirms : MapsLoaded(c, p)

Next ==
  \/ \E p \in Procs : Proceed(p) \/ Begin(p) \/ WriteFails(p)
  \/ \E s \in Servers, p \in Procs : StartServer(s, p) \/ MetricsRead(s, p)
  \/ \E s \in Servers : CheckFails(s) \/ HandleEvent(s) \/ StopServer(s)
  \/ RestartRegistry

Spec == Init /\ [][Next]_vars

(***************************************************************************)
(* Goroutines run, the checker checks every server it lists again and      *)
(* again, running game servers handle their events.  A reported failure or *)
(* confirmation waits for a free goroutine of the model, and must get one  *)
(* even when other operations keep starting.                               *)
(***************************************************************************)
Fairness ==
  /\ \A p \in Procs : WF_vars(Proceed(p)) /\ SF_vars(Begin(p))
  /\ \A s \in Servers : WF_vars(CheckFails(s) /\ gs[s] = "down") /\ WF_vars(HandleEvent(s))

FairSpec == Spec /\ Fairness

-----------------------------------------------------------------------------
TypeOK ==
  /\ store \in [Servers -> [present : BOOLEAN, assigned : SUBSET Maps, pending : SUBSET Maps]]
  /\ index \subseteq Servers /\ checker \subseteq Servers /\ named \subseteq Servers
  /\ failing \subseteq checker /\ observed \subseteq Servers
  /\ \A p \in Procs : op[p].kind \in {"idle", "register", "unhealthy", "loaded", "metrics"}
  /\ gs \in [Servers -> {"down", "starting", "up"}]
  /\ \A s \in Servers : inbox[s] \in Seq([old : SUBSET Maps, new : SUBSET Maps])
  /\ confirms \subseteq [server : Servers, maps : SUBSET Maps]
  /\ loaded \in [Servers -> SUBSET Maps]

Quiet == \A p \in Procs : op[p] = Idle

\* CanHandleMap
CanHandleMap(s, m) == m \in store[s].assigned /\ m \notin store[s].pending

\* Whenever no operation is in progress and some server can take any map, each
\* map is assigned in Redis: to one server only, if no server claims it
\* (distributeMapsToServers, game-server.go:313).
MapsAreCovered ==
  Quiet /\ (\E s \in Listed : Available[s] = {}) =>
    \A m \in Maps :
      LET holders == {s \in Listed : m \in store[s].assigned}
      IN  /\ holders # {}
          /\ (\A s \in Listed : m \notin Available[s]) => Cardinality(holders) = 1

\* A map is pending only where it is assigned: no server waits for the
\* confirmation of a map that has gone elsewhere (game-server.go:345).
PendingIsAssigned == Quiet => \A s \in Servers : store[s].pending \subseteq store[s].assigned

\* Every server the registry knows is health-checked: one that is not would be
\* handed to players for ever after its end (game-server.go:112 and 267).
ListedIsChecked == Quiet => index \subseteq checker

\* A game server that ends, even unnoticed by a restarting registry, leaves
\* the list, unless it is started again.
DeadServerLeaves ==
  \A s \in Servers : (gs[s] = "down" /\ s \in index) ~> (gs[s] # "down" \/ s \notin index)

\* A map assigned to a running server does not stay pending: the server hears
\* of it, loads it and its report arrives, unless a write to Redis fails or a
\* restart of the registry drops the report.
PendingIsConfirmed ==
  \A s \in Servers, m \in Maps :
    (gs[s] = "up" /\ m \in store[s].pending)
      ~> (gs[s] # "up" \/ m \notin store[s].pending \/ failures + restarts > 0)

\* The registry sends players only to servers that have loaded the map: one
\* that gains maps while it runs is sent none before it confirms them
\* (repo/game-server.go:34).
RoutedIsLoaded ==
  Quiet => \A s \in Listed, m \in Maps :
             gs[s] = "up" /\ CanHandleMap(s, m) => m \in loaded[s]

=============================================================================
