-------------------------- MODULE RegistryGateways --------------------------
(***************************************************************************)
(* The servers registry for the gateways of one realm, composed with the   *)
(* polling loop that checks them: apps/servers-registry/service/           *)
(* gateway-server.go over repo/gateway-server_redis.go, and the gateway's  *)
(* own start (apps/gateway/cmd/gateway/main.go).                           *)
(*                                                                         *)
(* The objects of the health checker are the gateways.  A gateway starts   *)
(* its health endpoint in a goroutine and registers; the registry puts it  *)
(* on the checker's and the metrics consumer's list, then into Redis.      *)
(* When a check fails the loop takes it off its list and the observer      *)
(* removes it from Redis, in the goroutine of the loop.  Nothing locks the *)
(* three against each other.  Of the metrics consumer only the update it   *)
(* makes is modelled here; with kind = "metrics" the loop runs by itself.  *)
(***************************************************************************)
EXTENDS PollLoop

CONSTANTS
  NoOne,
  MaxLives,     \* bound: starts of gateways
  MaxFaults     \* bound: failing Redis commands and restarts of the registry

ASSUME GatewaysAssumption ==
  NoOne \notin Objects /\ MaxLives \in Nat /\ MaxFaults \in Nat

VARIABLES
  gw,        \* gateway processes: "down", "starting", "up"
  register,  \* Register calls: "none", "add" or "store", the step that is next
  gwKeys,    \* gw:<id>
  gwIndex,   \* realm:<id>:gws
  metered,   \* gateways on the metrics consumer's list
  removing,  \* the gateway onServerUnhealthy is at
  updating,  \* the gateway onMetricsUpdate has read
  unwatched, \* gateways that went into Redis, or stayed there, unchecked
  lives, faults

redisVars == <<gwKeys, gwIndex>>
gwBounds  == <<lives, faults>>
gwVars == <<gw, register, redisVars, metered, removing, updating, unwatched, gwBounds>>
allVars == <<vars, gwVars>>

GatewaysInit ==
  /\ kind \in Kinds /\ AtRest
  /\ objects = {} /\ canceled = FALSE /\ changes = 0
  /\ up = IF kind = "health" THEN {} ELSE Objects
  /\ gw = [g \in Objects |-> "down"] /\ register = [g \in Objects |-> "none"]
  /\ gwKeys = {} /\ gwIndex = {} /\ metered = {} /\ unwatched = {}
  /\ removing = NoOne /\ updating = NoOne
  /\ lives = 0 /\ faults = 0

\* ListByRealm: keys of the index without a value are skipped.
ListedGateways == gwIndex \cap gwKeys

-----------------------------------------------------------------------------
(* The gateway process.  Up and Down are those of its health endpoint,     *)
(* which may also be too slow for a single check.                          *)

StartGateway(g) ==
  /\ gw[g] = "down" /\ register[g] = "none" /\ lives < MaxLives
  /\ gw' = [gw EXCEPT ![g] = "starting"] /\ register' = [register EXCEPT ![g] = "add"]
  /\ lives' = lives + 1
  /\ UNCHANGED <<vars, redisVars, metered, removing, updating, unwatched, faults>>

Endpoint(g) == gw[g] # "down" /\ (Up(g) \/ Down(g)) /\ UNCHANGED gwVars

\* A call in progress goes on in the registry.
StopGateway(g) ==
  /\ gw[g] # "down" /\ gw' = [gw EXCEPT ![g] = "down"]
  /\ up' = up \ {g}
  /\ UNCHANGED <<kind, objects, loop, pipeVars, proc, canceled, changes, register, redisVars,
                 metered, removing, updating, unwatched, gwBounds>>

-----------------------------------------------------------------------------
(* Register                                                                *)

RegisterAdd(g) ==
  /\ register[g] = "add" /\ register' = [register EXCEPT ![g] = "store"]
  /\ objects' = objects \cup {g} /\ metered' = metered \cup {g}
  /\ UNCHANGED <<kind, up, loop, pipeVars, proc, canceled, changes, gw, redisVars, removing,
                 updating, unwatched, gwBounds>>

\* Add: SET, then SADD.
RegisterStore(g) ==
  /\ register[g] = "store" /\ register' = [register EXCEPT ![g] = "none"]
  /\ gwKeys' = gwKeys \cup {g} /\ gwIndex' = gwIndex \cup {g}
  /\ gw' = IF gw[g] = "starting" THEN [gw EXCEPT ![g] = "up"] ELSE gw
  /\ unwatched' = IF g \in objects THEN unwatched \ {g} ELSE unwatched \cup {g}
  /\ UNCHANGED <<vars, metered, removing, updating, gwBounds>>

\* A failed registration is fatal for the gateway.  When SADD is what failed,
\* DEL takes the key back, the one of an earlier life too.
RegisterFails(g) ==
  /\ register[g] = "store" /\ register' = [register EXCEPT ![g] = "none"]
  /\ faults < MaxFaults /\ faults' = faults + 1
  /\ gw' = [gw EXCEPT ![g] = "down"] /\ up' = up \ {g}
  /\ gwKeys' \in {gwKeys, gwKeys \ {g}}
  /\ UNCHANGED <<kind, objects, loop, pipeVars, proc, canceled, changes, gwIndex, metered,
                 removing, updating, unwatched, lives>>

-----------------------------------------------------------------------------
(* The loop, with the observer it calls                                    *)

TellsFailure(r) == kind = "health" /\ ~r.ok

CheckerStep ==
  /\ removing = NoOne
  /\ \/ StartIteration /\ UNCHANGED removing
     \/ (\E g \in Objects : Send(g)) /\ UNCHANGED removing
     \/ Stop /\ UNCHANGED removing
     \/ HandleResult /\ removing' = IF TellsFailure(Head(results)) THEN Head(results).obj ELSE NoOne
  /\ UNCHANGED <<gw, register, redisVars, metered, updating, unwatched, gwBounds>>

\* Remove: nothing without a value, else SREM and DEL; then the metrics
\* consumer's list.
OnServerUnhealthy ==
  /\ removing # NoOne /\ removing' = NoOne
  /\ gwIndex' = IF removing \in gwKeys THEN gwIndex \ {removing} ELSE gwIndex
  /\ gwKeys' = gwKeys \ {removing}
  /\ metered' = metered \ {removing}
  /\ UNCHANGED <<vars, gw, register, updating, unwatched, gwBounds>>

\* An error of Redis is logged; the gateway is off the checker's list already.
UnhealthyFails ==
  /\ removing # NoOne /\ removing' = NoOne
  /\ faults < MaxFaults /\ faults' = faults + 1
  /\ metered' = metered \ {removing}
  /\ unwatched' = unwatched \cup ({removing} \ objects)
  /\ UNCHANGED <<vars, gw, register, redisVars, updating, lives>>

\* onMetricsUpdate: Update reads the value and writes it back.
MetricsGet(g) ==
  /\ g \in metered \cap gwKeys /\ updating = NoOne /\ ~canceled
  /\ updating' = g
  /\ UNCHANGED <<vars, gw, register, redisVars, metered, removing, unwatched, gwBounds>>

MetricsSet ==
  /\ updating # NoOne /\ updating' = NoOne
  /\ gwKeys' = gwKeys \cup {updating}
  /\ unwatched' = unwatched \cup ({updating} \cap (gwIndex \ (objects \cup {removing})))
  /\ UNCHANGED <<vars, gw, register, gwIndex, metered, removing, gwBounds>>

-----------------------------------------------------------------------------
\* Fault: a new registry starts with empty lists.
ListedAtStartNone == {}

\* NewGateway puts every stored gateway on both lists again.
ListedAtStart == ListedGateways

\* The registry dies and is started again; calls to it fail.
RestartRegistry ==
  /\ faults < MaxFaults /\ faults' = faults + 1 /\ ~canceled
  /\ objects' = ListedAtStart /\ metered' = ListedAtStart /\ unwatched' = {}
  /\ loop' = "wait" /\ todo' = {} /\ awaited' = 0 /\ queue' = <<>> /\ results' = <<>>
  /\ proc' = [p \in Processors |-> Idle]
  /\ removing' = NoOne /\ updating' = NoOne
  /\ gw' = [g \in Objects |-> IF register[g] = "none" THEN gw[g] ELSE "down"]
  /\ up' = {g \in up : gw'[g] # "down"}
  /\ register' = [g \in Objects |-> "none"]
  /\ UNCHANGED <<kind, canceled, changes, redisVars, lives>>

Registering(g) == RegisterAdd(g) \/ RegisterStore(g)

GatewaysNext ==
  /\ kind = "health"
  /\ \/ \E g \in Objects : \/ StartGateway(g) \/ Endpoint(g) \/ StopGateway(g)
                           \/ Registering(g) \/ RegisterFails(g) \/ MetricsGet(g)
     \/ OnServerUnhealthy \/ UnhealthyFails \/ MetricsSet \/ RestartRegistry

LoopNext ==
  \/ CheckerStep
  \/ (\E p \in Processors : ProcStep(p)) /\ UNCHANGED gwVars
  \/ Cancel /\ UNCHANGED gwVars
  \/ /\ kind = "metrics" /\ UNCHANGED gwVars
     /\ \E o \in Objects : Add(o) \/ Remove(o) \/ Down(o) \/ Up(o)

GatewaysSpec == GatewaysInit /\ [][GatewaysNext \/ LoopNext]_allVars

\* The goroutines of the registry run; the timer between iterations fires.
GatewaysFairness ==
  /\ WF_allVars(CheckerStep \/ OnServerUnhealthy)
  /\ \A p \in Processors : WF_allVars(ProcStep(p) /\ UNCHANGED gwVars)
  /\ \A g \in Objects : WF_allVars(Registering(g))

GatewaysFairSpec == GatewaysSpec /\ GatewaysFairness

-----------------------------------------------------------------------------
\* A gateway that has ended leaves the list players are sent to, also when it
\* ends while it registers or while the registry restarts, and although a
\* metrics update may write its value back after the removal (gateway-server.go:121
\* and 148) - unless it was never checked again (see unwatched).
DeadGatewayLeaves ==
  \A g \in Objects :
    (gw[g] = "down" /\ g \in ListedGateways)
      ~> (gw[g] # "down" \/ g \notin ListedGateways \/ g \in unwatched \/ canceled)

\* Does not hold: a check that fails between the two steps of Register, or an
\* error of Redis in Remove, leaves a gateway in Redis that nobody checks.
ListedGatewayIsWatched ==
  kind = "health" /\ ~canceled => \A g \in ListedGateways : g \in objects \cup {removing}

\* Does not hold: the result of a check made before a restart of the gateway is
\* applied after it, and the gateway never registers again.
RunningGatewayIsListed ==
  \A g \in Objects : (gw[g] = "up" /\ g \in up) ~> (g \in ListedGateways \/ g \notin up \/ canceled)
=============================================================================
