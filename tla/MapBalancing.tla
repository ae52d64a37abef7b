---------------------------- MODULE MapBalancing ----------------------------
(***************************************************************************)
(* Distribute over all small inputs: every weight function up to MaxWeight *)
(* and every set of servers, with and without maps of their own.           *)
(***************************************************************************)
EXTENDS MapBalancer

CONSTANTS BalancedMaps, BalancedServers, MaxWeight

ASSUME BalancingAssumption ==
  IsFiniteSet(BalancedMaps) /\ IsFiniteSet(BalancedServers) /\ MaxWeight \in Nat

VARIABLES weights, available, result
inputVars == <<weights, available, result>>

NotYet == <<>>

BalanceInit ==
  /\ weights \in [BalancedMaps -> 0 .. MaxWeight]
  /\ \E S \in SUBSET BalancedServers \ {{}} : available \in [S -> SUBSET BalancedMaps]
  /\ \A s \in DOMAIN available : Cardinality(available[s]) <= 1
  /\ result = NotYet

Distribute ==
  /\ result = NotYet
  /\ result' \in Distributions(DOMAIN available, available, weights)
  /\ UNCHANGED <<weights, available>>

BalanceSpec == BalanceInit /\ [][Distribute]_inputVars

Done == result # NotYet
Free == {s \in DOMAIN available : available[s] = {}}
Claimed == UNION {available[s] : s \in DOMAIN available}

\* Every map that no server claims as its own lands on exactly one server, and
\* no server that can take any map gets a claimed one (distributor.go:116,
\* "so no map is dropped").
EveryMapOnce ==
  Done /\ Free # {} =>
    /\ \A m \in BalancedMaps \ Claimed : Cardinality({s \in Free : m \in result[s]}) = 1
    /\ \A s \in Free : result[s] \subseteq BalancedMaps \ Claimed

\* The packing stays near the fair share: counting a map as at most one share,
\* no server gets more than twice its share, also when surplus bins are spread.
NobodyGetsTwiceTheShare ==
  Done /\ Free # {} =>
    LET w == [m \in BalancedMaps \ Claimed |-> weights[m]]
        n == Cardinality(Free)
    IN  \A s \in Free : Load(result[s], Clamped(w, n)) <= 2 * WeightPerServer(w, n)
=============================================================================
