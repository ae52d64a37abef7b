------------------------- MODULE MCRegistryPresence -------------------------
(***************************************************************************)
(* What the cluster knows of itself: of its game servers (the registry,    *)
(* and its map distributor alone on every small input) and of its players  *)
(* (presence).  The parts share no state and are explored one at a time:   *)
(* part says which one runs, the others stay in one initial state.         *)
(***************************************************************************)
EXTENDS MCServersRegistry, MapBalancing, Presence, TLC

VARIABLE part

Setting(p, l, u, e, c) == [patient |-> p, logins |-> l, updates |-> u, errors |-> e, crashes |-> c]

MCSettings == {Setting(TRUE, 3, 1, 1, 1), Setting(TRUE, 1, 2, 1, 0),
               Setting(FALSE, 2, 0, 0, 1), Setting(FALSE, 1, 2, 1, 0)}

Symmetry == Permutations(Gateways) \cup Permutations(Chars) \cup Permutations(Replicas)

MCInit ==
  /\ part \in {"registry", "balancer", "presence"}
  /\ Init
  /\ IF part = "balancer" THEN BalanceInit
     ELSE weights = <<>> /\ available = <<>> /\ result = <<>>
  /\ PresenceInit
  /\ part # "presence" => setting = CHOOSE s \in Settings : TRUE

MCNext ==
  \/ part = "registry" /\ Next /\ UNCHANGED <<inputVars, presenceVars, part>>
  \/ part = "balancer" /\ Distribute /\ UNCHANGED <<vars, presenceVars, part>>
  \/ part = "presence" /\ PresenceNext /\ UNCHANGED <<vars, inputVars, part>>

MCSpec == MCInit /\ [][MCNext]_<<vars, inputVars, presenceVars, part>>
=============================================================================
