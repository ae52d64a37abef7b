----------------------------- MODULE MCGateways -----------------------------
(***************************************************************************)
(* Small instances of the gateways' registry and of the guid iterator.     *)
(* They have nothing in common, so the two are explored one at a time:     *)
(* part says which one runs; the other one stays in an initial state,      *)
(* where none of its fair actions is enabled.                              *)
(***************************************************************************)
EXTENDS RegistryGateways, GuidProvider

VARIABLE part

Piece(m, n) == [first |-> m, last |-> n]

\* Single ranges and adjacent ones, on both sides of the comparison of the
\* trigger amount with the first guid.
MCContiguous == {<<Piece(0, 0)>>, <<Piece(0, 2)>>,
                 <<Piece(0, 1), Piece(2, 3)>>, <<Piece(0, 0), Piece(1, 3)>>}

MCInit ==
  /\ part \in {"gateways", "provider"}
  /\ Init /\ GatewaysInit
  /\ part = "provider" => kind = "health"

MCNext ==
  \/ part = "gateways" /\ (GatewaysNext \/ LoopNext) /\ UNCHANGED <<providerVars, part>>
  \/ part = "provider" /\ Step /\ UNCHANGED <<allVars, part>>

MCSpec ==
  /\ MCInit /\ [][MCNext]_<<providerVars, allVars, part>>
  /\ GatewaysFairness /\ Fairness
=============================================================================
