---------------------------- MODULE MCMatchmaking ----------------------------
(***************************************************************************)
(* Two players of the alliance, who queue alone or as a group, and one of  *)
(* the horde, for battlegrounds of one or two players per team.            *)
(***************************************************************************)
EXTENDS Matchmaking

CONSTANTS a1, a2, h1

MCParties ==
  {[leader |-> a1, members |-> {}, team |-> "alliance"],
   [leader |-> a1, members |-> {a2}, team |-> "alliance"],
   [leader |-> a2, members |-> {}, team |-> "alliance"],
   [leader |-> h1, members |-> {}, team |-> "horde"]}
=============================================================================
