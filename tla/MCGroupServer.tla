--------------------------- MODULE MCGroupServer ---------------------------
(* Small instances of GroupServer for TLC.                                 *)
EXTENDS GroupServer, TLC

PlayerSymmetry == Permutations(Players)
=============================================================================
