--------------------------- MODULE MCGuidService ---------------------------
(* Small instances of GuidService for TLC.                                 *)
EXTENDS GuidService, TLC

\* MySQL already holds two guids of the first kind.
MCExistingMax == [k \in Keys |-> IF k = "characters" THEN 2 ELSE 0]

CallerSymmetry == Permutations(Callers)
=============================================================================
