--------------------------- MODULE GuidAllocator ---------------------------
(***************************************************************************)
(* What the guid server promises its callers, without channels, workers,   *)
(* caches or restarts: a durable maximum per key that only grows, and      *)
(* answers made of guids below it that were never in an answer before.     *)
(* GuidService implements this (see Allocates there).                      *)
(***************************************************************************)
EXTENDS Integers, Sequences

CONSTANTS Keys, ExistingMax   \* what MySQL holds already, per key

VARIABLES
  max,      \* the highest guid set aside for the cluster
  answers   \* the ranges given away, in the order of the answers

vars == <<max, answers>>

Guids(r) == r.start .. r.end

Given(k) == UNION {Guids(answers[k][i]) : i \in DOMAIN answers[k]}

Init ==
  /\ max = [k \in Keys |-> 0]
  /\ answers = [k \in Keys |-> <<>>]

\* More guids of one key are set aside; nobody has them yet.
Reserve(k) ==
  /\ max'[k] > max[k]
  /\ max' = [max EXCEPT ![k] = max'[k]]
  /\ UNCHANGED answers

\* One answer: ranges of guids that are set aside, not stored in MySQL and
\* not given before, and no guid of it twice.
GiveOut(k) ==
  LET old == Len(answers[k])
      new == (old + 1) .. Len(answers'[k])
      r(i) == answers'[k][i]
  IN  /\ new # {} /\ SubSeq(answers'[k], 1, old) = answers[k]
      /\ \A i \in new :
           /\ Guids(r(i)) # {}
           /\ Guids(r(i)) \subseteq (ExistingMax[k] + 1 .. max[k]) \ Given(k)
           /\ \A j \in new : i # j => Guids(r(i)) \cap Guids(r(j)) = {}
      /\ answers' = [answers EXCEPT ![k] = answers'[k]]
      /\ UNCHANGED max

Next == \E k \in Keys : Reserve(k) \/ GiveOut(k)

Spec == Init /\ [][Next]_vars
=============================================================================
