--------------------------- MODULE GuidDiapasons ---------------------------
(***************************************************************************)
(* The arithmetic of guid ranges ("diapasons") kept by the guid server:    *)
(* apps/guidserver/service/guid-diapasons.go.                              *)
(*                                                                         *)
(* A range is a record [start, end], both ends included.  An available     *)
(* range additionally carries cur, the next guid it will hand out.  The    *)
(* list AvailableDiapasons.Diapasons is a sequence of available ranges.    *)
(*                                                                         *)
(* Every operator here is one method, whole: the Go methods run under the  *)
(* list's own lock, so a method is atomic for the other goroutines.        *)
(***************************************************************************)
EXTENDS Integers, Sequences, FiniteSets

LOCAL INSTANCE SequencesExt

\* What a failed reservation yields: GuidDiapason{}, the Go zero value.
NoGuids == [start |-> 0, end |-> 0]

Disjoint(r, s) == r.end < s.start \/ s.end < r.start \/ r.end < r.start \/ s.end < s.start

GuidsLeft(d) == IF d.cur > d.end THEN 0 ELSE d.end - d.cur + 1

TotalCount(d) == d.end - d.start + 1

SumOver(ds, count(_)) == FoldSeq(LAMBDA d, acc : count(d) + acc, 0, ds)

(***************************************************************************)
(* PctUsage() >= pct.  An empty list counts as 100% used.  The quotient    *)
(* 100 - left / (total / 100) is compared over the integers; a zero total  *)
(* is NaN in Go, which is not >= anything.                                 *)
(***************************************************************************)
PctUsageAtLeast(ds, pct) ==
  \/ ds = <<>>
  \/ LET total == SumOver(ds, TotalCount)
         left  == SumOver(ds, GuidsLeft)
     IN  total > 0 /\ 100 * left <= (100 - pct) * total

\* The first of a set of positions; 0 when there is none.
FirstOf(I) == IF I = {} THEN 0 ELSE CHOOSE i \in I : \A j \in I : i <= j

\* Drops the exhausted ranges at the front of the list, and only those.
CleanupEmpty(ds) ==
  LET first == FirstOf({i \in DOMAIN ds : GuidsLeft(ds[i]) # 0})
  IN  IF first = 0 THEN <<>> ELSE SubSeq(ds, first, Len(ds))

-----------------------------------------------------------------------------
(***************************************************************************)
(* UseGuids(n) walks the list until a range covers what is still missing.  *)
(* It returns the rest of every range it walked over and the part of the   *)
(* covering one that it needs.  Only the covering range remembers it: the  *)
(* assignment to CurrentGuid of a range it drained is made to the loop's   *)
(* copy (guid-diapasons.go:76), so the list keeps that range unchanged.    *)
(***************************************************************************)
Remaining(ds, n, i) ==
  IF i = 1 THEN n ELSE n - SumOver(SubSeq(ds, 1, i - 1), GuidsLeft)

Covering(ds, n) == FirstOf({i \in DOMAIN ds : Remaining(ds, n, i) <= GuidsLeft(ds[i])})

Rest(d) == [start |-> d.cur, end |-> d.end]

UsedGuids(ds, n) ==
  LET k == Covering(ds, n)
  IN  IF k = 0
      THEN [i \in DOMAIN ds |-> Rest(ds[i])]
      ELSE [i \in 1 .. k |->
              IF i < k THEN Rest(ds[i])
              ELSE [start |-> ds[k].cur, end |-> ds[k].cur - 1 + Remaining(ds, n, k)]]

AfterUse(ds, n) ==
  LET k == Covering(ds, n)
  IN  CleanupEmpty(IF k = 0 THEN ds
                   ELSE [ds EXCEPT ![k].cur = @ + Remaining(ds, n, k)])

\* Fault: an exhausted or unfinished last range is never extended.
AddDiapasonAppends(ds, r) == Append(ds, [start |-> r.start, end |-> r.end, cur |-> r.start])

\* A new range extends the last one when it continues it, else is appended.
AddDiapason(ds, r) ==
  IF ds # <<>> /\ ds[Len(ds)].end = r.start - 1
  THEN [ds EXCEPT ![Len(ds)].end = r.end]
  ELSE Append(ds, [start |-> r.start, end |-> r.end, cur |-> r.start])
=============================================================================
