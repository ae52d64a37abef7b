---------------------------- MODULE MapBalancer ----------------------------
(***************************************************************************)
(* The distribution of maps over game servers:                             *)
(* apps/servers-registry/mapbalancing/binpack/distributor.go.              *)
(*                                                                         *)
(* Weights are a function from maps to naturals.  Go iterates over a map   *)
(* in random order and sort.Slice is not stable, so maps of equal weight   *)
(* come in any order: Packings is the set of results one call may have,    *)
(* each a sequence of n sets of maps, one per server.                      *)
(***************************************************************************)
EXTENDS Integers, Sequences, FiniteSets, SequencesExt, FiniteSetsExt

Load(ms, w) == MapThenSumSet(LAMBDA m : w[m], ms)

WeightPerServer(w, n) == (Load(DOMAIN w, w) + n - 1) \div n

\* Fault: a map may be heavier than a server's share.
Unclamped(w, n) == w

\* A map heavier than a server's share counts as exactly that share.
Clamped(w, n) ==
  [m \in DOMAIN w |-> IF w[m] > WeightPerServer(w, n) THEN WeightPerServer(w, n) ELSE w[m]]

\* The orders sort.Slice may leave the maps in: heaviest first.
Orders(w) ==
  {o \in SetToSeqs(DOMAIN w) : \A i \in 1 .. (Len(o) - 1) : w[o[i]] >= w[o[i + 1]]}

\* firstAvailableBin; 0 when a new bin is required.
FirstAvailableBin(bins, weight) == SelectInSeq(bins, LAMBDA b : b.space >= weight)

PutInto(bins, m, w, share) ==
  LET i == FirstAvailableBin(bins, w[m])
  IN  IF i > 0
      THEN [bins EXCEPT ![i] = [space |-> @.space - w[m], maps |-> Append(@.maps, m)]]
      ELSE Append(bins, [space |-> share - w[m], maps |-> <<m>>])

Bins(order, w, share) == FoldLeft(LAMBDA bins, m : PutInto(bins, m, w, share), <<>>, order)

\* Fault: bins without a server are cut off.
NoSurplus(bins, n) == <<>>

Surplus(bins, n) == FlattenSeq([i \in 1 .. (Len(bins) - n) |-> bins[n + i].maps])

\* The maps of the bins beyond the n-th go to the servers round robin.
PerServer(bins, n) ==
  LET surplus == Surplus(bins, n)
  IN  [i \in 1 .. n |->
         (IF i <= Len(bins) THEN ToSet(bins[i].maps) ELSE {})
         \cup {surplus[j] : j \in {k \in DOMAIN surplus : (k - 1) % n = i - 1}}]

\* greedyBinPackBalancer.  One server gets one bin with everything, which is
\* what Distribute does for it without packing.
Packings(w, n) ==
  {PerServer(Bins(o, Clamped(w, n), WeightPerServer(w, n)), n) : o \in Orders(Clamped(w, n))}

(***************************************************************************)
(* Distribute: a server with maps of its own gets these; the other maps    *)
(* are packed for the servers that can take any.  The servers come in the  *)
(* order of a Redis set, that is, in any.  An assignment is a function     *)
(* from the servers to sets of maps.                                       *)
(***************************************************************************)
Distributions(servers, available, w) ==
  LET fixed == {s \in servers : available[s] # {}}
      rest  == DOMAIN w \ UNION {available[s] : s \in fixed}
      free  == servers \ fixed
      n     == Cardinality(free)
      packings == IF n = 0 THEN {<<>>} ELSE Packings([m \in rest |-> w[m]], n)
  IN  {[s \in servers |-> IF s \in fixed THEN available[s]
                          ELSE packing[CHOOSE i \in 1 .. n : list[i] = s]]
         : packing \in packings, list \in SetToSeqs(free)}
=============================================================================
