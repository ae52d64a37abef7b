------------------------- MODULE MCServersRegistry -------------------------
(* Small instances of ServersRegistry for TLC.                             *)
EXTENDS ServersRegistry

\* Three such maps need one bin more than two servers are.
MCWeights == [m \in Maps |-> 2]

\* Every server can take any map.
MCAnyMap == [s \in Servers |-> {}]

\* The last server claims one map as its own.
MCOneClaims == [s \in Servers |-> IF s = "s3" THEN {"kalimdor"} ELSE {}]
=============================================================================
