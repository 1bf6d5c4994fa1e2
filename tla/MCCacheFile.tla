---------------------------- MODULE MCCacheFile ----------------------------
(* Three filter shapes for TLC.  "k3" and "k5" have the same byte count and  *)
(* different num_hashes, as two workloads at the 16 MB limit do; "big" has   *)
(* another byte count.                                                       *)
EXTENDS CacheFile

MCSizeBytes == [s \in Shapes |-> IF s = "big" THEN 4 ELSE 3]

MCCells == [s \in Shapes |-> [k \in Keys |->
  CASE s = "k3" -> IF k = "add" THEN {0} ELSE IF k = "sub" THEN {1} ELSE {0, 1}
    [] s = "k5" -> IF k = "add" THEN {0, 2} ELSE IF k = "sub" THEN {1, 2} ELSE {0, 1, 2}
    [] s = "big" -> IF k = "add" THEN {0, 3} ELSE IF k = "sub" THEN {1} ELSE {2, 3}]]
=============================================================================
