-------------------------- MODULE MCStorageEngine --------------------------
(* StorageEngine with two documents that share one value. *)
EXTENDS StorageEngine, TLC

CONSTANTS k1, k2, v1, i1

TwoKeys == {k1, k2}
OneValue == {v1}
OneIndex == {i1}
NoIndex == {}

(* Keys are only compared with each other. *)
SameKeys == Permutations(TwoKeys)
=============================================================================
