--------------------------- MODULE MCGroupCommit ---------------------------
(* GroupCommit with two connections. *)
EXTENDS GroupCommit, TLC

CONSTANTS s1, s2

TwoSessions == {s1, s2}
Interchangeable == Permutations(TwoSessions)
=============================================================================
