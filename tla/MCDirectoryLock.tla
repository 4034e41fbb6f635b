-------------------------- MODULE MCDirectoryLock --------------------------
(* Small instances of DirectoryLock for TLC. *)
EXTENDS DirectoryLock

CONSTANTS p1, p2, p3

(* Everyone on one host. *)
OneHost == [p \in Procs |-> "host"]

(* p1 alone on its host, as in a container; the others share another. *)
TwoHosts == [p \in Procs |-> IF p = p1 THEN "container" ELSE "host"]
=============================================================================
