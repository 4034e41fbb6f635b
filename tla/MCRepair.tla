------------------------------ MODULE MCRepair ------------------------------
(***************************************************************************)
(* The instance of Repair for TLC: two repairs, and one server.            *)
(***************************************************************************)
EXTENDS Repair

CONSTANTS r1, r2

SameRepairers == Permutations({r1, r2})

SomeConsents == {{}, {"allowDataLoss", "rebuildManifest", "clearLock"}}
=============================================================================
