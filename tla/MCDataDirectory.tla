--------------------------- MODULE MCDataDirectory ---------------------------
(***************************************************************************)
(* The instance of DataDirectory for TLC: two commands, two files with the *)
(* manifest, and three builds.  The step from version 1 to 2 leaves the    *)
(* files as they are, as the one in MIGRATIONS does; the next two, which   *)
(* are yet to come, rewrite them.                                          *)
(***************************************************************************)
EXTENDS DataDirectory, TLC

CONSTANTS c1, c2

SameCommands == Permutations({c1, c2})
=============================================================================
