-------------------------- MODULE MCWriteAheadLog --------------------------
(* WriteAheadLog in the configurations the server can have. *)
EXTENDS WriteAheadLog

Setup(mode, group, crash) == [mode |-> mode, group |-> group, crashes |-> crash]

(* Each write concern with the crash it promises to survive. *)
Promises == {Setup("flushed", TRUE, {"power"}), Setup("flushed", FALSE, {"power"}),
             Setup("journaled", FALSE, {"process"}), Setup("memory", FALSE, {"process"})}

ASSUME PromisesKept == Setups = Promises => Survivable

JournaledPower == {Setup("journaled", FALSE, {"power"})}
FlushedBoth == {Setup("flushed", FALSE, {"process", "power"})}
FlushedProcess == {Setup("flushed", TRUE, {"process"})}
=============================================================================
