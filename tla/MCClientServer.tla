--------------------------- MODULE MCClientServer ---------------------------
(* ClientServer with one program that embeds the server, and the signal.   *)
EXTENDS ClientServer

CONSTANTS program, signal

OneProgram == {program}
=============================================================================
