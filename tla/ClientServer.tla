---------------------------- MODULE ClientServer ----------------------------
(***************************************************************************)
(* A client and the server it connects to: the life of SinterServer        *)
(* (packages/server/src/server.ts) from start to stop, the shutdown of     *)
(* the command line (apps/server-cli/src/main.ts), and a client of         *)
(* DriverClient whose sockets end here.  Of the engine it has whether it   *)
(* is open, and so holds the lock of its directory.                        *)
(***************************************************************************)
EXTENDS DriverClient

CONSTANTS
    Stoppers,       \* calls of stop() by a program that embeds the server
    Signal,         \* the call of stop() that main.ts makes, once
    MaxStarts       \* bound on the calls of start()

ASSUME ServerConstants == Signal \notin Stoppers /\ MaxStarts \in Nat

Callers == Stoppers \cup {Signal}

VARIABLES
    server,     \* SinterServerState
    engine,     \* "none", "open"
    starts,     \* how often start() was called
    stops       \* each call of stop(): "idle", "first", "waiting", "done", "failed"

serverVars == <<server, engine, starts, stops>>
vars == <<clientVars, serverVars>>

Init ==
    /\ ClientInit
    /\ server = "stopped" /\ engine = "none" /\ starts = 0
    /\ stops = [k \in Callers |-> "idle"]

-----------------------------------------------------------------------------
(* start, up to its await: the engine opens, or it fails and so does start. *)
Start ==
    /\ server = "stopped" /\ starts < MaxStarts
    /\ starts' = starts + 1
    /\ \/ server' = "starting" /\ engine' = "open"
       \/ UNCHANGED <<server, engine>>
    /\ UNCHANGED <<clientVars, stops>>

Listening ==
    /\ server = "starting"
    /\ server' = "running"
    /\ UNCHANGED <<clientVars, engine, starts, stops>>

ListenFails ==
    /\ server = "starting"
    /\ server' = "stopped" /\ engine' = "none"
    /\ UNCHANGED <<clientVars, starts, stops>>

(* trackSocket: a session for every connection. *)
TrackSocket(n) ==
    /\ server = "running"
    /\ PeerAccepts(n)
    /\ UNCHANGED serverVars

(* stop, up to its await.  A running server stops listening and ends its   *)
(* sockets; a server that is stopping already is waited for.  main.ts      *)
(* calls it for the first signal or "error" event of a server it started.  *)
Stop(k) ==
    /\ stops[k] = "idle"
    /\ k = Signal => server # "stopped"
    /\ \/ /\ server = "stopped"
          /\ stops' = [stops EXCEPT ![k] = "done"]
          /\ UNCHANGED <<clientVars, server>>
       \/ /\ server = "starting"
          /\ stops' = [stops EXCEPT ![k] = "failed"]
          /\ UNCHANGED <<clientVars, server>>
       \/ /\ server = "stopping"
          /\ stops' = [stops EXCEPT ![k] = "waiting"]
          /\ UNCHANGED <<clientVars, server>>
       \/ /\ server = "running"
          /\ server' = "stopping"
          /\ stops' = [stops EXCEPT ![k] = "first"]
          /\ PeerEnds(Sockets)
    /\ UNCHANGED <<engine, starts>>

(* Mutant: the force timer destroys only the sockets not asked to end. *)
ForceCloseOpen ==
    /\ server = "stopping" /\ \E n \in Sockets : peer[n] = "open"
    /\ PeerCloses({n \in Sockets : peer[n] = "open"})
    /\ UNCHANGED serverVars

(* The force timer of close(). *)
ForceClose ==
    /\ server = "stopping" /\ \E n \in Sockets : peer[n] = "ended"
    /\ PeerCloses({n \in Sockets : peer[n] = "ended"})
    /\ UNCHANGED serverVars

(* A socket of the server closes: the client's end has, or the connection  *)
(* breaks, or a session wrote to an ended socket.                          *)
ServerSocketClosed(n) ==
    /\ peer[n] \in {"open", "ended"}
    /\ PeerCloses({n})
    /\ UNCHANGED serverVars

(* Mutant: stop does not wait for the sockets. *)
StopFinishesEarly ==
    /\ server = "stopping"
    /\ server' = "stopped" /\ engine' = "none"
    /\ stops' = [k \in Callers |-> IF stops[k] \in {"first", "waiting"} THEN "done" ELSE stops[k]]
    /\ UNCHANGED <<clientVars, starts>>

(* Mutant: the engine is released after the calls have returned. *)
StopFinishesLocked ==
    /\ server = "stopping"
    /\ \A n \in Sockets : peer[n] \in {"none", "closed"}
    /\ UNCHANGED <<engine, server>>
    /\ stops' = [k \in Callers |-> IF stops[k] \in {"first", "waiting"} THEN "done" ELSE stops[k]]
    /\ UNCHANGED <<clientVars, starts>>

(* stop, after its await, when every socket is closed.  The calls that     *)
(* wait go on after the first one, which releases the engine without       *)
(* another await; only the first reports that the engine failed to close.  *)
StopFinishes ==
    /\ server = "stopping"
    /\ \A n \in Sockets : peer[n] \in {"none", "closed"}
    /\ server' = "stopped" /\ engine' = "none"
    /\ \E first \in {"done", "failed"} :
          stops' = [k \in Callers |-> CASE stops[k] = "first" -> first
                                        [] stops[k] = "waiting" -> "done"
                                        [] OTHER -> stops[k]]
    /\ UNCHANGED <<clientVars, starts>>

Session(n) == (PeerGreets(n) \/ PeerAnswers(n)) /\ UNCHANGED serverVars

Next ==
    \/ ClientStep /\ UNCHANGED serverVars
    \/ Start \/ Listening \/ ListenFails \/ ForceClose \/ StopFinishes
    \/ \E k \in Callers : Stop(k)
    \/ \E n \in Sockets : TrackSocket(n) \/ Session(n) \/ ServerSocketClosed(n)

(* The server's socket and its timers go on; so do the client's.           *)
Fairness ==
    /\ ClientFairness
    /\ WF_vars(Listening \/ ListenFails) /\ WF_vars(ForceClose) /\ WF_vars(StopFinishes)

Spec == Init /\ [][Next]_vars /\ Fairness

-----------------------------------------------------------------------------
(* Every variable keeps its type. *)
TypeOK ==
    /\ ClientTypeOK
    /\ server \in {"stopped", "starting", "running", "stopping"}
    /\ engine \in {"none", "open"}
    /\ starts \in 0 .. MaxStarts
    /\ stops \in [Callers -> {"idle", "first", "waiting", "done", "failed"}]

(* No session outlives the engine that its commands run on, and a stopped  *)
(* server has given up the directory: start() may open it again            *)
(* (server.ts:181-188, 226-241).                                           *)
EngineOutlivesSessions ==
    /\ engine = "none" => \A n \in Sockets : peer[n] \in {"none", "closed"}
    /\ server = "stopped" <=> engine = "none"

(* Whoever's stop() returns finds the server stopped and its directory     *)
(* free, also a call that found another one at work (server.ts:202-205,    *)
(* 230-241).                                                               *)
StopMeansReleased ==
    [][\A k \in Callers :
          stops[k] \in {"first", "waiting"} /\ stops'[k] \in {"done", "failed"} =>
              server' = "stopped" /\ engine' = "none"]_vars

(* A stop() that does not fail at once returns, whatever the clients do.   *)
StopsReturn ==
    \A k \in Callers : stops[k] \in {"first", "waiting"} ~> stops[k] \in {"done", "failed"}

(* A signal stops the server (docs/configuration.md:100 "`SIGINT`          *)
(* (Ctrl+C) and `SIGTERM` stop the server cleanly").  It does not while    *)
(* start() awaits the address: stop() throws, and main.ts keeps that       *)
(* promise for the next signal (main.ts:82-101, server.ts:207-215).  No    *)
(* run checks this formula.                                                *)
SignalStops == stops[Signal] # "idle" ~> server = "stopped"
=============================================================================
