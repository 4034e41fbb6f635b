---------------------------- MODULE GroupCommit ----------------------------
(***************************************************************************)
(* The replies of a server with the "flushed" write concern: the sessions  *)
(* (packages/server/src/session.ts), the committer they share              *)
(* (group-commit.ts), and of server.ts the start and the stop of the       *)
(* server.  The engine below is reduced to what the replies depend on:     *)
(* which records are in its log, and which of them are on stable storage.  *)
(*                                                                         *)
(* A handler runs to its end before the next one starts, so a message, a   *)
(* flush and a socket event are one step each.                             *)
(***************************************************************************)
EXTENDS Integers, Sequences

CONSTANTS
    Sessions,           \* the client connections
    MaxRequests,        \* bound on the messages of a connection
    MaxLsn,             \* bound on the records
    RecoverUnsynced     \* the server may start on a log whose last records
                        \* never reached stable storage

ASSUME GroupCommitConstants ==
    /\ MaxRequests \in Nat /\ MaxLsn \in Nat
    /\ RecoverUnsynced \in BOOLEAN

VARIABLES
    lastLsn,    \* the records of the log; memory holds the effects of all
    hard,       \* how many of them are on stable storage
    sync,       \* the log's unsynced flag: "clean" or "unsynced"
    health,     \* the log's broken flag: "ok" or "broken"
    server,     \* "down", "running" or "stopping"
    conn,       \* each socket: "none", "open", "ended", "destroyed", "closed"
    state,      \* each session: "AwaitingHandshake", "Ready", "Closing", "Closed"
    holding,    \* the sessions that hold their replies
    endAfter,   \* the sessions that end the socket on release
    held,       \* the replies each session holds
    sent,       \* the replies written to each socket
    asked,      \* the messages each session has handled
    waiting,    \* GroupCommitter.waiting, oldest first
    scheduled   \* a run() of the committer is scheduled: "yes" or "no"

engineVars == <<lastLsn, hard, sync, health>>
commitVars == <<waiting, scheduled>>
vars == <<lastLsn, hard, sync, health, server, conn, state, holding, endAfter,
          held, sent, asked, waiting, scheduled>>

(* A reply names the message it answers and the newest record whose        *)
(* effects it may show.                                                    *)
Reply == [req : Nat, lsn : Nat]

Init ==
    /\ lastLsn = 0 /\ hard = 0 /\ sync = "clean" /\ health = "ok"
    /\ server = "down"
    /\ conn = [s \in Sessions |-> "none"]
    /\ state = [s \in Sessions |-> "Closed"]
    /\ holding = {} /\ endAfter = {}
    /\ held = [s \in Sessions |-> <<>>]
    /\ sent = [s \in Sessions |-> <<>>]
    /\ asked = [s \in Sessions |-> 0]
    /\ waiting = <<>> /\ scheduled = "no"

-----------------------------------------------------------------------------
(* The engine.                                                             *)

(* start: recovery puts every record of the log into memory and takes them *)
(* all for committed.                                                      *)
Start ==
    /\ server = "down"
    /\ hard = lastLsn \/ RecoverUnsynced
    /\ server' = "running"
    /\ sync' = "clean" /\ health' = "ok"
    /\ UNCHANGED <<lastLsn, hard, conn, state, holding, endAfter, held, sent,
                   asked, waiting, scheduled>>

(* The log is flushed: by commit(), by sync(), or to rotate a segment.     *)
Flushed ==
    /\ health = "ok"
    /\ hard' = lastLsn /\ sync' = "clean"
    /\ UNCHANGED <<lastLsn, health>>

(* A write or a flush fails and breaks the log. *)
Breaks ==
    /\ health = "ok"
    /\ health' = "broken"
    /\ UNCHANGED <<lastLsn, hard, sync>>

(* dispatch appends one record, or two when openCollection creates the     *)
(* collection first.  Each may rotate the log first, which flushes what    *)
(* came before; the one after the last may fail, with the log flushed by   *)
(* its rotation or broken by its write.                                    *)
Appends ==
    /\ health = "ok"
    /\ lastLsn' \in {lastLsn + 1, lastLsn + 2} /\ lastLsn' <= MaxLsn
    /\ \/ /\ hard' \in {hard, lastLsn, lastLsn' - 1}
          /\ sync' = "unsynced"
       \/ /\ hard' = lastLsn'
          /\ sync' = "clean"
    /\ health' \in {"ok", "broken"}

(* A read, or a write refused before the log saw it, leaves it alone.      *)
Dispatch == UNCHANGED engineVars \/ Flushed \/ Breaks \/ Appends

(* The log.sync() of a checkpoint. *)
Checkpoint ==
    /\ server # "down" /\ (Flushed \/ Breaks)
    /\ UNCHANGED <<server, conn, state, holding, endAfter, held, sent, asked,
                   waiting, scheduled>>

-----------------------------------------------------------------------------
(* A session.                                                              *)

Accept(s) ==
    /\ server = "running"
    /\ conn[s] \in {"none", "closed"} /\ s \notin holding
    /\ conn' = [conn EXCEPT ![s] = "open"]
    /\ state' = [state EXCEPT ![s] = "AwaitingHandshake"]
    /\ sent' = [sent EXCEPT ![s] = <<>>]
    /\ asked' = [asked EXCEPT ![s] = 0]
    /\ UNCHANGED <<lastLsn, hard, sync, health, server, holding, endAfter,
                   held, waiting, scheduled>>

(* A message arrives at a session that can receive one; the server's end() *)
(* does not stop the client from sending.                                  *)
Handles(s, states) ==
    /\ server # "down"
    /\ conn[s] \in {"open", "ended", "destroyed"} /\ state[s] \in states
    /\ asked[s] < MaxRequests
    /\ asked' = [asked EXCEPT ![s] = @ + 1]

(* Mutant: only the session that wrote waits for the flush. *)
HoldOwnWrites(s) ==
    IF s \notin holding /\ sync' = "unsynced" /\ lastLsn' # lastLsn
    THEN /\ holding' = holding \cup {s}
         /\ waiting' = Append(waiting, s)
         /\ scheduled' = "yes"
    ELSE UNCHANGED <<holding, waiting, scheduled>>

(* Mutant: the session waits, and no run() is scheduled for it. *)
HoldUnscheduled(s) ==
    IF s \notin holding /\ sync' = "unsynced"
    THEN /\ holding' = holding \cup {s}
         /\ waiting' = Append(waiting, s)
         /\ UNCHANGED scheduled
    ELSE UNCHANGED <<holding, waiting, scheduled>>

(* holdUntilDurable, after the log has changed: waits for the next flush   *)
(* when there is something to flush.                                       *)
HoldUntilDurable(s) ==
    IF s \notin holding /\ sync' = "unsynced"
    THEN /\ holding' = holding \cup {s}
         /\ waiting' = Append(waiting, s)
         /\ scheduled' = "yes"
    ELSE UNCHANGED <<holding, waiting, scheduled>>

(* Mutant: a reply that shows no data goes out past the held ones. *)
WritePastHeld(s, lsn, sockets) ==
    LET reply == [req |-> asked[s] + 1, lsn |-> lsn]
    IN  IF s \in holding' /\ lsn > 0
        THEN /\ held' = [held EXCEPT ![s] = Append(@, reply)]
             /\ conn' = sockets
             /\ UNCHANGED sent
        ELSE /\ sent' = IF sockets[s] = "open"
                        THEN [sent EXCEPT ![s] = Append(@, reply)] ELSE sent
             /\ conn' = sockets
             /\ UNCHANGED held

(* write: a session that holds keeps the reply; a socket that was ended    *)
(* fails on a write and is destroyed.  sockets is conn as the handler has  *)
(* left it so far.                                                         *)
Write(s, lsn, sockets) ==
    LET reply == [req |-> asked[s] + 1, lsn |-> lsn]
    IN  IF s \in holding'
        THEN /\ held' = [held EXCEPT ![s] = Append(@, reply)]
             /\ conn' = sockets
             /\ UNCHANGED sent
        ELSE /\ sent' = IF sockets[s] = "open"
                        THEN [sent EXCEPT ![s] = Append(@, reply)] ELSE sent
             /\ conn' = IF sockets[s] = "ended"
                        THEN [sockets EXCEPT ![s] = "destroyed"] ELSE sockets
             /\ UNCHANGED held

(* sendError with closeConnection: the session takes no more messages, and *)
(* the socket ends once the reply is written.                              *)
WriteAndEnd(s) ==
    LET reply == [req |-> asked[s] + 1, lsn |-> 0]
    IN  /\ state' = [state EXCEPT ![s] = "Closing"]
        /\ IF s \in holding
           THEN /\ held' = [held EXCEPT ![s] = Append(@, reply)]
                /\ endAfter' = endAfter \cup {s}
                /\ UNCHANGED <<sent, conn>>
           ELSE /\ sent' = IF conn[s] = "open"
                           THEN [sent EXCEPT ![s] = Append(@, reply)] ELSE sent
                /\ conn' = [conn EXCEPT ![s] = IF @ = "open" THEN "ended" ELSE "destroyed"]
                /\ UNCHANGED <<held, endAfter>>

Handshake(s) ==
    /\ Handles(s, {"AwaitingHandshake"})
    /\ state' = [state EXCEPT ![s] = "Ready"]
    /\ UNCHANGED <<holding, waiting, scheduled>>
    /\ Write(s, 0, conn)
    /\ UNCHANGED <<lastLsn, hard, sync, health, server, endAfter>>

(* A ping, a second handshake or a message of another kind: answered       *)
(* without touching the engine.                                            *)
Ping(s) ==
    /\ Handles(s, {"Ready"})
    /\ UNCHANGED <<holding, waiting, scheduled>>
    /\ Write(s, 0, conn)
    /\ UNCHANGED <<lastLsn, hard, sync, health, server, state, endAfter>>

(* A refused handshake, a message with id zero, input that does not decode. *)
ProtocolFailure(s) ==
    /\ Handles(s, {"AwaitingHandshake", "Ready"})
    /\ WriteAndEnd(s)
    /\ UNCHANGED <<lastLsn, hard, sync, health, server, holding, waiting, scheduled>>

(* handleCommand.  The reply, a result or an error, is made from memory    *)
(* after the command has run, and may show every record in it.             *)
Command(s) ==
    /\ Handles(s, {"Ready"})
    /\ Dispatch
    /\ HoldUntilDurable(s)
    /\ Write(s, lastLsn', conn)
    /\ UNCHANGED <<server, state, endAfter>>

(* stop ends every socket; the sessions are not told. *)
Ended(sockets) == [s \in Sessions |-> IF sockets[s] = "open" THEN "ended" ELSE sockets[s]]

(* failCommand: dispatch throws what no command may throw.  The server's   *)
(* "error" event stops the server before the reply is written.             *)
CommandFails(s) ==
    /\ Handles(s, {"Ready"})
    /\ Dispatch
    /\ HoldUntilDurable(s)
    /\ server' = "stopping"
    /\ Write(s, lastLsn', IF server = "running" THEN Ended(conn) ELSE conn)
    /\ UNCHANGED <<state, endAfter>>

(* The "close" event of a socket: the client has gone, or destroy().       *)
SocketClosed(s) ==
    /\ conn[s] \in {"open", "ended", "destroyed"}
    /\ conn' = [conn EXCEPT ![s] = "closed"]
    /\ state' = [state EXCEPT ![s] = "Closed"]
    /\ UNCHANGED <<lastLsn, hard, sync, health, server, holding, endAfter,
                   held, sent, asked, waiting, scheduled>>

-----------------------------------------------------------------------------
(* The committer.                                                          *)

(* release without an error, for all waiting sessions: the held replies go *)
(* to the sockets that still take them.                                    *)
ReleaseAll ==
    LET open == {s \in holding : conn[s] = "open"}
    IN  /\ sent' = [s \in Sessions |-> IF s \in open THEN sent[s] \o held[s] ELSE sent[s]]
        /\ conn' = [s \in Sessions |->
                      IF s \in open \cap endAfter THEN "ended" ELSE conn[s]]
        /\ UNCHANGED server

(* Mutant: the replies are dropped and the connections stay. *)
DropSilently == UNCHANGED <<sent, conn, server>>

(* release with an error: the first session that can still write reports   *)
(* it, which stops the server and so ends the other sockets, and destroys  *)
(* its own socket.  All held replies are dropped.                          *)
DropAll ==
    LET open == {i \in DOMAIN waiting : conn[waiting[i]] = "open"}
    IN  /\ UNCHANGED sent
        /\ IF open = {} THEN UNCHANGED <<conn, server>>
           ELSE /\ server' = "stopping"
                /\ \E i \in open :
                      /\ \A j \in open : i <= j
                      /\ conn' = [Ended(conn) EXCEPT ![waiting[i]] = "destroyed"]

(* engine.commit(): nothing to do, one fsync, or a failure.                *)
CommitWorks ==
    \/ sync = "clean" /\ UNCHANGED engineVars
    \/ sync = "unsynced" /\ Flushed

CommitFails ==
    /\ sync = "unsynced"
    /\ health' = "broken"
    /\ UNCHANGED <<lastLsn, hard, sync>>

Run ==
    /\ scheduled = "yes"
    /\ scheduled' = "no" /\ waiting' = <<>>
    /\ (CommitWorks /\ ReleaseAll) \/ (CommitFails /\ DropAll)
    /\ holding' = {} /\ endAfter' = {}
    /\ held' = [s \in Sessions |-> <<>>]
    /\ UNCHANGED <<state, asked>>

-----------------------------------------------------------------------------
(* The server.                                                             *)

Stop ==
    /\ server = "running"
    /\ server' = "stopping"
    /\ conn' = Ended(conn)
    /\ UNCHANGED <<lastLsn, hard, sync, health, state, holding, endAfter, held,
                   sent, asked, waiting, scheduled>>

(* The force timer of close(). *)
ForceClose ==
    /\ server = "stopping"
    /\ \E s \in Sessions : conn[s] = "ended"
    /\ conn' = [s \in Sessions |-> IF conn[s] = "ended" THEN "destroyed" ELSE conn[s]]
    /\ UNCHANGED <<lastLsn, hard, sync, health, server, state, holding, endAfter,
                   held, sent, asked, waiting, scheduled>>

(* The process is gone: nothing is left of the sessions. *)
Gone ==
    /\ server' = "down"
    /\ conn' = [s \in Sessions |-> IF conn[s] = "none" THEN "none" ELSE "closed"]
    /\ state' = [s \in Sessions |-> "Closed"]
    /\ holding' = {} /\ endAfter' = {}
    /\ held' = [s \in Sessions |-> <<>>]
    /\ waiting' = <<>> /\ scheduled' = "no"
    /\ UNCHANGED <<sent, asked>>

(* stop goes on once every socket is closed: the engine closes with a last *)
(* flush, which may fail.                                                  *)
Finish ==
    /\ server = "stopping"
    /\ \A s \in Sessions : conn[s] \in {"none", "closed"}
    /\ Flushed \/ Breaks \/ (health = "broken" /\ UNCHANGED engineVars)
    /\ Gone

(* The process is killed, or the power fails and takes some of the records *)
(* that are not on stable storage.                                         *)
Kill ==
    /\ server # "down"
    /\ Gone
    /\ UNCHANGED engineVars

PowerLoss ==
    /\ lastLsn' \in hard .. lastLsn
    /\ hard' = lastLsn'
    /\ Gone
    /\ UNCHANGED <<sync, health>>

Next ==
    \/ Start \/ Checkpoint \/ Run \/ Stop \/ ForceClose \/ Finish \/ Kill \/ PowerLoss
    \/ \E s \in Sessions :
          \/ Accept(s) \/ Handshake(s) \/ Ping(s) \/ ProtocolFailure(s)
          \/ Command(s) \/ CommandFails(s) \/ SocketClosed(s)

Spec == Init /\ [][Next]_vars

(* setImmediate runs its callback, the force timer fires, and a destroyed  *)
(* socket emits "close".                                                   *)
Fairness ==
    /\ WF_vars(Run)
    /\ WF_vars(ForceClose)
    /\ \A s \in Sessions : WF_vars(conn[s] = "destroyed" /\ SocketClosed(s))

FairSpec == Spec /\ Fairness

-----------------------------------------------------------------------------
(* Every variable keeps its type. *)
TypeOK ==
    /\ lastLsn \in Nat /\ hard \in Nat
    /\ sync \in {"clean", "unsynced"}
    /\ health \in {"ok", "broken"}
    /\ server \in {"down", "running", "stopping"}
    /\ conn \in [Sessions -> {"none", "open", "ended", "destroyed", "closed"}]
    /\ state \in [Sessions -> {"AwaitingHandshake", "Ready", "Closing", "Closed"}]
    /\ holding \subseteq Sessions /\ endAfter \subseteq Sessions
    /\ held \in [Sessions -> Seq(Reply)]
    /\ sent \in [Sessions -> Seq(Reply)]
    /\ asked \in [Sessions -> Nat]
    /\ waiting \in Seq(Sessions)
    /\ scheduled \in {"yes", "no"}

(* No reply that has left the server shows a record that is not on stable  *)
(* storage, whichever sessions, flushes and failures came between the      *)
(* write and the reply (docs/storage.md:73-74 "nobody is ever shown data   *)
(* that a crash could still take away").                                   *)
NothingShownIsLost ==
    \A s \in Sessions : \A i \in DOMAIN sent[s] : sent[s][i].lsn <= hard

(* A connection gets its replies in the order of its messages and without  *)
(* a hole, also when some are held, released, or written past a flush      *)
(* (session.ts:265-267 "which keeps replies in order").                    *)
RepliesInOrder ==
    \A s \in Sessions : \A i \in DOMAIN sent[s] : sent[s][i].req = i

(* A held reply is not forgotten: its session waits for a run() that is    *)
(* scheduled (group-commit.ts:30-37).                                      *)
HeldRepliesHaveARun ==
    \A s \in Sessions :
        held[s] # <<>> => /\ s \in holding
                          /\ \E i \in DOMAIN waiting : waiting[i] = s
                          /\ scheduled = "yes"

(* Every message is answered, or its connection closes: no client waits    *)
(* for ever (docs/storage.md:74-75 "the server closes the connections      *)
(* whose replies were waiting instead of reporting success").              *)
EveryMessageSettled ==
    \A s \in Sessions : \A n \in 1 .. MaxRequests :
        (asked[s] >= n) ~> (Len(sent[s]) >= n \/ conn[s] \in {"none", "closed"})
=============================================================================
