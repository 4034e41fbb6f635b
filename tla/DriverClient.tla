---------------------------- MODULE DriverClient ----------------------------
(***************************************************************************)
(* The client side of a connection: SinterClient                           *)
(* (packages/driver/src/client.ts), its handshake (handshake.ts) and its   *)
(* RequestDispatcher (request-dispatcher.ts).                              *)
(*                                                                         *)
(* A client tries sockets one after the other until one is connected; that *)
(* socket carries all its requests, so there is one dispatcher in its      *)
(* life.  Every callback runs to its end and is one step.  Of the other    *)
(* end of a socket the module has what TCP and a server's session let the  *)
(* client see: requests are read, and their answers arrive, in order.      *)
(***************************************************************************)
EXTENDS Integers, Sequences

CONSTANTS
    MaxSockets,     \* bound on the attempts to connect
    MaxCalls,       \* bound on the requests
    MaxWork,        \* bound on the attempts and requests together
    MaxRequestId    \* MAX_REQUEST_ID of the protocol; MIN_REQUEST_ID is 1

ASSUME ClientConstants ==
    /\ MaxSockets \in Nat /\ MaxCalls \in Nat /\ MaxWork \in Nat
    /\ MaxRequestId \in Nat /\ MaxRequestId >= 2

Sockets == 1 .. MaxSockets
Calls == 1 .. MaxCalls
Ids == 1 .. MaxRequestId
None == 0

VARIABLES
    state,      \* SinterClientState
    socket,     \* this.socket, or None
    opened,     \* how many sockets were created
    phase,      \* each socket: which listeners it has
    life,       \* each socket: "unused", "open", "destroyed", "closed" (its event is out)
    peer,       \* the other end: "none", "open", "ended", "closed"
    hello,      \* each handshake: "none", "sent", "accepted", "refused"
    attempt,    \* each promise of connect(): "none", "pending", "resolved", "rejected"
    closeOf,    \* the socket whose "close" event a close() call awaits, or None
    dispatcher, \* the RequestDispatcher: "none", "open", "closed"
    attached,   \* this.requestDispatcher: "yes" or "no"
    ticks,      \* how often requestIds.next() was called
    calls,      \* how many requests were made
    tick,       \* for each call: the tick that gave it its id
    pending,    \* the dispatcher's map from ids to calls
    outcome,    \* each call: "unmade", "pending", "answered", "failed"
    answer,     \* the call whose answer a call was given, or None
    toServer,   \* requests on the wire
    toClient    \* answers on the wire

connVars == <<state, socket, opened, phase, life, peer, hello, attempt, closeOf>>
reqVars == <<ticks, calls, tick, pending, outcome, answer>>
wire == <<toServer, toClient>>
clientVars == <<connVars, dispatcher, attached, reqVars, wire>>

ClientInit ==
    /\ state = "new" /\ socket = None /\ opened = 0
    /\ phase = [n \in Sockets |-> "none"]
    /\ life = [n \in Sockets |-> "unused"]
    /\ peer = [n \in Sockets |-> "none"]
    /\ hello = [n \in Sockets |-> "none"]
    /\ attempt = [n \in Sockets |-> "none"]
    /\ closeOf = None
    /\ dispatcher = "none" /\ attached = "no"
    /\ ticks = 0 /\ calls = 0
    /\ tick = [c \in Calls |-> 0]
    /\ pending = [i \in Ids |-> None]
    /\ outcome = [c \in Calls |-> "unmade"]
    /\ answer = [c \in Calls |-> None]
    /\ toServer = <<>> /\ toClient = <<>>

-----------------------------------------------------------------------------
(* The RequestDispatcher.                                                  *)

(* The id that the t-th call of requestIds.next() returns: the first is    *)
(* FIRST_OPERATION_REQUEST_ID, and MIN_REQUEST_ID follows MAX_REQUEST_ID.  *)
IdAt(t) == (t % MaxRequestId) + 1

(* Mutant: an id that is pending is not skipped. *)
AllocateNext(t) == t = ticks + 1

(* allocateRequestId: the first tick whose id is not pending.              *)
AllocateRequestId(t) ==
    /\ t \in (ticks + 1) .. (ticks + MaxRequestId)
    /\ pending[IdAt(t)] = None
    /\ \A u \in (ticks + 1) .. (t - 1) : pending[IdAt(u)] # None

(* The calls whose promises are not settled yet. *)
Waiting == {c \in Calls : outcome[c] = "pending"}

(* Mutant: the map is emptied and the promises stay as they are. *)
ForgetAll ==
    /\ pending' = [i \in Ids |-> None]
    /\ UNCHANGED outcome

RejectAll ==
    /\ pending' = [i \in Ids |-> None]
    /\ outcome' = [c \in Calls |->
                     IF \E i \in Ids : pending[i] = c THEN "failed" ELSE outcome[c]]

(* close of the dispatcher; nothing happens when it is closed already.     *)
CloseDispatcher ==
    IF dispatcher = "open"
    THEN dispatcher' = "closed" /\ RejectAll
    ELSE UNCHANGED <<dispatcher, pending, outcome>>

(* request, after executeCommand or ping has got the dispatcher: refused,  *)
(* not encodable (its id is used up), out of ids, or sent.                 *)
Request ==
    /\ calls < MaxCalls /\ opened + calls < MaxWork
    /\ state = "connected" /\ attached = "yes"
    /\ calls' = calls + 1
    /\ \/ /\ dispatcher = "closed" \/ life[socket] # "open"
          /\ outcome' = [outcome EXCEPT ![calls + 1] = "failed"]
          /\ UNCHANGED <<ticks, tick, pending, toServer>>
       \/ /\ dispatcher = "open" /\ life[socket] = "open"
          /\ \A i \in Ids : pending[i] # None
          /\ ticks' = ticks + MaxRequestId + 1
          /\ outcome' = [outcome EXCEPT ![calls + 1] = "failed"]
          /\ UNCHANGED <<tick, pending, toServer>>
       \/ /\ dispatcher = "open" /\ life[socket] = "open"
          /\ \E t \in (ticks + 1) .. (ticks + MaxRequestId) :
                /\ AllocateRequestId(t)
                /\ ticks' = t
                /\ tick' = [tick EXCEPT ![calls + 1] = t]
                /\ \/ /\ outcome' = [outcome EXCEPT ![calls + 1] = "failed"]
                      /\ UNCHANGED <<pending, toServer>>
                   \/ /\ outcome' = [outcome EXCEPT ![calls + 1] = "pending"]
                      /\ pending' = [pending EXCEPT ![IdAt(t)] = calls + 1]
                      /\ toServer' = Append(toServer, [id |-> IdAt(t), call |-> calls + 1])
    /\ UNCHANGED <<state, socket, opened, phase, life, peer, hello, attempt, closeOf,
                   dispatcher, attached, answer, toClient>>

(* The timer of a request, or the failure of its write.                    *)
RejectRequest(i) ==
    /\ pending[i] # None
    /\ pending' = [pending EXCEPT ![i] = None]
    /\ outcome' = [outcome EXCEPT ![pending[i]] = "failed"]
    /\ UNCHANGED <<state, socket, opened, phase, life, peer, hello, attempt, closeOf,
                   dispatcher, attached, ticks, calls, tick, answer, toServer, toClient>>

(* Mutant: an answer with an unknown id goes to the oldest request. *)
HandleMessageLoosely(m) ==
    LET c == IF pending[m.id] # None THEN pending[m.id]
             ELSE IF Waiting = {} THEN None
                  ELSE CHOOSE d \in Waiting : \A e \in Waiting : d <= e
    IN  IF c = None THEN UNCHANGED <<pending, outcome, answer>>
        ELSE /\ pending' = [i \in Ids |-> IF pending[i] = c THEN None ELSE pending[i]]
             /\ outcome' = [outcome EXCEPT ![c] = "answered"]
             /\ answer' = [answer EXCEPT ![c] = m.call]

(* handleMessage: an answer, a result or an error, settles the request     *)
(* with its id; one that nobody waits for is dropped.                      *)
HandleMessage(m) ==
    IF pending[m.id] = None
    THEN UNCHANGED <<pending, outcome, answer>>
    ELSE /\ pending' = [pending EXCEPT ![m.id] = None]
         /\ outcome' = [outcome EXCEPT ![pending[m.id]] = "answered"]
         /\ answer' = [answer EXCEPT ![pending[m.id]] = m.call]

HandleData ==
    /\ toClient # <<>>
    /\ dispatcher = "open" /\ life[socket] = "open"
    /\ toClient' = Tail(toClient)
    /\ HandleMessage(Head(toClient))
    /\ UNCHANGED <<state, socket, opened, phase, life, peer, hello, attempt, closeOf,
                   dispatcher, attached, ticks, calls, tick, toServer>>

-----------------------------------------------------------------------------
(* The connection.                                                         *)

(* connect, in state "new": concurrent calls share this attempt.           *)
Connect ==
    /\ state = "new" /\ opened < MaxSockets /\ opened + calls < MaxWork
    /\ LET n == opened + 1
       IN  /\ state' = "connecting" /\ opened' = n /\ socket' = n
           /\ phase' = [phase EXCEPT ![n] = "connecting"]
           /\ life' = [life EXCEPT ![n] = "open"]
           /\ attempt' = [attempt EXCEPT ![n] = "pending"]
    /\ UNCHANGED <<peer, hello, closeOf, dispatcher, attached, reqVars, wire>>

(* finishFailure, but for socket.destroy().                                *)
FinishFailure(n) ==
    /\ attempt' = [attempt EXCEPT ![n] = "rejected"]
    /\ socket' = IF socket = n THEN None ELSE socket
    /\ attached' = "no"
    /\ state' = IF state = "connecting" THEN "new" ELSE state

(* Mutant: the socket of a failed attempt is dropped, not destroyed. *)
ConnectFailsOpen(n) ==
    /\ attempt[n] = "pending" /\ life[n] = "open"
    /\ phase[n] # "handshaken"
    /\ FinishFailure(n)
    /\ UNCHANGED <<life, opened, phase, peer, hello, closeOf, dispatcher, reqVars, wire>>

(* The attempt fails: an error, a refused or unreadable handshake, or the  *)
(* connect timer.  The socket is destroyed.                                *)
ConnectFails(n) ==
    /\ attempt[n] = "pending" /\ life[n] = "open"
    /\ phase[n] # "handshaken"
    /\ FinishFailure(n)
    /\ life' = [life EXCEPT ![n] = "destroyed"]
    /\ UNCHANGED <<opened, phase, peer, hello, closeOf, dispatcher, reqVars, wire>>

(* onConnect: the handshake is sent. *)
OnConnect(n) ==
    /\ phase[n] = "connecting" /\ life[n] = "open" /\ peer[n] # "none"
    /\ phase' = [phase EXCEPT ![n] = "handshaking"]
    /\ hello' = [hello EXCEPT ![n] = "sent"]
    /\ UNCHANGED <<state, socket, opened, life, peer, attempt, closeOf, dispatcher,
                   attached, reqVars, wire>>

(* The server's handshake arrives and is accepted: its promise resolves,   *)
(* and finishSuccess is left to a microtask.  No event of a socket and no  *)
(* timer comes before it, but the caller's own code may.                   *)
HandshakeSucceeds(n) ==
    /\ phase[n] = "handshaking" /\ life[n] = "open" /\ hello[n] = "accepted"
    /\ phase' = [phase EXCEPT ![n] = "handshaken"]
    /\ UNCHANGED <<state, socket, opened, life, peer, hello, attempt, closeOf,
                   dispatcher, attached, reqVars, wire>>

FinishSuccess(n) ==
    /\ phase[n] = "handshaken" /\ attempt[n] = "pending"
    /\ IF state = "connecting"
       THEN /\ attempt' = [attempt EXCEPT ![n] = "resolved"]
            /\ phase' = [phase EXCEPT ![n] = "live"]
            /\ dispatcher' = "open" /\ attached' = "yes"
            /\ state' = "connected"
            /\ UNCHANGED <<socket, life>>
       ELSE /\ FinishFailure(n)
            /\ life' = [life EXCEPT ![n] = IF @ = "open" THEN "destroyed" ELSE @]
            /\ UNCHANGED <<phase, dispatcher>>
    /\ UNCHANGED <<opened, peer, hello, closeOf, reqVars, wire>>

(* failConnection: the live socket fails or sends what does not decode.    *)
ConnectionFails ==
    /\ dispatcher = "open" /\ socket # None /\ life[socket] = "open"
    /\ CloseDispatcher
    /\ life' = [life EXCEPT ![socket] = "destroyed"]
    /\ UNCHANGED <<state, socket, opened, phase, peer, hello, attempt, closeOf,
                   attached, ticks, calls, tick, answer, toServer, toClient>>

(* The "timeout" event of the live socket. *)
IdleTimeout ==
    /\ socket # None /\ phase[socket] = "live" /\ life[socket] = "open"
    /\ CloseDispatcher
    /\ attached' = "no"
    /\ life' = [life EXCEPT ![socket] = "destroyed"]
    /\ UNCHANGED <<state, socket, opened, phase, peer, hello, attempt, closeOf,
                   ticks, calls, tick, answer, toServer, toClient>>

(* The "close" event of a socket that was destroyed here, or that the      *)
(* other end has ended once its answers are read.  In this order: the      *)
(* handshake or the dispatcher, the life cycle, and the close() call that  *)
(* awaits it.                                                              *)
SocketClosed(n) ==
    /\ \/ life[n] = "destroyed"
       \/ life[n] = "open" /\ peer[n] \in {"ended", "closed"}
          /\ (phase[n] = "live" => toClient = <<>>)
    /\ phase[n] = "handshaken" => attempt[n] # "pending"
    /\ life' = [life EXCEPT ![n] = "closed"]
    /\ closeOf' = IF closeOf = n THEN None ELSE closeOf
    /\ \/ /\ phase[n] = "live"
          /\ CloseDispatcher
          /\ IF socket = n
             THEN socket' = None /\ attached' = "no" /\ state' = "closed"
             ELSE /\ UNCHANGED <<socket, attached>>
                  /\ state' = IF closeOf = n THEN "closed" ELSE state
          /\ UNCHANGED attempt
       \/ /\ phase[n] # "live" /\ attempt[n] = "pending"
          /\ attempt' = [attempt EXCEPT ![n] = "rejected"]
          /\ socket' = IF socket = n THEN None ELSE socket
          /\ attached' = "no"
          /\ state' = IF closeOf = n THEN "closed"
                      ELSE IF state = "connecting" THEN "new" ELSE state
          /\ UNCHANGED <<dispatcher, pending, outcome>>
       \/ /\ phase[n] # "live" /\ attempt[n] # "pending"
          /\ state' = IF closeOf = n THEN "closed" ELSE state
          /\ UNCHANGED <<socket, attached, attempt, dispatcher, pending, outcome>>
    /\ UNCHANGED <<opened, phase, peer, hello, ticks, calls, tick, answer,
                   toServer, toClient>>

(* close: waits for the socket unless there is none, or it is destroyed;   *)
(* so a second close() while one waits ends at once.                       *)
Close ==
    /\ state # "closed"
    /\ attached' = "no" /\ socket' = None
    /\ IF attached = "yes" THEN CloseDispatcher ELSE UNCHANGED <<dispatcher, pending, outcome>>
    /\ IF socket = None \/ life[socket] # "open"
       THEN state' = "closed" /\ UNCHANGED <<life, closeOf>>
       ELSE /\ state' = "closing" /\ closeOf' = socket
            /\ life' = [life EXCEPT ![socket] = "destroyed"]
    /\ UNCHANGED <<opened, phase, peer, hello, attempt, ticks, calls, tick, answer,
                   toServer, toClient>>

-----------------------------------------------------------------------------
(* The other end.                                                          *)

PeerAccepts(n) ==
    /\ phase[n] = "connecting" /\ life[n] = "open" /\ peer[n] = "none"
    /\ peer' = [peer EXCEPT ![n] = "open"]
    /\ UNCHANGED <<state, socket, opened, phase, life, hello, attempt, closeOf,
                   dispatcher, attached, reqVars, wire>>

(* The session reads the handshake.  A refusal is followed by the end of   *)
(* the socket.                                                             *)
PeerGreets(n) ==
    /\ hello[n] = "sent" /\ peer[n] = "open"
    /\ \/ hello' = [hello EXCEPT ![n] = "accepted"] /\ UNCHANGED peer
       \/ /\ hello' = [hello EXCEPT ![n] = "refused"]
          /\ peer' = [peer EXCEPT ![n] = "ended"]
    /\ UNCHANGED <<state, socket, opened, phase, life, attempt, closeOf, dispatcher,
                   attached, reqVars, wire>>

(* The session reads a request and answers it. *)
PeerAnswers(n) ==
    /\ phase[n] = "live" /\ peer[n] = "open" /\ toServer # <<>>
    /\ toServer' = Tail(toServer)
    /\ toClient' = Append(toClient, Head(toServer))
    /\ UNCHANGED <<connVars, dispatcher, attached, reqVars>>

PeerEnds(S) ==
    /\ peer' = [n \in Sockets |-> IF n \in S /\ peer[n] = "open" THEN "ended" ELSE peer[n]]
    /\ UNCHANGED <<state, socket, opened, phase, life, hello, attempt, closeOf,
                   dispatcher, attached, reqVars, wire>>

PeerCloses(S) ==
    /\ peer' = [n \in Sockets |-> IF n \in S THEN "closed" ELSE peer[n]]
    /\ UNCHANGED <<state, socket, opened, phase, life, hello, attempt, closeOf,
                   dispatcher, attached, reqVars, wire>>

-----------------------------------------------------------------------------
ClientStep ==
    \/ Connect \/ Close \/ Request \/ HandleData \/ ConnectionFails \/ IdleTimeout
    \/ \E i \in Ids : RejectRequest(i)
    \/ \E n \in Sockets :
          \/ ConnectFails(n) \/ OnConnect(n) \/ HandshakeSucceeds(n)
          \/ FinishSuccess(n) \/ SocketClosed(n)

PeerStep ==
    \/ \E n \in Sockets : PeerAccepts(n) \/ PeerGreets(n) \/ PeerAnswers(n)
    \/ \E S \in SUBSET {n \in Sockets : peer[n] # "none"} : PeerEnds(S) \/ PeerCloses(S)

(* The client beside any server. *)
ClientSpec == ClientInit /\ [][ClientStep \/ PeerStep]_clientVars

(* Timers fire, microtasks run, and a destroyed socket emits "close".      *)
ClientFairness ==
    /\ \A i \in Ids : WF_clientVars(RejectRequest(i))
    /\ \A n \in Sockets :
          /\ WF_clientVars(ConnectFails(n))
          /\ WF_clientVars(FinishSuccess(n))
          /\ WF_clientVars(life[n] = "destroyed" /\ SocketClosed(n))

-----------------------------------------------------------------------------
(* Every variable keeps its type. *)
ClientTypeOK ==
    /\ state \in {"new", "connecting", "connected", "closing", "closed"}
    /\ opened \in 0 .. MaxSockets /\ socket \in 0 .. opened
    /\ closeOf \in 0 .. opened
    /\ phase \in [Sockets -> {"none", "connecting", "handshaking", "handshaken", "live"}]
    /\ life \in [Sockets -> {"unused", "open", "destroyed", "closed"}]
    /\ peer \in [Sockets -> {"none", "open", "ended", "closed"}]
    /\ hello \in [Sockets -> {"none", "sent", "accepted", "refused"}]
    /\ attempt \in [Sockets -> {"none", "pending", "resolved", "rejected"}]
    /\ dispatcher \in {"none", "open", "closed"}
    /\ attached \in {"yes", "no"}
    /\ ticks \in Nat /\ calls \in 0 .. MaxCalls
    /\ tick \in [Calls -> Nat]
    /\ pending \in [Ids -> 0 .. MaxCalls]
    /\ outcome \in [Calls -> {"unmade", "pending", "answered", "failed"}]
    /\ answer \in [Calls -> 0 .. MaxCalls]
    /\ toServer \in Seq([id : Ids, call : Calls])
    /\ toClient \in Seq([id : Ids, call : Calls])

(* A call is given its own answer.  The one exception: its request timed   *)
(* out, and the ids have gone all the way round when the answer arrives    *)
(* (request-dispatcher.ts:83-93, 188-196; request-id.ts:15-16).            *)
AnswersFindTheirCall ==
    \A c \in Calls :
        outcome[c] = "answered" =>
            answer[c] = c \/ tick[c] >= tick[answer[c]] + MaxRequestId

(* Every promise that is not settled has something left that settles it:   *)
(* a call is in the map that the timers, the answers and rejectAll work    *)
(* on, once, and none is left behind a closed dispatcher.                  *)
NoCallForgotten ==
    \A c \in Calls :
        outcome[c] = "pending" =>
            /\ dispatcher = "open"
            /\ \E i \in Ids : pending[i] = c /\ \A j \in Ids : pending[j] = c => i = j

(* A socket that is neither destroyed nor closed is the one the client     *)
(* holds: whatever races close(), connect() and the timers run, no         *)
(* connection is left open that nothing refers to (client.ts:374-386,      *)
(* 418-422).                                                               *)
NoSocketLeaks ==
    \A n \in Sockets : life[n] = "open" => socket = n

(* A closed client has no socket and no dispatcher, and a closed client    *)
(* never connects again (client.ts:123 "A closed client cannot be          *)
(* reused").                                                               *)
ClosedForGood ==
    [][/\ state = "closed" => state' = "closed" /\ attached' = "no" /\ socket' = None
       /\ state = "closing" => state' \in {"closing", "closed"}]_clientVars

(* connect(), close() and every request settle (client.ts:517, 382;        *)
(* request-dispatcher.ts:83).                                              *)
PromisesSettle ==
    /\ \A c \in Calls : outcome[c] = "pending" ~> outcome[c] # "pending"
    /\ \A n \in Sockets : attempt[n] = "pending" ~> attempt[n] # "pending"
    /\ state = "closing" ~> state = "closed"
=============================================================================
