------------------------- MODULE ClientServerProofs -------------------------
(***************************************************************************)
(* Proofs about DriverClient, beside any server, and ClientServer: every   *)
(* number of sockets, calls, request ids and starts.                       *)
(***************************************************************************)
EXTENDS ClientServer, TLAPS

-----------------------------------------------------------------------------
(* The arithmetic of request ids.                                          *)

(* Two ticks that give the same id are a whole round of ids apart.         *)
LEMMA IdsRecur ==
    ASSUME NEW a \in Nat, NEW b \in Nat, a < b, IdAt(a) = IdAt(b)
    PROVE  b >= a + MaxRequestId
<1> DEFINE M == MaxRequestId  p == a \div M  q == b \div M
<1>0. M \in Nat /\ M > 0
  BY ClientConstants
<1>1. a = M * p + (a % M) /\ b = M * q + (b % M) /\ p \in Int /\ q \in Int
  BY <1>0, Z3
<1>2. a % M = b % M /\ a % M \in Int
  BY <1>0 DEF IdAt
<1> HIDE DEF M, p, q
<1>3. b - a = M * (q - p)
  BY <1>0, <1>1, <1>2, Z3
<1>4. q - p >= 1
  <2>1. ASSUME q - p <= 0 PROVE FALSE
    <3>1. M * (q - p) <= 0
      BY <2>1, <1>0, <1>1, Z3
    <3> QED BY <3>1, <1>3
  <2> QED BY <2>1, <1>1
<1>5. M * (q - p) >= M
  BY <1>0, <1>1, <1>4, Z3
<1> QED BY <1>0, <1>1, <1>3, <1>5 DEF M

LEMMA IdAtType ==
    ASSUME NEW t \in Nat PROVE IdAt(t) \in Ids
BY ClientConstants DEF IdAt, Ids

-----------------------------------------------------------------------------
(* The requests: what each step does to the dispatcher and the wire.       *)

Messages == [id : Ids, call : Calls]

RequestType ==
    /\ dispatcher \in {"none", "open", "closed"}
    /\ ticks \in Nat /\ calls \in 0 .. MaxCalls
    /\ tick \in [Calls -> Nat]
    /\ pending \in [Ids -> 0 .. MaxCalls]
    /\ outcome \in [Calls -> {"unmade", "pending", "answered", "failed"}]
    /\ answer \in [Calls -> 0 .. MaxCalls]
    /\ toServer \in Seq(Messages)
    /\ toClient \in Seq(Messages)

(* A call that was sent, under its id, not later than any call waiting for *)
(* an answer with that id.                                                 *)
Sent(m) ==
    /\ m.call <= calls /\ tick[m.call] # 0 /\ IdAt(tick[m.call]) = m.id
    /\ pending[m.id] # None => tick[m.call] <= tick[pending[m.id]]

(* Ticks go up with the calls, but for those that took none. *)
TicksGrow ==
    /\ \A c \in Calls : tick[c] <= ticks /\ (c > calls => outcome[c] = "unmade" /\ tick[c] = 0)
    /\ \A c, d \in Calls : c < d /\ tick[c] # 0 /\ tick[d] # 0 => tick[c] < tick[d]

(* The map and the promises agree. *)
MapExact ==
    /\ \A i \in Ids : pending[i] # None =>
          /\ dispatcher = "open" /\ pending[i] \in Calls
          /\ outcome[pending[i]] = "pending" /\ tick[pending[i]] # 0
          /\ IdAt(tick[pending[i]]) = i
    /\ \A c \in Calls : outcome[c] = "pending" => pending[IdAt(tick[c])] = c

WireGood ==
    /\ \A k \in 1 .. Len(toServer) : Sent(toServer[k])
    /\ \A k \in 1 .. Len(toClient) : Sent(toClient[k])

AnswersGood ==
    \A c \in Calls : outcome[c] = "answered" =>
        /\ c <= calls /\ answer[c] \in Calls /\ answer[c] <= calls
        /\ answer[c] = c \/ tick[c] >= tick[answer[c]] + MaxRequestId

RequestInv == RequestType /\ TicksGrow /\ MapExact /\ WireGood /\ AnswersGood

LEMMA RequestInvInit == ClientInit => RequestInv
<1> SUFFICES ASSUME ClientInit PROVE RequestInv
  OBVIOUS
<1>1. RequestType
  BY ClientConstants DEF ClientInit, RequestType, None, Calls, Ids
<1>2. TicksGrow /\ AnswersGood
  BY ClientConstants DEF ClientInit, TicksGrow, AnswersGood, Calls
<1>3. MapExact
  BY ClientConstants DEF ClientInit, MapExact, Calls, Ids, None
<1>4. WireGood
  BY DEF ClientInit, WireGood
<1> QED BY <1>1, <1>2, <1>3, <1>4 DEF RequestInv

(* If every message sent stays one, the wire stays as it should be.        *)
LEMMA WireKept ==
    ASSUME RequestType, WireGood, \A m \in Messages : Sent(m) => Sent(m)',
           UNCHANGED <<toServer, toClient>>
    PROVE  WireGood'
<1>1. \A k \in 1 .. Len(toServer) : toServer[k] \in Messages
  BY DEF RequestType
<1>2. \A k \in 1 .. Len(toClient) : toClient[k] \in Messages
  BY DEF RequestType
<1>3. \A k \in 1 .. Len(toServer) : Sent(toServer[k])'
  BY <1>1 DEF WireGood
<1>4. \A k \in 1 .. Len(toClient) : Sent(toClient[k])'
  BY <1>2 DEF WireGood
<1> QED BY <1>3, <1>4 DEF WireGood

(* A request that is refused, or that has no id. *)
LEMMA RefusedKeeps ==
    ASSUME RequestInv, calls < MaxCalls, calls' = calls + 1,
           outcome' = [outcome EXCEPT ![calls + 1] = "failed"],
           ticks' \in Nat, ticks' >= ticks,
           UNCHANGED <<dispatcher, tick, pending, answer, toServer, toClient>>
    PROVE  RequestInv'
<1> USE DEF RequestInv, RequestType, Calls
<1>1. RequestType'
  <2>1. calls \in Nat /\ MaxCalls \in Nat
    BY ClientConstants
  <2>2. calls' \in 0 .. MaxCalls
    BY <2>1
  <2>3. outcome' \in [Calls -> {"unmade", "pending", "answered", "failed"}]
    OBVIOUS
  <2> QED BY <2>2, <2>3
<1>2. TicksGrow'
  BY ClientConstants DEF TicksGrow
<1>3. MapExact'
  BY ClientConstants DEF MapExact, TicksGrow
<1>4. WireGood'
  <2>1. \A m \in Messages : Sent(m) => Sent(m)'
    BY DEF Sent, Messages
  <2> QED BY <2>1, WireKept
<1>5. AnswersGood'
  <2> SUFFICES ASSUME NEW c \in Calls, outcome'[c] = "answered"
               PROVE  /\ c <= calls /\ answer[c] \in Calls /\ answer[c] <= calls
                      /\ answer[c] = c \/ tick[c] >= tick[answer[c]] + MaxRequestId
    BY DEF AnswersGood
  <2>1. outcome[c] = "answered"
    OBVIOUS
  <2> QED BY <2>1 DEF AnswersGood
<1> QED BY <1>1, <1>2, <1>3, <1>4, <1>5

(* A request that takes an id and is not sent: it could not be encoded.    *)
LEMMA UnsentKeeps ==
    ASSUME RequestInv, calls < MaxCalls, calls' = calls + 1,
           NEW t \in Nat, t > ticks, ticks' = t,
           tick' = [tick EXCEPT ![calls + 1] = t],
           outcome' = [outcome EXCEPT ![calls + 1] = "failed"],
           UNCHANGED <<dispatcher, pending, answer, toServer, toClient>>
    PROVE  RequestInv'
<1> USE DEF RequestInv, RequestType, Calls
<1>1. RequestType'
  BY ClientConstants
<1>2. TicksGrow'
  <2>1. \A c \in Calls : tick'[c] <= t /\ (c > calls + 1 => outcome'[c] = "unmade" /\ tick'[c] = 0)
    BY ClientConstants DEF TicksGrow
  <2>2. ASSUME NEW c \in Calls, NEW d \in Calls, c < d, tick'[c] # 0, tick'[d] # 0
        PROVE  tick'[c] < tick'[d]
    BY <2>2, ClientConstants DEF TicksGrow
  <2> QED BY <2>1, <2>2 DEF TicksGrow
<1>3. MapExact'
  <2>1. \A c \in Calls : outcome'[c] = "pending" \/ outcome[c] = "pending"
                         => outcome'[c] = outcome[c] /\ tick'[c] = tick[c]
    BY ClientConstants DEF TicksGrow
  <2> QED BY <2>1, ClientConstants DEF MapExact
<1>4. WireGood'
  <2>1. \A i \in Ids : pending[i] # None => pending[i] \in Calls /\ pending[i] # calls + 1
    BY ClientConstants DEF MapExact, TicksGrow
  <2>2. ASSUME NEW m \in Messages, Sent(m) PROVE Sent(m)'
    <3>1. m.call \in Calls /\ m.call <= calls /\ m.id \in Ids
      BY <2>2 DEF Sent, Messages
    <3>2. tick'[m.call] = tick[m.call]
      BY <3>1
    <3>3. pending[m.id] # None => tick'[pending[m.id]] = tick[pending[m.id]]
      BY <2>1, <3>1
    <3> QED BY <2>2, <3>1, <3>2, <3>3 DEF Sent
  <2> QED BY <2>2, WireKept
<1>5. AnswersGood'
  <2> SUFFICES ASSUME NEW c \in Calls, outcome'[c] = "answered"
               PROVE  /\ c <= calls + 1 /\ answer[c] \in Calls /\ answer[c] <= calls + 1
                      /\ answer[c] = c \/ tick'[c] >= tick'[answer[c]] + MaxRequestId
    BY DEF AnswersGood
  <2>1. outcome[c] = "answered" /\ c # calls + 1
    BY ClientConstants
  <2>2. c <= calls /\ answer[c] <= calls /\ answer[c] \in Calls
    BY <2>1 DEF AnswersGood
  <2>3. tick'[c] = tick[c] /\ tick'[answer[c]] = tick[answer[c]]
    BY <2>2
  <2> QED BY <2>1, <2>2, <2>3 DEF AnswersGood
<1> QED BY <1>1, <1>2, <1>3, <1>4, <1>5

(* A request that is sent. *)
LEMMA SentKeeps ==
    ASSUME RequestInv, calls < MaxCalls, calls' = calls + 1, dispatcher = "open",
           NEW t \in Nat, t > ticks, ticks' = t, pending[IdAt(t)] = None,
           tick' = [tick EXCEPT ![calls + 1] = t],
           outcome' = [outcome EXCEPT ![calls + 1] = "pending"],
           pending' = [pending EXCEPT ![IdAt(t)] = calls + 1],
           toServer' = Append(toServer, [id |-> IdAt(t), call |-> calls + 1]),
           UNCHANGED <<dispatcher, answer, toClient>>
    PROVE  RequestInv'
<1> USE DEF RequestInv, RequestType, Calls
<1> DEFINE new == [id |-> IdAt(t), call |-> calls + 1]
<1>0. IdAt(t) \in Ids /\ calls + 1 \in Calls /\ new \in Messages
  BY IdAtType, ClientConstants DEF Messages
<1>1. RequestType'
  <2>1. calls \in Nat /\ MaxCalls \in Nat
    BY ClientConstants
  <2>2. calls' \in 0 .. MaxCalls /\ calls + 1 \in 0 .. MaxCalls
    BY <2>1
  <2>3. outcome' \in [Calls -> {"unmade", "pending", "answered", "failed"}]
    OBVIOUS
  <2>4. tick' \in [Calls -> Nat]
    OBVIOUS
  <2>5. pending' \in [Ids -> 0 .. MaxCalls]
    BY <2>2
  <2>6. toServer' \in Seq(Messages)
    BY <1>0
  <2> QED BY <2>2, <2>3, <2>4, <2>5, <2>6
<1>2. TicksGrow'
  <2>1. \A c \in Calls : tick'[c] <= t /\ (c > calls + 1 => outcome'[c] = "unmade" /\ tick'[c] = 0)
    BY ClientConstants DEF TicksGrow
  <2>2. ASSUME NEW c \in Calls, NEW d \in Calls, c < d, tick'[c] # 0, tick'[d] # 0
        PROVE  tick'[c] < tick'[d]
    BY <2>2, ClientConstants DEF TicksGrow
  <2> QED BY <2>1, <2>2 DEF TicksGrow
<1>3. MapExact'
  <2>1. ASSUME NEW i \in Ids, pending'[i] # None
        PROVE  /\ dispatcher' = "open" /\ pending'[i] \in Calls
               /\ outcome'[pending'[i]] = "pending" /\ tick'[pending'[i]] # 0
               /\ IdAt(tick'[pending'[i]]) = i
    <3>1. CASE i = IdAt(t)
      <4>1. pending'[i] = calls + 1 /\ tick'[calls + 1] = t
        BY <3>1, <1>0
      <4> QED BY <4>1, <3>1, <1>0
    <3>2. CASE i # IdAt(t)
      <4>1. pending'[i] = pending[i] /\ pending[i] \in Calls /\ pending[i] # calls + 1
        BY <3>2, <2>1, <1>0 DEF MapExact, TicksGrow
      <4>2. tick'[pending[i]] = tick[pending[i]] /\ outcome'[pending[i]] = outcome[pending[i]]
        BY <4>1
      <4> QED BY <4>1, <4>2, <2>1 DEF MapExact
    <3> QED BY <3>1, <3>2
  <2>2. ASSUME NEW c \in Calls, outcome'[c] = "pending"
        PROVE  pending'[IdAt(tick'[c])] = c
    <3>1. CASE c = calls + 1
      BY <3>1, <1>0
    <3>2. CASE c # calls + 1
      <4>1. outcome[c] = "pending" /\ tick'[c] = tick[c] /\ pending[IdAt(tick[c])] = c
        BY <3>2, <2>2 DEF MapExact
      <4>2. tick[c] \in Nat /\ c # None
        <5>1. tick \in [Calls -> Nat]
          OBVIOUS
        <5>2. c \in 1 .. MaxCalls
          OBVIOUS
        <5> HIDE DEF RequestInv, RequestType, Calls
        <5> QED BY <5>1, <5>2 DEF None
      <4>3. IdAt(tick[c]) \in Ids
        BY <4>2, IdAtType
      <4>4. IdAt(tick[c]) # IdAt(t)
        BY <4>1, <4>2
      <4> QED BY <4>1, <4>3, <4>4, <1>0
    <3> QED BY <3>1, <3>2
  <2> QED BY <2>1, <2>2 DEF MapExact
<1>4. WireGood'
  <2>1. ASSUME NEW m \in Messages, Sent(m) PROVE Sent(m)'
    <3>1. m.call \in Calls /\ m.call <= calls /\ m.id \in Ids
      BY <2>1 DEF Sent, Messages
    <3>2. tick'[m.call] = tick[m.call] /\ tick[m.call] <= ticks
      BY <3>1 DEF TicksGrow
    <3>3. CASE m.id = IdAt(t)
      <4>1. pending'[m.id] = calls + 1 /\ tick'[calls + 1] = t
        BY <3>3, <1>0
      <4> QED BY <2>1, <3>1, <3>2, <4>1 DEF Sent
    <3>4. CASE m.id # IdAt(t)
      <4>1. pending'[m.id] = pending[m.id]
        BY <3>4, <3>1
      <4>2. pending[m.id] # None => pending[m.id] \in Calls /\ pending[m.id] # calls + 1
        BY <3>1, <1>0 DEF MapExact, TicksGrow
      <4>3. pending[m.id] # None => tick'[pending[m.id]] = tick[pending[m.id]]
        BY <4>2
      <4> QED BY <2>1, <3>1, <3>2, <4>1, <4>3 DEF Sent
    <3> QED BY <3>3, <3>4
  <2>2. ASSUME NEW m \in Messages, m = new PROVE Sent(m)'
    <3>1. tick'[calls + 1] = t /\ pending'[IdAt(t)] = calls + 1
      BY <1>0
    <3>2. m.id = IdAt(t) /\ m.call = calls + 1
      BY <2>2
    <3> QED BY <3>1, <3>2, <1>0 DEF Sent
  <2>3. ASSUME NEW k \in 1 .. Len(toServer') PROVE Sent(toServer[k])'
    <3>1. CASE k \in 1 .. Len(toServer)
      <4>1. toServer'[k] = toServer[k] /\ toServer[k] \in Messages
        BY <3>1, <1>0
      <4> QED BY <4>1, <2>1, <3>1 DEF WireGood
    <3>2. CASE k = Len(toServer) + 1
      <4>1. toServer'[k] = new
        BY <3>2, <1>0
      <4> QED BY <4>1, <2>2, <1>0
    <3> QED BY <3>1, <3>2, <1>0
  <2>4. ASSUME NEW k \in 1 .. Len(toClient) PROVE Sent(toClient[k])'
    <3>1. toClient[k] \in Messages /\ Sent(toClient[k])
      BY DEF WireGood
    <3> QED BY <3>1, <2>1
  <2> QED BY <2>3, <2>4 DEF WireGood
<1>5. AnswersGood'
  <2> SUFFICES ASSUME NEW c \in Calls, outcome'[c] = "answered"
               PROVE  /\ c <= calls + 1 /\ answer[c] \in Calls /\ answer[c] <= calls + 1
                      /\ answer[c] = c \/ tick'[c] >= tick'[answer[c]] + MaxRequestId
    BY DEF AnswersGood
  <2>1. outcome[c] = "answered" /\ c # calls + 1
    BY ClientConstants
  <2>2. c <= calls /\ answer[c] <= calls /\ answer[c] \in Calls
    BY <2>1 DEF AnswersGood
  <2>3. tick'[c] = tick[c] /\ tick'[answer[c]] = tick[answer[c]]
    BY <2>2
  <2> QED BY <2>1, <2>2, <2>3 DEF AnswersGood
<1> QED BY <1>1, <1>2, <1>3, <1>4, <1>5

(* Steps that only take calls out of the map, and settle those.            *)
LEMMA SettleKeeps ==
    ASSUME RequestInv, RequestType',
           UNCHANGED <<ticks, calls, tick, toServer>>,
           \A k \in 1 .. Len(toClient') : \E j \in 1 .. Len(toClient) : toClient'[k] = toClient[j],
           \A i \in Ids : pending'[i] \in {None, pending[i]},
           \A i \in Ids : pending'[i] # None => dispatcher' = "open",
           \A c \in Calls : \/ outcome'[c] = outcome[c]
                            \/ outcome[c] = "pending" /\ outcome'[c] \in {"answered", "failed"},
           \A c \in Calls : outcome'[c] = "pending" <=> \E i \in Ids : pending'[i] = c,
           AnswersGood'
    PROVE  RequestInv'
<1> USE DEF RequestInv
<1>1. TicksGrow'
  <2>1. \A c \in Calls : c > calls => outcome'[c] = "unmade"
    BY DEF TicksGrow
  <2> QED BY <2>1 DEF TicksGrow
<1>2. MapExact'
  <2>1. ASSUME NEW i \in Ids, pending'[i] # None
        PROVE  /\ dispatcher' = "open" /\ pending'[i] \in Calls
               /\ outcome'[pending'[i]] = "pending" /\ tick'[pending'[i]] # 0
               /\ IdAt(tick'[pending'[i]]) = i
    <3>1. pending'[i] = pending[i]
      BY <2>1
    <3>2. pending[i] \in Calls
      BY <2>1, <3>1 DEF MapExact
    <3> QED BY <2>1, <3>1, <3>2 DEF MapExact
  <2>2. ASSUME NEW c \in Calls, outcome'[c] = "pending"
        PROVE  pending'[IdAt(tick'[c])] = c
    <3>1. PICK i \in Ids : pending'[i] = c
      BY <2>2
    <3>2. c # None
      BY ClientConstants DEF None, Calls
    <3>3. IdAt(tick'[c]) = i
      BY <3>1, <3>2, <2>1
    <3> QED BY <3>1, <3>3
  <2> QED BY <2>1, <2>2 DEF MapExact
<1>3. WireGood'
  <2>1. ASSUME NEW m \in Messages, Sent(m) PROVE Sent(m)'
    <3>1. m.id \in Ids /\ pending'[m.id] \in {None, pending[m.id]}
      BY DEF Messages
    <3> QED BY <2>1, <3>1 DEF Sent
  <2>2. \A k \in 1 .. Len(toServer) : toServer[k] \in Messages /\ Sent(toServer[k])
    BY DEF WireGood, RequestType
  <2>3. \A k \in 1 .. Len(toClient) : toClient[k] \in Messages /\ Sent(toClient[k])
    BY DEF WireGood, RequestType
  <2>4. \A k \in 1 .. Len(toServer') : Sent(toServer[k])'
    BY <2>1, <2>2
  <2>5. \A k \in 1 .. Len(toClient') : Sent(toClient[k])'
    BY <2>1, <2>3
  <2> QED BY <2>4, <2>5 DEF WireGood
<1> QED BY <1>1, <1>2, <1>3

(* The map holds a call at most once. *)
LEMMA MapOnce ==
    ASSUME RequestInv, NEW i \in Ids, NEW j \in Ids, pending[i] # None, pending[i] = pending[j]
    PROVE  i = j
BY DEF RequestInv, MapExact

LEMMA RejectRequestKeeps ==
    ASSUME RequestInv, NEW i \in Ids, RejectRequest(i)
    PROVE  RequestInv'
<1> DEFINE d == pending[i]
<1>1. d \in Calls /\ d # None /\ outcome[d] = "pending" /\ dispatcher = "open"
  BY DEF RequestInv, MapExact, RejectRequest
<1>2. /\ pending' = [pending EXCEPT ![i] = None] /\ outcome' = [outcome EXCEPT ![d] = "failed"]
      /\ UNCHANGED <<dispatcher, ticks, calls, tick, answer, toServer, toClient>>
  BY DEF RejectRequest
<1> HIDE DEF d
<1>3. RequestType'
  BY <1>1, <1>2, ClientConstants DEF RequestInv, RequestType, None
<1>4. \A j \in Ids : pending'[j] = IF j = i THEN None ELSE pending[j]
  BY <1>2 DEF RequestInv, RequestType
<1>5. \A c \in Calls : outcome'[c] = IF c = d THEN "failed" ELSE outcome[c]
  BY <1>2 DEF RequestInv, RequestType
<1>6. ASSUME NEW c \in Calls
      PROVE  outcome'[c] = "pending" <=> \E j \in Ids : pending'[j] = c
  <2>1. c # None /\ tick[c] \in Nat
    BY DEF Calls, None, RequestInv, RequestType
  <2>2. IdAt(tick[c]) \in Ids
    BY <2>1, IdAtType
  <2>3. CASE c = d
    <3>1. \A j \in Ids : pending[j] = c => j = i
      BY <2>3, <1>1, MapOnce DEF d
    <3> QED BY <3>1, <2>3, <2>1, <1>4, <1>5
  <2>4. CASE c # d
    <3>1. outcome[c] = "pending" => pending[IdAt(tick[c])] = c
      BY DEF RequestInv, MapExact
    <3>2. \A j \in Ids : pending[j] = c => outcome[c] = "pending"
      BY <2>1 DEF RequestInv, MapExact
    <3> QED BY <3>1, <3>2, <2>1, <2>2, <2>4, <1>4, <1>5 DEF d
  <2> QED BY <2>3, <2>4
<1>7. AnswersGood'
  BY <1>1, <1>2, <1>5 DEF RequestInv, AnswersGood
<1> QED
  <2>1. \A j \in Ids : pending'[j] \in {None, pending[j]} /\ (pending'[j] # None => dispatcher' = "open")
    BY <1>1, <1>2, <1>4
  <2>2. \A c \in Calls : \/ outcome'[c] = outcome[c]
                         \/ outcome[c] = "pending" /\ outcome'[c] \in {"answered", "failed"}
    BY <1>1, <1>5
  <2>3. \A k \in 1 .. Len(toClient') : \E j \in 1 .. Len(toClient) : toClient'[k] = toClient[j]
    BY <1>2
  <2> QED BY <2>1, <2>2, <2>3, <1>2, <1>3, <1>6, <1>7, SettleKeeps

(* An answer is for the call that waits for its id, or a round of ids has  *)
(* gone by.                                                                *)
LEMMA AnswerFits ==
    ASSUME RequestInv, NEW m \in Messages, Sent(m), pending[m.id] # None
    PROVE  \/ m.call = pending[m.id]
           \/ tick[pending[m.id]] >= tick[m.call] + MaxRequestId
<1> DEFINE d == pending[m.id]
<1>1. m.id \in Ids /\ m.call \in Calls
  BY DEF Messages
<1>2. d \in Calls /\ tick[d] # 0 /\ IdAt(tick[d]) = m.id
  BY <1>1 DEF RequestInv, MapExact
<1>3. tick[d] \in Nat /\ tick[m.call] \in Nat
  BY <1>1, <1>2 DEF RequestInv, RequestType
<1>4. tick[m.call] # 0 /\ IdAt(tick[m.call]) = m.id /\ tick[m.call] <= tick[d]
  BY DEF Sent
<1> HIDE DEF d
<1>5. CASE tick[m.call] < tick[d]
  <2>1. tick[d] >= tick[m.call] + MaxRequestId
    BY <1>2, <1>3, <1>4, <1>5, IdsRecur
  <2> QED BY <2>1 DEF d
<1>6. CASE tick[m.call] = tick[d]
  <2>1. ~ (m.call < d) /\ ~ (d < m.call)
    BY <1>1, <1>2, <1>3, <1>4, <1>6 DEF RequestInv, TicksGrow
  <2>2. m.call = d
    BY <2>1, <1>1, <1>2 DEF Calls
  <2> QED BY <2>2 DEF d
<1> QED BY <1>3, <1>4, <1>5, <1>6

LEMMA HandleDataKeeps ==
    ASSUME RequestInv, HandleData
    PROVE  RequestInv'
<1> DEFINE m == Head(toClient)  d == pending[m.id]
<1>0. toClient # <<>> /\ toClient \in Seq(Messages)
  BY DEF HandleData, RequestInv, RequestType
<1>1. m \in Messages /\ m.id \in Ids /\ m.call \in Calls /\ m = toClient[1] /\ Len(toClient) >= 1
  <2>1. m = toClient[1] /\ Len(toClient) >= 1 /\ Len(toClient) \in Nat /\ m \in Messages
    BY <1>0
  <2> QED BY <2>1 DEF Messages
<1>2. /\ dispatcher = "open" /\ toClient' = Tail(toClient) /\ HandleMessage(m)
      /\ UNCHANGED <<dispatcher, ticks, calls, tick, toServer>>
  BY DEF HandleData
<1>3. Sent(m)
  BY <1>1 DEF RequestInv, WireGood
<1>4. /\ toClient' \in Seq(Messages)
      /\ \A k \in 1 .. Len(toClient') : \E j \in 1 .. Len(toClient) : toClient'[k] = toClient[j]
  <2>1. /\ Tail(toClient) \in Seq(Messages) /\ Len(Tail(toClient)) = Len(toClient) - 1
        /\ Len(toClient) \in Nat
        /\ \A k \in 1 .. Len(Tail(toClient)) : Tail(toClient)[k] = toClient[k + 1]
    BY <1>0
  <2>2. \A k \in 1 .. Len(Tail(toClient)) : k + 1 \in 1 .. Len(toClient)
    BY <2>1
  <2> QED BY <2>1, <2>2, <1>2
<1>5. d # None => d \in Calls /\ outcome[d] = "pending"
  BY <1>1 DEF RequestInv, MapExact
<1>6. \/ d = None /\ UNCHANGED <<pending, outcome, answer>>
      \/ /\ d # None
         /\ pending' = [pending EXCEPT ![m.id] = None]
         /\ outcome' = [outcome EXCEPT ![d] = "answered"]
         /\ answer' = [answer EXCEPT ![d] = m.call]
  BY <1>2 DEF HandleMessage
<1>7. d # None => m.call = d \/ tick[d] >= tick[m.call] + MaxRequestId
  BY <1>1, <1>3, AnswerFits
<1>8. m.call <= calls
  BY <1>3 DEF Sent
<1>9. \A j \in Ids : pending[j] = d /\ d # None => j = m.id
  BY <1>1, MapOnce
<1>10. d # None => d <= calls
  BY <1>5, ClientConstants DEF RequestInv, TicksGrow, RequestType, Calls
<1>11. \A c \in Calls : /\ c # None /\ tick[c] \in Nat
                        /\ outcome[c] = "pending" <=> \E j \in Ids : pending[j] = c
  <2> TAKE c \in Calls
  <2>1. c # None /\ tick[c] \in Nat
    BY DEF Calls, None, RequestInv, RequestType
  <2>2. IdAt(tick[c]) \in Ids
    BY <2>1, IdAtType
  <2> QED BY <2>1, <2>2 DEF RequestInv, MapExact
<1> HIDE DEF m, d
<1>12. CASE d = None
  <2>1. UNCHANGED <<pending, outcome, answer>>
    BY <1>6, <1>12
  <2>2. RequestType'
    BY <2>1, <1>2, <1>4 DEF RequestInv, RequestType
  <2>3. AnswersGood'
    BY <2>1, <1>2 DEF RequestInv, AnswersGood
  <2>4. \A j \in Ids : pending'[j] \in {None, pending[j]} /\ (pending'[j] # None => dispatcher' = "open")
    BY <2>1, <1>2
  <2>5. \A c \in Calls : outcome'[c] = outcome[c] /\ (outcome'[c] = "pending" <=> \E j \in Ids : pending'[j] = c)
    BY <2>1, <1>11
  <2> QED BY <2>2, <2>3, <2>4, <2>5, <1>2, <1>4, SettleKeeps
<1>13. CASE d # None
  <2>1. \A j \in Ids : pending'[j] = IF j = m.id THEN None ELSE pending[j]
    BY <1>6, <1>13 DEF RequestInv, RequestType
  <2>2. \A c \in Calls : /\ outcome'[c] = IF c = d THEN "answered" ELSE outcome[c]
                         /\ answer'[c] = IF c = d THEN m.call ELSE answer[c]
    BY <1>6, <1>13 DEF RequestInv, RequestType
  <2>3. RequestType'
    <3>1. pending' \in [Ids -> 0 .. MaxCalls]
      BY <1>6, <1>13, ClientConstants DEF RequestInv, RequestType, None
    <3>2. outcome' \in [Calls -> {"unmade", "pending", "answered", "failed"}]
      BY <1>6, <1>13, Zenon DEF RequestInv, RequestType
    <3>3. m.call \in 0 .. MaxCalls
      BY <1>1, ClientConstants DEF Calls
    <3>4. answer' \in [Calls -> 0 .. MaxCalls]
      BY <1>6, <1>13, <3>3 DEF RequestInv, RequestType
    <3> QED BY <3>1, <3>2, <3>4, <1>2, <1>4 DEF RequestInv, RequestType
  <2>4. AnswersGood'
    <3> SUFFICES ASSUME NEW c \in Calls, outcome'[c] = "answered"
                 PROVE  /\ c <= calls /\ answer'[c] \in Calls /\ answer'[c] <= calls
                        /\ answer'[c] = c \/ tick[c] >= tick[answer'[c]] + MaxRequestId
      BY <1>2 DEF AnswersGood
    <3>1. CASE c = d
      BY <3>1, <2>2, <1>1, <1>7, <1>8, <1>10, <1>13
    <3>2. CASE c # d
      BY <3>2, <2>2 DEF RequestInv, AnswersGood
    <3> QED BY <3>1, <3>2
  <2>5. \A j \in Ids : pending'[j] \in {None, pending[j]} /\ (pending'[j] # None => dispatcher' = "open")
    BY <2>1, <1>2
  <2>6. \A c \in Calls : \/ outcome'[c] = outcome[c]
                         \/ outcome[c] = "pending" /\ outcome'[c] \in {"answered", "failed"}
    BY <2>2, <1>5, <1>13
  <2>7. \A c \in Calls : outcome'[c] = "pending" <=> \E j \in Ids : pending'[j] = c
    <3> TAKE c \in Calls
    <3>1. CASE c = d
      BY <3>1, <2>1, <2>2, <1>9, <1>13
    <3>2. CASE c # d
      <4>1. c # None /\ pending[m.id] = d
        BY <1>11 DEF d
      <4> QED BY <4>1, <3>2, <2>1, <2>2, <1>11
    <3> QED BY <3>1, <3>2
  <2> QED BY <2>3, <2>4, <2>5, <2>6, <2>7, <1>2, <1>4, SettleKeeps
<1> QED BY <1>12, <1>13

(* The dispatcher opens, or nothing changes.                               *)
LEMMA OpensKeeps ==
    ASSUME RequestInv, dispatcher' \in {dispatcher, "open"}, UNCHANGED <<reqVars, wire>>
    PROVE  RequestInv'
<1>1. UNCHANGED <<ticks, calls, tick, pending, outcome, answer, toServer, toClient>>
  BY DEF reqVars, wire
<1>2. RequestType'
  BY <1>1 DEF RequestInv, RequestType
<1>3. TicksGrow' /\ AnswersGood'
  BY <1>1 DEF RequestInv, TicksGrow, AnswersGood
<1>4. MapExact'
  BY <1>1 DEF RequestInv, MapExact
<1>5. WireGood'
  BY <1>1, Zenon DEF RequestInv, WireGood, Sent
<1> QED BY <1>2, <1>3, <1>4, <1>5 DEF RequestInv

LEMMA CloseDispatcherKeeps ==
    ASSUME RequestInv, CloseDispatcher,
           UNCHANGED <<ticks, calls, tick, answer, toServer, toClient>>
    PROVE  RequestInv'
<1>1. CASE dispatcher # "open"
  <2>1. UNCHANGED <<dispatcher, pending, outcome>>
    BY <1>1 DEF CloseDispatcher
  <2> QED BY <2>1, OpensKeeps DEF reqVars, wire
<1>2. CASE dispatcher = "open"
  <2>1. /\ dispatcher' = "closed" /\ pending' = [j \in Ids |-> None]
        /\ outcome' = [c \in Calls |-> IF \E j \in Ids : pending[j] = c THEN "failed" ELSE outcome[c]]
    BY <1>2 DEF CloseDispatcher, RejectAll
  <2>2. RequestType'
    BY <2>1, ClientConstants DEF RequestInv, RequestType, None
  <2>3. ASSUME NEW c \in Calls
        PROVE  /\ c # None /\ outcome'[c] # "pending"
               /\ outcome'[c] # outcome[c] => outcome[c] = "pending" /\ outcome'[c] = "failed"
    <3>1. c # None /\ tick[c] \in Nat
      BY DEF Calls, None, RequestInv, RequestType
    <3>2. IdAt(tick[c]) \in Ids
      BY <3>1, IdAtType
    <3>3. outcome[c] = "pending" <=> \E j \in Ids : pending[j] = c
      BY <3>1, <3>2 DEF RequestInv, MapExact
    <3> QED BY <3>1, <3>3, <2>1
  <2>4. AnswersGood'
    BY <2>3 DEF RequestInv, AnswersGood
  <2>5. \A j \in Ids : pending'[j] = None
    BY <2>1
  <2>6. \A c \in Calls : outcome'[c] = "pending" <=> \E j \in Ids : pending'[j] = c
    BY <2>3, <2>5
  <2>7. \A k \in 1 .. Len(toClient') : \E j \in 1 .. Len(toClient) : toClient'[k] = toClient[j]
    OBVIOUS
  <2> QED BY <2>2, <2>3, <2>4, <2>5, <2>6, <2>7, SettleKeeps
<1> QED BY <1>1, <1>2

LEMMA PeerAnswersKeeps ==
    ASSUME RequestInv, NEW n \in Sockets, PeerAnswers(n)
    PROVE  RequestInv'
<1> DEFINE m == Head(toServer)
<1>0. toServer # <<>> /\ toServer \in Seq(Messages) /\ toClient \in Seq(Messages)
  BY DEF PeerAnswers, RequestInv, RequestType
<1>1. /\ toServer' = Tail(toServer) /\ toClient' = Append(toClient, m)
      /\ UNCHANGED <<dispatcher, ticks, calls, tick, pending, outcome, answer>>
  BY DEF PeerAnswers, reqVars
<1>2. m = toServer[1] /\ Len(toServer) >= 1 /\ Len(toServer) \in Nat /\ m \in Messages
  BY <1>0
<1>3. /\ Tail(toServer) \in Seq(Messages) /\ Len(Tail(toServer)) = Len(toServer) - 1
      /\ \A k \in 1 .. Len(Tail(toServer)) : Tail(toServer)[k] = toServer[k + 1]
  BY <1>0
<1>4. /\ Append(toClient, m) \in Seq(Messages) /\ Len(Append(toClient, m)) = Len(toClient) + 1
      /\ \A k \in 1 .. Len(toClient) : Append(toClient, m)[k] = toClient[k]
      /\ Append(toClient, m)[Len(toClient) + 1] = m /\ Len(toClient) \in Nat
  BY <1>0, <1>2
<1>5. RequestType'
  BY <1>1, <1>3, <1>4 DEF RequestInv, RequestType
<1>6. TicksGrow' /\ MapExact' /\ AnswersGood'
  BY <1>1 DEF RequestInv, TicksGrow, MapExact, AnswersGood
<1>7. ASSUME NEW x, Sent(x) PROVE Sent(x)'
  BY <1>1, <1>7 DEF Sent
<1>8. ASSUME NEW k \in 1 .. Len(toServer') PROVE Sent(toServer[k])'
  <2>1. toServer'[k] = toServer[k + 1] /\ k + 1 \in 1 .. Len(toServer)
    BY <1>1, <1>2, <1>3
  <2>2. Sent(toServer[k + 1])
    BY <2>1 DEF RequestInv, WireGood
  <2> QED BY <2>1, <2>2, <1>7
<1>9. ASSUME NEW k \in 1 .. Len(toClient') PROVE Sent(toClient[k])'
  <2>1. CASE k \in 1 .. Len(toClient)
    <3>1. toClient'[k] = toClient[k] /\ Sent(toClient[k])
      BY <2>1, <1>1, <1>4 DEF RequestInv, WireGood
    <3> QED BY <3>1, <1>7
  <2>2. CASE k = Len(toClient) + 1
    <3>1. toClient'[k] = toServer[1] /\ Sent(toServer[1])
      BY <2>2, <1>1, <1>2, <1>4 DEF RequestInv, WireGood
    <3> QED BY <3>1, <1>7
  <2> QED BY <2>1, <2>2, <1>1, <1>4
<1> QED BY <1>5, <1>6, <1>8, <1>9 DEF RequestInv, WireGood

LEMMA RequestKeeps ==
    ASSUME RequestInv, Request
    PROVE  RequestInv'
<1>0. calls < MaxCalls /\ calls' = calls + 1 /\ UNCHANGED <<dispatcher, answer, toClient>>
  BY DEF Request
<1>t. ticks \in Nat
  BY DEF RequestInv, RequestType
<1>1. CASE /\ outcome' = [outcome EXCEPT ![calls + 1] = "failed"]
           /\ UNCHANGED <<tick, pending, toServer>>
           /\ ticks' \in {ticks, ticks + MaxRequestId + 1}
  <2>1. ticks' \in Nat /\ ticks' >= ticks
    BY <1>1, <1>t, ClientConstants
  <2> QED BY <2>1, <1>0, <1>1, RefusedKeeps
<1>2. ASSUME dispatcher = "open", NEW t \in (ticks + 1) .. (ticks + MaxRequestId),
             AllocateRequestId(t), ticks' = t, tick' = [tick EXCEPT ![calls + 1] = t],
             \/ /\ outcome' = [outcome EXCEPT ![calls + 1] = "failed"]
                /\ UNCHANGED <<pending, toServer>>
             \/ /\ outcome' = [outcome EXCEPT ![calls + 1] = "pending"]
                /\ pending' = [pending EXCEPT ![IdAt(t)] = calls + 1]
                /\ toServer' = Append(toServer, [id |-> IdAt(t), call |-> calls + 1])
      PROVE  RequestInv'
  <2>1. t \in Nat /\ t > ticks
    BY <1>t, ClientConstants
  <2>2. pending[IdAt(t)] = None
    BY <1>2 DEF AllocateRequestId
  <2>3. CASE outcome' = [outcome EXCEPT ![calls + 1] = "failed"] /\ UNCHANGED <<pending, toServer>>
    BY <2>1, <2>3, <1>0, <1>2, UnsentKeeps, Zenon
  <2>4. CASE /\ outcome' = [outcome EXCEPT ![calls + 1] = "pending"]
             /\ pending' = [pending EXCEPT ![IdAt(t)] = calls + 1]
             /\ toServer' = Append(toServer, [id |-> IdAt(t), call |-> calls + 1])
    BY <2>1, <2>2, <2>4, <1>0, <1>2, SentKeeps, Zenon
  <2> QED BY <2>3, <2>4, <1>2, Zenon
<1> QED BY <1>1, <1>2 DEF Request

(* Every step of the client and of the other end keeps the requests right. *)
LEMMA RequestInvNext ==
    ASSUME RequestInv, [ClientStep \/ PeerStep]_clientVars
    PROVE  RequestInv'
<1>1. CASE Request
  BY <1>1, RequestKeeps
<1>2. CASE HandleData
  BY <1>2, HandleDataKeeps
<1>3. CASE \E i \in Ids : RejectRequest(i)
  BY <1>3, RejectRequestKeeps
<1>4. CASE ConnectionFails
  BY <1>4, CloseDispatcherKeeps DEF ConnectionFails
<1>5. CASE IdleTimeout
  BY <1>5, CloseDispatcherKeeps DEF IdleTimeout
<1>6. ASSUME NEW n \in Sockets, SocketClosed(n) PROVE RequestInv'
  <2>1. UNCHANGED <<ticks, calls, tick, answer, toServer, toClient>>
    BY <1>6 DEF SocketClosed
  <2>2. CloseDispatcher \/ UNCHANGED <<dispatcher, pending, outcome>>
    BY <1>6 DEF SocketClosed
  <2>3. CASE UNCHANGED <<dispatcher, pending, outcome>>
    BY <2>1, <2>3, OpensKeeps DEF reqVars, wire
  <2> QED BY <2>1, <2>2, <2>3, CloseDispatcherKeeps
<1>7. CASE Close
  <2>1. UNCHANGED <<ticks, calls, tick, answer, toServer, toClient>>
    BY <1>7 DEF Close
  <2>2. CloseDispatcher \/ UNCHANGED <<dispatcher, pending, outcome>>
    BY <1>7 DEF Close
  <2>3. CASE UNCHANGED <<dispatcher, pending, outcome>>
    BY <2>1, <2>3, OpensKeeps DEF reqVars, wire
  <2> QED BY <2>1, <2>2, <2>3, CloseDispatcherKeeps
<1>8. ASSUME NEW n \in Sockets, PeerAnswers(n) PROVE RequestInv'
  BY <1>8, PeerAnswersKeeps
<1>9. CASE Connect
  BY <1>9, OpensKeeps DEF Connect
<1>10. ASSUME NEW n \in Sockets, ConnectFails(n) \/ OnConnect(n) \/ HandshakeSucceeds(n) PROVE RequestInv'
  BY <1>10, OpensKeeps DEF ConnectFails, OnConnect, HandshakeSucceeds
<1>11. ASSUME NEW n \in Sockets, FinishSuccess(n) PROVE RequestInv'
  BY <1>11, OpensKeeps DEF FinishSuccess
<1>12. ASSUME NEW n \in Sockets, PeerAccepts(n) \/ PeerGreets(n) PROVE RequestInv'
  BY <1>12, OpensKeeps DEF PeerAccepts, PeerGreets
<1>13. ASSUME NEW S, PeerEnds(S) \/ PeerCloses(S) PROVE RequestInv'
  BY <1>13, OpensKeeps DEF PeerEnds, PeerCloses
<1>14. CASE UNCHANGED clientVars
  BY <1>14, OpensKeeps DEF clientVars
<1> QED
  BY <1>1, <1>2, <1>3, <1>4, <1>5, <1>6, <1>7, <1>8, <1>9, <1>10, <1>11, <1>12, <1>13, <1>14, Zenon
     DEF ClientStep, PeerStep

-----------------------------------------------------------------------------
(* The connection.                                                         *)

ConnectionType ==
    /\ state \in {"new", "connecting", "connected", "closing", "closed"}
    /\ opened \in 0 .. MaxSockets /\ socket \in 0 .. opened
    /\ closeOf \in 0 .. opened
    /\ phase \in [Sockets -> {"none", "connecting", "handshaking", "handshaken", "live"}]
    /\ life \in [Sockets -> {"unused", "open", "destroyed", "closed"}]
    /\ peer \in [Sockets -> {"none", "open", "ended", "closed"}]
    /\ hello \in [Sockets -> {"none", "sent", "accepted", "refused"}]
    /\ attempt \in [Sockets -> {"none", "pending", "resolved", "rejected"}]
    /\ attached \in {"yes", "no"}

(* A new client holds no socket, an attempt that is under way is for the   *)
(* socket it holds unless it is closing, and one that is closing has let   *)
(* go.                                                                     *)
Holds ==
    /\ state = "new" => socket = None
    /\ state \in {"new", "connecting"} => \A n \in Sockets : attempt[n] = "pending" => socket = n
    /\ closeOf # None => state \in {"closing", "closed"}
    /\ state \in {"closing", "closed"} => socket = None /\ attached = "no"

ConnectionInv == ConnectionType /\ NoSocketLeaks /\ Holds

LEMMA ConnectionInvInit == ClientInit => ConnectionInv
<1> SUFFICES ASSUME ClientInit PROVE ConnectionInv
  OBVIOUS
<1>1. ConnectionType
  BY ClientConstants DEF ClientInit, ConnectionType, None, Sockets
<1>2. NoSocketLeaks /\ Holds
  BY DEF ClientInit, NoSocketLeaks, Holds, None
<1> QED BY <1>1, <1>2 DEF ConnectionInv

LEMMA ConnectKeeps ==
    ASSUME ConnectionInv, Connect
    PROVE  ConnectionInv'
<1> USE DEF ConnectionInv, ConnectionType, Connect, Sockets, None
<1>1. ConnectionType'
  BY ClientConstants
<1>2. NoSocketLeaks' /\ Holds'
  BY ClientConstants DEF NoSocketLeaks, Holds
<1> QED BY <1>1, <1>2

LEMMA CloseKeeps ==
    ASSUME ConnectionInv, Close
    PROVE  ConnectionInv'
<1> USE DEF ConnectionInv, ConnectionType, Close, Sockets, None
<1>1. ConnectionType'
  BY ClientConstants
<1>2. NoSocketLeaks'
  BY ClientConstants DEF NoSocketLeaks
<1>3. Holds'
  BY ClientConstants DEF Holds
<1> QED BY <1>1, <1>2, <1>3

LEMMA LiveSocketFailsKeeps ==
    ASSUME ConnectionInv, ConnectionFails \/ IdleTimeout
    PROVE  ConnectionInv'
<1>0. /\ UNCHANGED <<state, socket, opened, phase, peer, hello, attempt, closeOf>>
      /\ attached' \in {attached, "no"}
      /\ life' = [life EXCEPT ![socket] = "destroyed"]
  BY DEF ConnectionFails, IdleTimeout
<1> USE DEF ConnectionInv, ConnectionType
<1>1. ConnectionType'
  BY <1>0
<1>2. NoSocketLeaks'
  BY <1>0 DEF NoSocketLeaks
<1>3. Holds'
  BY <1>0 DEF Holds
<1> QED BY <1>1, <1>2, <1>3

LEMMA ConnectFailsKeeps ==
    ASSUME ConnectionInv, NEW n \in Sockets, ConnectFails(n)
    PROVE  ConnectionInv'
<1> USE DEF ConnectionInv, ConnectionType, ConnectFails, FinishFailure, Sockets, None
<1>1. ConnectionType'
  BY ClientConstants
<1>2. NoSocketLeaks'
  BY ClientConstants DEF NoSocketLeaks
<1>3. Holds'
  BY ClientConstants DEF Holds
<1> QED BY <1>1, <1>2, <1>3

LEMMA FinishSuccessKeeps ==
    ASSUME ConnectionInv, NEW n \in Sockets, FinishSuccess(n)
    PROVE  ConnectionInv'
<1> USE DEF ConnectionInv, ConnectionType, FinishSuccess, FinishFailure, Sockets, None
<1>1. ConnectionType'
  <2>1. state' \in {"new", "connecting", "connected", "closing", "closed"} /\ attached' \in {"yes", "no"}
    OBVIOUS
  <2>2. UNCHANGED <<opened, closeOf, peer, hello>> /\ socket' \in {0, socket}
    OBVIOUS
  <2>3. phase' \in [Sockets -> {"none", "connecting", "handshaking", "handshaken", "live"}]
    OBVIOUS
  <2>4. life' \in [Sockets -> {"unused", "open", "destroyed", "closed"}]
    OBVIOUS
  <2>5. attempt' \in [Sockets -> {"none", "pending", "resolved", "rejected"}]
    OBVIOUS
  <2> QED BY <2>1, <2>2, <2>3, <2>4, <2>5
<1>2. NoSocketLeaks'
  BY ClientConstants DEF NoSocketLeaks
<1>3. Holds'
  BY ClientConstants DEF Holds
<1> QED BY <1>1, <1>2, <1>3

LEMMA SocketClosedKeeps ==
    ASSUME ConnectionInv, NEW n \in Sockets, SocketClosed(n)
    PROVE  ConnectionInv'
<1> USE DEF ConnectionInv, ConnectionType, SocketClosed, Sockets, None
<1>1. ConnectionType'
  <2>1. state' \in {"new", "connecting", "connected", "closing", "closed"} /\ attached' \in {"yes", "no"}
    OBVIOUS
  <2>2. /\ UNCHANGED <<opened, phase, peer, hello>>
        /\ socket' \in {0, socket} /\ closeOf' \in {0, closeOf}
    OBVIOUS
  <2>3. life' \in [Sockets -> {"unused", "open", "destroyed", "closed"}]
    OBVIOUS
  <2>4. attempt' \in [Sockets -> {"none", "pending", "resolved", "rejected"}]
    OBVIOUS
  <2> QED BY <2>1, <2>2, <2>3, <2>4
<1>2. NoSocketLeaks'
  BY ClientConstants DEF NoSocketLeaks
<1>3. Holds'
  BY ClientConstants DEF Holds
<1> QED BY <1>1, <1>2, <1>3

(* Steps that leave the socket, its life and the state as they are.        *)
LEMMA QuietKeeps ==
    ASSUME ConnectionInv, ConnectionType',
           UNCHANGED <<state, socket, life, attempt, closeOf, attached>>
    PROVE  ConnectionInv'
BY DEF ConnectionInv, NoSocketLeaks, Holds

LEMMA ConnectionInvNext ==
    ASSUME ConnectionInv, [ClientStep \/ PeerStep]_clientVars
    PROVE  ConnectionInv'
<1>1. CASE Request
  BY <1>1, QuietKeeps DEF Request, ConnectionInv, ConnectionType
<1>2. CASE HandleData
  BY <1>2, QuietKeeps DEF HandleData, ConnectionInv, ConnectionType
<1>3. ASSUME NEW i \in Ids, RejectRequest(i) PROVE ConnectionInv'
  BY <1>3, QuietKeeps DEF RejectRequest, ConnectionInv, ConnectionType
<1>4. CASE ConnectionFails \/ IdleTimeout
  BY <1>4, LiveSocketFailsKeeps
<1>5. ASSUME NEW n \in Sockets, SocketClosed(n) PROVE ConnectionInv'
  BY <1>5, SocketClosedKeeps
<1>6. CASE Close
  BY <1>6, CloseKeeps
<1>7. CASE Connect
  BY <1>7, ConnectKeeps
<1>8. ASSUME NEW n \in Sockets, ConnectFails(n) PROVE ConnectionInv'
  BY <1>8, ConnectFailsKeeps
<1>9. ASSUME NEW n \in Sockets, OnConnect(n) PROVE ConnectionInv'
  BY <1>9, QuietKeeps DEF OnConnect, ConnectionInv, ConnectionType
<1>10. ASSUME NEW n \in Sockets, HandshakeSucceeds(n) PROVE ConnectionInv'
  BY <1>10, QuietKeeps DEF HandshakeSucceeds, ConnectionInv, ConnectionType
<1>11. ASSUME NEW n \in Sockets, FinishSuccess(n) PROVE ConnectionInv'
  BY <1>11, FinishSuccessKeeps
<1>12. ASSUME NEW n \in Sockets, PeerAccepts(n) PROVE ConnectionInv'
  BY <1>12, QuietKeeps DEF PeerAccepts, ConnectionInv, ConnectionType
<1>13. ASSUME NEW n \in Sockets, PeerGreets(n) PROVE ConnectionInv'
  BY <1>13, QuietKeeps DEF PeerGreets, ConnectionInv, ConnectionType
<1>14. ASSUME NEW n \in Sockets, PeerAnswers(n) PROVE ConnectionInv'
  BY <1>14, QuietKeeps DEF PeerAnswers, connVars, ConnectionInv, ConnectionType
<1>15. ASSUME NEW S, PeerEnds(S) PROVE ConnectionInv'
  BY <1>15, QuietKeeps DEF PeerEnds, ConnectionInv, ConnectionType
<1>16. ASSUME NEW S, PeerCloses(S) PROVE ConnectionInv'
  BY <1>16, QuietKeeps DEF PeerCloses, ConnectionInv, ConnectionType
<1>17. CASE UNCHANGED clientVars
  BY <1>17, QuietKeeps DEF clientVars, connVars, ConnectionInv, ConnectionType
<1> QED
  BY <1>1, <1>2, <1>3, <1>4, <1>5, <1>6, <1>7, <1>8, <1>9, <1>10, <1>11, <1>12, <1>13, <1>14,
     <1>15, <1>16, <1>17, Zenon
     DEF ClientStep, PeerStep

(* A step of a closed client, or of one that is closing.                   *)
LEMMA ClosedStays ==
    ASSUME ConnectionInv, [ClientStep \/ PeerStep]_clientVars
    PROVE  /\ state = "closed" => state' = "closed" /\ attached' = "no" /\ socket' = None
           /\ state = "closing" => state' \in {"closing", "closed"}
<1>1. state \in {"closing", "closed"} => state' \in {"closing", "closed"}
  BY Zenon DEF ClientStep, PeerStep, Request, HandleData, RejectRequest, ConnectionFails, IdleTimeout,
         SocketClosed, Close, Connect, ConnectFails, FinishFailure, OnConnect, HandshakeSucceeds,
         FinishSuccess, PeerAccepts, PeerGreets, PeerAnswers, PeerEnds, PeerCloses,
         clientVars, connVars
<1>2. state = "closed" => state' = "closed"
  BY Zenon DEF ClientStep, PeerStep, Request, HandleData, RejectRequest, ConnectionFails, IdleTimeout,
         SocketClosed, Close, Connect, ConnectFails, FinishFailure, OnConnect, HandshakeSucceeds,
         FinishSuccess, PeerAccepts, PeerGreets, PeerAnswers, PeerEnds, PeerCloses,
         clientVars, connVars
<1>3. Holds'
  BY ConnectionInvNext DEF ConnectionInv
<1> QED BY <1>1, <1>2, <1>3 DEF Holds

-----------------------------------------------------------------------------
(* The client beside any server, at the level of behaviours.               *)

LEMMA ClientInvariant == ClientSpec => [](RequestInv /\ ConnectionInv)
<1>1. ClientInit => RequestInv /\ ConnectionInv
  BY RequestInvInit, ConnectionInvInit
<1>2. RequestInv /\ ConnectionInv /\ [ClientStep \/ PeerStep]_clientVars
      => RequestInv' /\ ConnectionInv'
  BY RequestInvNext, ConnectionInvNext
<1> QED BY <1>1, <1>2, PTL DEF ClientSpec

LEMMA InvariantGivesForgotten == RequestInv => NoCallForgotten
<1> SUFFICES ASSUME RequestInv, NEW c \in Calls, outcome[c] = "pending"
             PROVE  /\ dispatcher = "open"
                    /\ \E i \in Ids : pending[i] = c /\ \A j \in Ids : pending[j] = c => i = j
  BY DEF NoCallForgotten
<1>1. c # None /\ tick[c] \in Nat
  BY DEF Calls, None, RequestInv, RequestType
<1>2. IdAt(tick[c]) \in Ids /\ pending[IdAt(tick[c])] = c
  BY <1>1, IdAtType DEF RequestInv, MapExact
<1>3. dispatcher = "open"
  BY <1>1, <1>2 DEF RequestInv, MapExact
<1>4. \A j \in Ids : pending[j] = c => IdAt(tick[c]) = j
  BY <1>1, <1>2, MapOnce
<1> QED BY <1>2, <1>3, <1>4

(* The state machines of client.ts and request-dispatcher.ts, with any     *)
(* server at the other end that answers in order: every call gets its own  *)
(* answer unless the ids have gone round, none is forgotten, no socket is  *)
(* left open.                                                              *)
THEOREM ClientSafe ==
    ClientSpec => [](ClientTypeOK /\ AnswersFindTheirCall /\ NoCallForgotten /\ NoSocketLeaks)
<1>1. RequestInv /\ ConnectionInv => ClientTypeOK
  BY DEF RequestInv, ConnectionInv, RequestType, ConnectionType, ClientTypeOK, Messages
<1>2. RequestInv => AnswersFindTheirCall
  BY DEF RequestInv, AnswersGood, AnswersFindTheirCall
<1>3. ConnectionInv => NoSocketLeaks
  BY DEF ConnectionInv
<1> QED BY <1>1, <1>2, <1>3, InvariantGivesForgotten, ClientInvariant, PTL

(* A closed client stays closed and holds nothing (client.ts:123).         *)
THEOREM ClientClosedForGood == ClientSpec => ClosedForGood
<1>1. ConnectionInv /\ [ClientStep \/ PeerStep]_clientVars
      => [/\ state = "closed" => state' = "closed" /\ attached' = "no" /\ socket' = None
          /\ state = "closing" => state' \in {"closing", "closed"}]_clientVars
  BY ClosedStays
<1> QED BY <1>1, ClientInvariant, PTL DEF ClientSpec, ClosedForGood

-----------------------------------------------------------------------------
(* The server.                                                             *)

(* Each step of the composition is one of the client, one of what the      *)
(* client lets the other end do, or none of its business.                  *)
LEMMA NextOfClient ==
    ASSUME ConnectionType, [Next]_vars
    PROVE  [ClientStep \/ PeerStep]_clientVars
<1> DEFINE S == {n \in Sockets : peer[n] # "none"}
<1>1. ASSUME NEW k \in Callers, Stop(k) PROVE [ClientStep \/ PeerStep]_clientVars
  <2>1. CASE PeerEnds(Sockets)
    <3>1. [n \in Sockets |-> IF n \in Sockets /\ peer[n] = "open" THEN "ended" ELSE peer[n]]
          = [n \in Sockets |-> IF n \in S /\ peer[n] = "open" THEN "ended" ELSE peer[n]]
      OBVIOUS
    <3>2. PeerEnds(S)
      BY <2>1, <3>1 DEF PeerEnds
    <3>3. S \in SUBSET S
      OBVIOUS
    <3> QED BY <3>2, <3>3 DEF PeerStep
  <2>2. CASE UNCHANGED clientVars
    BY <2>2
  <2> QED BY <1>1, <2>1, <2>2 DEF Stop
<1>2. CASE ForceClose
  <2>1. PeerCloses({n \in Sockets : peer[n] = "ended"})
    BY <1>2 DEF ForceClose
  <2>2. {n \in Sockets : peer[n] = "ended"} \in SUBSET S
    OBVIOUS
  <2> QED BY <2>1, <2>2 DEF PeerStep
<1>3. ASSUME NEW n \in Sockets, ServerSocketClosed(n) PROVE PeerStep
  <2>1. PeerCloses({n}) /\ {n} \in SUBSET S
    BY <1>3 DEF ServerSocketClosed
  <2> QED BY <2>1 DEF PeerStep
<1>4. ASSUME NEW n \in Sockets, TrackSocket(n) \/ Session(n) PROVE PeerStep
  BY <1>4 DEF TrackSocket, Session, PeerStep
<1>5. CASE Start \/ Listening \/ ListenFails \/ StopFinishes
  BY <1>5 DEF Start, Listening, ListenFails, StopFinishes
<1>6. CASE UNCHANGED vars
  BY <1>6 DEF vars
<1> QED BY <1>1, <1>2, <1>3, <1>4, <1>5, <1>6 DEF Next

(* The client of the composition is a client: what holds beside any server *)
(* holds beside this one.                                                  *)
THEOREM ImplementsClient == Spec => ClientSpec
<1>1. Init => ClientInit
  BY DEF Init
<1>2. Init => ConnectionInv
  BY ConnectionInvInit DEF Init
<1>3. ConnectionInv /\ [Next]_vars => [ClientStep \/ PeerStep]_clientVars
  BY NextOfClient DEF ConnectionInv
<1>4. ConnectionInv /\ [Next]_vars => ConnectionInv'
  BY <1>3, ConnectionInvNext
<1> QED BY <1>1, <1>2, <1>3, <1>4, PTL DEF Spec, ClientSpec

(* A server without its engine has no sockets, and it has the engine       *)
(* unless it is stopped.                                                   *)
ServerInv ==
    /\ server \in {"stopped", "starting", "running", "stopping"}
    /\ engine \in {"none", "open"}
    /\ starts \in 0 .. MaxStarts
    /\ stops \in [Callers -> {"idle", "first", "waiting", "done", "failed"}]
    /\ server = "stopped" <=> engine = "none"
    /\ server \in {"stopped", "starting"} => \A n \in Sockets : peer[n] \in {"none", "closed"}

LEMMA ServerInvNext ==
    ASSUME ServerInv, ConnectionType, [Next]_vars
    PROVE  ServerInv'
<1> USE DEF ServerInv
<1>1. CASE ClientStep /\ UNCHANGED serverVars
  <2>1. UNCHANGED peer
    BY <1>1, Zenon
       DEF ClientStep, Request, HandleData, RejectRequest, ConnectionFails, IdleTimeout,
           SocketClosed, Close, Connect, ConnectFails, OnConnect, HandshakeSucceeds, FinishSuccess
  <2> QED BY <1>1, <2>1 DEF serverVars
<1>2. CASE Start
  BY <1>2, ServerConstants DEF Start, clientVars, connVars
<1>3. CASE Listening
  BY <1>3 DEF Listening, clientVars, connVars
<1>4. CASE ListenFails
  BY <1>4 DEF ListenFails, clientVars, connVars
<1>5. CASE ForceClose
  BY <1>5 DEF ForceClose, PeerCloses, serverVars
<1>6. CASE StopFinishes
  BY <1>6 DEF StopFinishes, clientVars, connVars
<1>7. ASSUME NEW k \in Callers, Stop(k) PROVE ServerInv'
  BY <1>7 DEF Stop, PeerEnds, clientVars, connVars
<1>8. ASSUME NEW n \in Sockets, TrackSocket(n) PROVE ServerInv'
  BY <1>8, Zenon DEF TrackSocket, PeerAccepts, serverVars
<1>9. ASSUME NEW n \in Sockets, Session(n) PROVE ServerInv'
  BY <1>9 DEF Session, PeerGreets, PeerAnswers, connVars, serverVars, ConnectionType
<1>10. ASSUME NEW n \in Sockets, ServerSocketClosed(n) PROVE ServerInv'
  BY <1>10 DEF ServerSocketClosed, PeerCloses, serverVars
<1>11. CASE UNCHANGED vars
  BY <1>11 DEF vars, clientVars, connVars, serverVars
<1> QED
  BY <1>1, <1>2, <1>3, <1>4, <1>5, <1>6, <1>7, <1>8, <1>9, <1>10, <1>11, Zenon DEF Next

LEMMA ServerInvariant == Spec => []ServerInv
<1>1. Init => ServerInv
  BY ServerConstants DEF Init, ClientInit, ServerInv
<1>2. ServerInv /\ ConnectionInv /\ [Next]_vars => ServerInv'
  BY ServerInvNext DEF ConnectionInv
<1> QED BY <1>1, <1>2, ImplementsClient, ClientInvariant, PTL DEF Spec

(* The types of the composition. *)
THEOREM TypeCorrect == Spec => []TypeOK
<1>1. ClientTypeOK /\ ServerInv => TypeOK
  BY DEF ServerInv, TypeOK
<1> QED BY <1>1, ServerInvariant, ImplementsClient, ClientSafe, PTL

(* An answer finds its call, whatever the server and its shutdown do       *)
(* (request-dispatcher.ts:188-213).                                        *)
THEOREM AnswersCorrect == Spec => []AnswersFindTheirCall
BY ImplementsClient, ClientSafe, PTL

(* No promise of a request is left without something that settles it.      *)
THEOREM NoneForgotten == Spec => []NoCallForgotten
BY ImplementsClient, ClientSafe, PTL

(* No socket stays open that the client does not hold (client.ts:356-388). *)
THEOREM NoLeaks == Spec => []NoSocketLeaks
BY ImplementsClient, ClientSafe, PTL

(* A closed client of the composition is closed for good. *)
THEOREM ClosedStaysClosed == Spec => ClosedForGood
BY ImplementsClient, ClientClosedForGood, PTL

(* The engine is open as long as a session may use it, and given up when   *)
(* the server is stopped (server.ts:191-261).                              *)
THEOREM EngineHeld == Spec => []EngineOutlivesSessions
<1>1. ServerInv => EngineOutlivesSessions
  BY DEF ServerInv, EngineOutlivesSessions
<1> QED BY <1>1, ServerInvariant, PTL

(* stop() returns to its callers only when the server is stopped and the   *)
(* directory free (server.ts:202-205, 230-241).                            *)
THEOREM StopReleases == Spec => StopMeansReleased
<1> DEFINE Released ==
      \A k \in Callers :
          stops[k] \in {"first", "waiting"} /\ stops'[k] \in {"done", "failed"} =>
              server' = "stopped" /\ engine' = "none"
<1>1. ServerInv /\ [Next]_vars => [Released]_vars
  <2> SUFFICES ASSUME ServerInv, Next PROVE Released
    OBVIOUS
  <2>1. CASE UNCHANGED stops
    BY <2>1
  <2>2. CASE StopFinishes
    BY <2>2 DEF StopFinishes
  <2>3. ASSUME NEW k \in Callers, Stop(k) PROVE Released
    BY <2>3 DEF Stop, ServerInv
  <2>4. UNCHANGED stops \/ StopFinishes \/ \E k \in Callers : Stop(k)
    BY Zenon DEF Next, Start, Listening, ListenFails, ForceClose, TrackSocket, Session,
           ServerSocketClosed, serverVars
  <2> QED BY <2>1, <2>2, <2>3, <2>4
<1> QED BY <1>1, ServerInvariant, PTL DEF Spec, StopMeansReleased
=============================================================================
