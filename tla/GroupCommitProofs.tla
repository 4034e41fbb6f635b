------------------------- MODULE GroupCommitProofs -------------------------
(***************************************************************************)
(* Proofs about GroupCommit, for any set of connections and any bounds.    *)
(* The server never starts on a log with records that are not on stable    *)
(* storage (~ RecoverUnsynced); without that the theorems do not hold, as  *)
(* TLC shows when RecoverUnsynced is TRUE.                                 *)
(***************************************************************************)
EXTENDS GroupCommit, SequenceTheorems, TLAPS

(* While the server runs and nothing is marked unsynced, all is stable. *)
Committed ==
    /\ hard <= lastLsn
    /\ (server # "down" /\ sync = "clean") => hard = lastLsn
    /\ server = "down" => scheduled = "no"

(* A held reply shows no more than memory holds. *)
HeldShowsMemory ==
    \A s \in Sessions : \A i \in DOMAIN held[s] : held[s][i].lsn <= lastLsn

(* Only a session that waits for a scheduled run() holds replies. *)
HoldersWait ==
    \A s \in Sessions :
        /\ s \notin holding => held[s] = <<>>
        /\ s \in holding => /\ \E i \in DOMAIN waiting : waiting[i] = s
                            /\ scheduled = "yes"

CommitInv == TypeOK /\ Committed /\ HeldShowsMemory /\ HoldersWait /\ NothingShownIsLost

-----------------------------------------------------------------------------
(* The steps of the server, one by one. *)
LEMMA NextCases ==
    ASSUME [Next]_vars
    PROVE  \/ Start \/ Checkpoint \/ Run \/ Stop \/ ForceClose \/ Finish \/ Kill
           \/ PowerLoss \/ UNCHANGED vars
           \/ \E s \in Sessions : Accept(s)
           \/ \E s \in Sessions : Handshake(s)
           \/ \E s \in Sessions : Ping(s)
           \/ \E s \in Sessions : ProtocolFailure(s)
           \/ \E s \in Sessions : Command(s)
           \/ \E s \in Sessions : CommandFails(s)
           \/ \E s \in Sessions : SocketClosed(s)
  BY DEF Next

(* The log only grows under a command, and what is stable stays stable. *)
LEMMA DispatchGrows ==
    ASSUME TypeOK, Committed, server # "down", Dispatch
    PROVE  /\ lastLsn' \in Nat /\ hard' \in Nat
           /\ lastLsn <= lastLsn' /\ hard <= hard' /\ hard' <= lastLsn'
           /\ sync' \in {"clean", "unsynced"} /\ health' \in {"ok", "broken"}
           /\ sync' = "clean" => hard' = lastLsn'
<1>1. CASE UNCHANGED engineVars
  BY <1>1 DEF TypeOK, Committed, engineVars
<1>2. CASE Flushed
  BY <1>2 DEF TypeOK, Committed, Flushed
<1>3. CASE Breaks
  BY <1>3 DEF TypeOK, Committed, Breaks
<1>4. CASE Appends
  BY <1>4 DEF TypeOK, Committed, Appends
<1> QED BY <1>1, <1>2, <1>3, <1>4 DEF Dispatch

(* What write() does to one session, and that it leaves the others alone. *)
LEMMA WriteKeepsTypes ==
    ASSUME TypeOK, NEW s \in Sessions, NEW lsn \in Nat,
           NEW sockets \in [Sessions -> {"none", "open", "ended", "destroyed", "closed"}],
           Write(s, lsn, sockets)
    PROVE  /\ held' \in [Sessions -> Seq(Reply)]
           /\ sent' \in [Sessions -> Seq(Reply)]
           /\ conn' \in [Sessions -> {"none", "open", "ended", "destroyed", "closed"}]
<1> DEFINE reply == [req |-> asked[s] + 1, lsn |-> lsn]
<1>1. reply \in Reply
  BY DEF TypeOK, Reply
<1>2. Append(held[s], reply) \in Seq(Reply) /\ Append(sent[s], reply) \in Seq(Reply)
  BY <1>1 DEF TypeOK
<1> HIDE DEF reply
<1> QED BY <1>1, <1>2 DEF TypeOK, Write, reply

(* stop() leaves every socket in a state that sockets have. *)
LEMMA EndedIsTyped ==
    ASSUME NEW sockets \in [Sessions -> {"none", "open", "ended", "destroyed", "closed"}]
    PROVE  Ended(sockets) \in [Sessions -> {"none", "open", "ended", "destroyed", "closed"}]
  BY DEF Ended

(* holdUntilDurable keeps the types of what it changes. *)
LEMMA HoldKeepsTypes ==
    ASSUME TypeOK, NEW s \in Sessions, HoldUntilDurable(s)
    PROVE  /\ holding' \subseteq Sessions
           /\ waiting' \in Seq(Sessions)
           /\ scheduled' \in {"yes", "no"}
<1>1. CASE s \notin holding /\ sync' = "unsynced"
  <2>1. waiting' = Append(waiting, s) /\ holding' = holding \cup {s} /\ scheduled' = "yes"
    BY <1>1 DEF HoldUntilDurable
  <2>2. waiting' \in Seq(Sessions)
    BY <2>1 DEF TypeOK
  <2> QED BY <2>1, <2>2 DEF TypeOK
<1>2. CASE ~ (s \notin holding /\ sync' = "unsynced")
  BY <1>2 DEF HoldUntilDurable, TypeOK
<1> QED BY <1>1, <1>2

(* Taking a message keeps the count of messages a number. *)
LEMMA HandlesKeepsTypes ==
    ASSUME TypeOK, NEW s \in Sessions, NEW states, Handles(s, states)
    PROVE  asked' \in [Sessions -> Nat] /\ server # "down"
  BY DEF TypeOK, Handles

-----------------------------------------------------------------------------
(* Every handler keeps every variable in its type. *)
LEMMA TypeStep ==
    ASSUME TypeOK, Committed, HoldersWait, [Next]_vars
    PROVE  TypeOK'
<1>1. CASE Start
  BY <1>1 DEF TypeOK, Start
<1>2. CASE Checkpoint
  BY <1>2 DEF TypeOK, Checkpoint, Flushed, Breaks
<1>3. CASE Run
  <2>1. sent' \in [Sessions -> Seq(Reply)]
    <3>1. CASE ReleaseAll
      <4>1. \A s \in Sessions : sent[s] \o held[s] \in Seq(Reply)
        BY ConcatProperties DEF TypeOK
      <4> QED BY <3>1, <4>1 DEF TypeOK, ReleaseAll
    <3>2. CASE DropAll
      BY <3>2 DEF TypeOK, DropAll
    <3> QED BY <1>3, <3>1, <3>2 DEF Run
  <2>2. /\ conn' \in [Sessions -> {"none", "open", "ended", "destroyed", "closed"}]
        /\ server' \in {"down", "running", "stopping"}
    <3>1. CASE ReleaseAll
      BY <3>1 DEF TypeOK, ReleaseAll
    <3>2. CASE DropAll
      BY <3>2 DEF TypeOK, DropAll, Ended
    <3> QED BY <1>3, <3>1, <3>2 DEF Run
  <2>3. lastLsn' \in Nat /\ hard' \in Nat /\ sync' \in {"clean", "unsynced"}
        /\ health' \in {"ok", "broken"}
    BY <1>3 DEF TypeOK, Run, CommitWorks, CommitFails, Flushed, engineVars
  <2>4. held' \in [Sessions -> Seq(Reply)]
    <3>1. <<>> \in Seq(Reply)
      OBVIOUS
    <3> QED BY <1>3, <3>1 DEF Run
  <2> QED BY <1>3, <2>1, <2>2, <2>3, <2>4 DEF TypeOK, Run
<1>4. CASE Stop
  BY <1>4, EndedIsTyped DEF TypeOK, Stop
<1>5. CASE ForceClose
  BY <1>5 DEF TypeOK, ForceClose
<1>6. CASE Gone /\ (Finish \/ Kill \/ PowerLoss)
  <2>1. lastLsn' \in Nat /\ hard' \in Nat /\ sync' \in {"clean", "unsynced"}
        /\ health' \in {"ok", "broken"}
    BY <1>6 DEF TypeOK, Finish, Kill, PowerLoss, Flushed, Breaks, engineVars
  <2>2. <<>> \in Seq(Reply) /\ <<>> \in Seq(Sessions)
    OBVIOUS
  <2> QED BY <1>6, <2>1, <2>2 DEF TypeOK, Gone
<1>7. ASSUME NEW s \in Sessions, Accept(s) PROVE TypeOK'
  <2>1. <<>> \in Seq(Reply)
    OBVIOUS
  <2> QED BY <1>7, <2>1 DEF TypeOK, Accept
<1>8. ASSUME NEW s \in Sessions, Handshake(s) PROVE TypeOK'
  <2>1. Write(s, 0, conn) /\ Handles(s, {"AwaitingHandshake"})
    BY <1>8 DEF Handshake
  <2> QED BY <1>8, <2>1, WriteKeepsTypes, HandlesKeepsTypes DEF TypeOK, Handshake
<1>9. ASSUME NEW s \in Sessions, Ping(s) PROVE TypeOK'
  <2>1. Write(s, 0, conn) /\ Handles(s, {"Ready"})
    BY <1>9 DEF Ping
  <2> QED BY <1>9, <2>1, WriteKeepsTypes, HandlesKeepsTypes DEF TypeOK, Ping
<1>10. ASSUME NEW s \in Sessions, ProtocolFailure(s) PROVE TypeOK'
  <2> DEFINE reply == [req |-> asked[s] + 1, lsn |-> 0]
  <2>1. Append(held[s], reply) \in Seq(Reply) /\ Append(sent[s], reply) \in Seq(Reply)
    <3>1. reply \in Reply
      BY DEF TypeOK, Reply
    <3> QED BY <3>1 DEF TypeOK
  <2>2. asked' \in [Sessions -> Nat]
    BY <1>10, HandlesKeepsTypes DEF ProtocolFailure
  <2> QED BY <1>10, <2>1, <2>2 DEF TypeOK, ProtocolFailure, WriteAndEnd
<1>11. ASSUME NEW s \in Sessions, Command(s) PROVE TypeOK'
  <2>1. server # "down" /\ asked' \in [Sessions -> Nat]
    BY <1>11, HandlesKeepsTypes DEF Command
  <2>2. lastLsn' \in Nat /\ hard' \in Nat /\ sync' \in {"clean", "unsynced"}
        /\ health' \in {"ok", "broken"}
    BY <1>11, <2>1, DispatchGrows DEF Command
  <2>3. conn \in [Sessions -> {"none", "open", "ended", "destroyed", "closed"}]
    BY DEF TypeOK
  <2> QED BY <1>11, <2>1, <2>2, <2>3, WriteKeepsTypes, HoldKeepsTypes DEF TypeOK, Command
<1>12. ASSUME NEW s \in Sessions, CommandFails(s) PROVE TypeOK'
  <2> DEFINE sockets == IF server = "running" THEN Ended(conn) ELSE conn
  <2>1. server # "down" /\ asked' \in [Sessions -> Nat]
    BY <1>12, HandlesKeepsTypes DEF CommandFails
  <2>2. lastLsn' \in Nat /\ hard' \in Nat /\ sync' \in {"clean", "unsynced"}
        /\ health' \in {"ok", "broken"}
    BY <1>12, <2>1, DispatchGrows DEF CommandFails
  <2>3. sockets \in [Sessions -> {"none", "open", "ended", "destroyed", "closed"}]
    BY EndedIsTyped DEF TypeOK
  <2>4. Write(s, lastLsn', sockets)
    BY <1>12 DEF CommandFails
  <2> HIDE DEF sockets
  <2> QED BY <1>12, <2>1, <2>2, <2>3, <2>4, WriteKeepsTypes, HoldKeepsTypes
          DEF TypeOK, CommandFails
<1>13. ASSUME NEW s \in Sessions, SocketClosed(s) PROVE TypeOK'
  BY <1>13 DEF TypeOK, SocketClosed
<1>14. CASE UNCHANGED vars
  BY <1>14 DEF TypeOK, vars
<1> QED BY <1>1, <1>2, <1>3, <1>4, <1>5, <1>6, <1>7, <1>8, <1>9, <1>10, <1>11, <1>12,
           <1>13, <1>14, NextCases DEF Finish, Kill, PowerLoss

-----------------------------------------------------------------------------
(* Whatever clears the unsynced flag has flushed the whole log. *)
LEMMA CommittedStep ==
    ASSUME ~ RecoverUnsynced, TypeOK, Committed, [Next]_vars
    PROVE  Committed'
<1>1. CASE Start
  BY <1>1 DEF TypeOK, Committed, Start
<1>2. CASE Checkpoint
  BY <1>2 DEF TypeOK, Committed, Checkpoint, Flushed, Breaks
<1>3. CASE Run
  <2>1. server # "down" /\ scheduled' = "no"
    BY <1>3 DEF Run, Committed
  <2>2. CASE CommitWorks
    BY <2>1, <2>2 DEF TypeOK, Committed, CommitWorks, Flushed, engineVars
  <2>3. CASE CommitFails
    BY <2>1, <2>3 DEF TypeOK, Committed, CommitFails
  <2> QED BY <1>3, <2>2, <2>3 DEF Run
<1>4. CASE Stop
  BY <1>4 DEF Committed, Stop
<1>5. CASE ForceClose
  BY <1>5 DEF Committed, ForceClose
<1>6. CASE Finish \/ Kill \/ PowerLoss
  BY <1>6 DEF TypeOK, Committed, Finish, Kill, PowerLoss, Gone, Flushed, Breaks, engineVars
<1>7. ASSUME NEW s \in Sessions, Accept(s) \/ Handshake(s) \/ Ping(s) \/ ProtocolFailure(s)
                                 \/ SocketClosed(s)
      PROVE  Committed'
  BY <1>7 DEF Committed, Accept, Handshake, Ping, ProtocolFailure, SocketClosed, Handles
<1>8. ASSUME NEW s \in Sessions, Command(s) \/ CommandFails(s) PROVE Committed'
  <2>1. server # "down" /\ server' # "down" /\ Dispatch
    BY <1>8 DEF Command, CommandFails, Handles
  <2> QED BY <2>1, DispatchGrows DEF Committed
<1>9. CASE UNCHANGED vars
  BY <1>9 DEF Committed, vars
<1> QED BY <1>1, <1>2, <1>3, <1>4, <1>5, <1>6, <1>7, <1>8, <1>9, NextCases

(* What an append to one component of a function of sequences does. *)
LEMMA AppendOne ==
    ASSUME NEW f \in [Sessions -> Seq(Reply)], NEW s \in Sessions, NEW r \in Reply,
           NEW g, g = [f EXCEPT ![s] = Append(@, r)]
    PROVE  /\ \A t \in Sessions : t # s => g[t] = f[t]
           /\ Len(g[s]) = Len(f[s]) + 1
           /\ DOMAIN g[s] = 1 .. Len(f[s]) + 1
           /\ DOMAIN f[s] = 1 .. Len(f[s])
           /\ g[s][Len(f[s]) + 1] = r
           /\ \A i \in 1 .. Len(f[s]) : g[s][i] = f[s][i]
<1>1. g[s] = Append(f[s], r) /\ f[s] \in Seq(Reply)
  OBVIOUS
<1> QED BY <1>1, AppendProperties

(* An element of a concatenation is an element of one of the parts. *)
LEMMA ConcatSplit ==
    ASSUME NEW a \in Seq(Reply), NEW b \in Seq(Reply)
    PROVE  /\ Len(a \o b) = Len(a) + Len(b)
           /\ \A i \in DOMAIN (a \o b) :
                 \/ i \in DOMAIN a /\ (a \o b)[i] = a[i]
                 \/ i - Len(a) \in DOMAIN b /\ (a \o b)[i] = b[i - Len(a)]
<1>1. /\ Len(a) \in Nat /\ Len(b) \in Nat
      /\ DOMAIN a = 1 .. Len(a) /\ DOMAIN b = 1 .. Len(b)
  BY LenProperties
<1>2. a \o b \in Seq(Reply)
  BY ConcatProperties
<1>3. /\ Len(a \o b) = Len(a) + Len(b)
      /\ DOMAIN (a \o b) = 1 .. Len(a) + Len(b)
      /\ \A j \in 1 .. Len(a) + Len(b) :
            (a \o b)[j] = IF j <= Len(a) THEN a[j] ELSE b[j - Len(a)]
  BY <1>2, ConcatProperties, LenProperties
<1> QED BY <1>1, <1>3

(* The records that replies show are numbers, which SMT has to be told. *)
LEMMA LsnsAreNumbers ==
    ASSUME NEW f \in [Sessions -> Seq(Reply)]
    PROVE  \A t \in Sessions : \A i \in DOMAIN f[t] :
               f[t][i] \in Reply /\ f[t][i].lsn \in Nat /\ f[t][i].req \in Nat
<1> TAKE t \in Sessions
<1> TAKE i \in DOMAIN f[t]
<1>1. f[t] \in Seq(Reply)
  OBVIOUS
<1>2. f[t][i] \in Reply
  BY <1>1
<1> QED BY <1>2 DEF Reply

(* write() shows nothing that is not stable, and holds nothing that is not *)
(* in memory.                                                              *)
LEMMA WriteShows ==
    ASSUME TypeOK, HeldShowsMemory, NothingShownIsLost,
           NEW s \in Sessions, NEW lsn \in Nat, NEW sockets, Write(s, lsn, sockets),
           lastLsn' \in Nat, hard' \in Nat, lastLsn <= lastLsn', hard <= hard',
           lsn <= lastLsn', s \notin holding' => lsn <= hard'
    PROVE  HeldShowsMemory' /\ NothingShownIsLost'
<1> DEFINE reply == [req |-> asked[s] + 1, lsn |-> lsn]
<1>1. reply \in Reply /\ reply.lsn = lsn
  BY DEF TypeOK, Reply
<1>2. /\ held \in [Sessions -> Seq(Reply)] /\ sent \in [Sessions -> Seq(Reply)]
      /\ lastLsn \in Nat /\ hard \in Nat
  BY DEF TypeOK
<1>3. \A t \in Sessions : \A i \in DOMAIN held[t] : held[t][i].lsn \in Nat
  BY <1>2, LsnsAreNumbers
<1>4. \A t \in Sessions : \A i \in DOMAIN sent[t] : sent[t][i].lsn \in Nat
  BY <1>2, LsnsAreNumbers
<1>5. CASE s \in holding'
  <2>1. held' = [held EXCEPT ![s] = Append(@, reply)] /\ sent' = sent
    BY <1>5 DEF Write
  <2> HIDE DEF reply
  <2>2. HeldShowsMemory'
    BY <1>1, <1>2, <1>3, <2>1, AppendOne DEF HeldShowsMemory
  <2> QED BY <1>2, <1>4, <2>1, <2>2 DEF NothingShownIsLost
<1>6. CASE s \notin holding'
  <2>1. held' = held /\ (sent' = [sent EXCEPT ![s] = Append(@, reply)] \/ sent' = sent)
    BY <1>6 DEF Write
  <2> HIDE DEF reply
  <2>2. NothingShownIsLost'
    <3>1. CASE sent' = sent
      BY <1>2, <1>4, <3>1 DEF NothingShownIsLost
    <3>2. CASE sent' = [sent EXCEPT ![s] = Append(@, reply)]
      BY <1>1, <1>2, <1>4, <1>6, <3>2, AppendOne DEF NothingShownIsLost
    <3> QED BY <2>1, <3>1, <3>2
  <2> QED BY <1>2, <1>3, <2>1, <2>2 DEF HeldShowsMemory
<1> QED BY <1>5, <1>6

(* No step sends a reply that shows more than is stable. *)
LEMMA ShownStep ==
    ASSUME TypeOK, Committed, HeldShowsMemory, NothingShownIsLost, [Next]_vars
    PROVE  HeldShowsMemory' /\ NothingShownIsLost'
<1> USE DEF HeldShowsMemory, NothingShownIsLost
<1>0. /\ held \in [Sessions -> Seq(Reply)] /\ sent \in [Sessions -> Seq(Reply)]
      /\ lastLsn \in Nat /\ hard \in Nat /\ hard <= lastLsn
      /\ \A t \in Sessions : \A i \in DOMAIN held[t] : held[t][i].lsn \in Nat
      /\ \A t \in Sessions : \A i \in DOMAIN sent[t] : sent[t][i].lsn \in Nat
  BY LsnsAreNumbers DEF TypeOK, Committed
<1>1. CASE Start \/ Stop \/ ForceClose \/ UNCHANGED vars
  BY <1>1 DEF Start, Stop, ForceClose, vars
<1>2. CASE Checkpoint
  BY <1>0, <1>2 DEF Checkpoint, Flushed, Breaks
<1>3. CASE Run
  <2>1. HeldShowsMemory'
    BY <1>3 DEF Run
  <2>2. CASE CommitWorks /\ ReleaseAll
    <3>1. hard' = lastLsn /\ lastLsn' = lastLsn
      BY <1>3, <2>2 DEF Run, CommitWorks, Flushed, Committed, engineVars
    <3>2. ASSUME NEW s \in Sessions, NEW i \in DOMAIN sent'[s]
          PROVE  sent'[s][i].lsn <= hard'
      <4>1. CASE sent'[s] = sent[s]
        BY <1>0, <3>1, <3>2, <4>1
      <4>2. CASE sent'[s] = sent[s] \o held[s]
        <5>1. sent[s] \in Seq(Reply) /\ held[s] \in Seq(Reply)
          BY <1>0
        <5>2. \A j \in DOMAIN (sent[s] \o held[s]) :
                 \/ j \in DOMAIN sent[s] /\ (sent[s] \o held[s])[j] = sent[s][j]
                 \/ /\ j - Len(sent[s]) \in DOMAIN held[s]
                    /\ (sent[s] \o held[s])[j] = held[s][j - Len(sent[s])]
          BY ONLY <5>1, ConcatSplit
        <5>3. i \in DOMAIN (sent[s] \o held[s]) /\ sent'[s][i] = (sent[s] \o held[s])[i]
          BY <3>2, <4>2
        <5>4. \/ i \in DOMAIN sent[s] /\ sent'[s][i] = sent[s][i]
              \/ /\ i - Len(sent[s]) \in DOMAIN held[s]
                 /\ sent'[s][i] = held[s][i - Len(sent[s])]
          BY ONLY <5>2, <5>3
        <5> QED BY <1>0, <3>1, <5>4
      <4> QED BY <2>2, <4>1, <4>2 DEF ReleaseAll
    <3> QED BY <2>1, <3>2
  <2>3. CASE CommitFails /\ DropAll
    BY <2>1, <2>3 DEF CommitFails, DropAll
  <2> QED BY <1>3, <2>2, <2>3 DEF Run
<1>4. CASE Finish \/ Kill \/ PowerLoss
  <2>1. /\ held' = [s \in Sessions |-> <<>>] /\ sent' = sent
        /\ hard' \in Nat /\ hard <= hard'
    BY <1>0, <1>4 DEF Finish, Kill, PowerLoss, Gone, Flushed, Breaks, engineVars
  <2> QED BY <1>0, <2>1
<1>5. ASSUME NEW s \in Sessions, Accept(s) PROVE HeldShowsMemory' /\ NothingShownIsLost'
  BY <1>0, <1>5 DEF Accept
<1>6. ASSUME NEW s \in Sessions, Handshake(s) \/ Ping(s)
      PROVE  HeldShowsMemory' /\ NothingShownIsLost'
  <2>1. Write(s, 0, conn) /\ UNCHANGED <<lastLsn, hard>>
    BY <1>6 DEF Handshake, Ping
  <2>2. /\ lastLsn' \in Nat /\ hard' \in Nat /\ lastLsn <= lastLsn' /\ hard <= hard'
        /\ 0 <= lastLsn' /\ 0 <= hard' /\ 0 \in Nat
    BY <1>0, <2>1
  <2> QED BY <2>1, <2>2, WriteShows
<1>7. ASSUME NEW s \in Sessions, ProtocolFailure(s)
      PROVE  HeldShowsMemory' /\ NothingShownIsLost'
  <2> DEFINE reply == [req |-> asked[s] + 1, lsn |-> 0]
  <2>1. reply \in Reply /\ reply.lsn = 0
    BY DEF TypeOK, Reply
  <2>2. /\ UNCHANGED <<lastLsn, hard>>
        /\ held' = held \/ held' = [held EXCEPT ![s] = Append(@, reply)]
        /\ sent' = sent \/ sent' = [sent EXCEPT ![s] = Append(@, reply)]
    BY <1>7 DEF ProtocolFailure, WriteAndEnd
  <2> HIDE DEF reply
  <2>3. HeldShowsMemory'
    <3>1. CASE held' = held
      BY <2>2, <3>1
    <3>2. CASE held' = [held EXCEPT ![s] = Append(@, reply)]
      BY <1>0, <2>1, <2>2, <3>2, AppendOne
    <3> QED BY <2>2, <3>1, <3>2
  <2>4. NothingShownIsLost'
    <3>1. CASE sent' = sent
      BY <2>2, <3>1
    <3>2. CASE sent' = [sent EXCEPT ![s] = Append(@, reply)]
      BY <1>0, <2>1, <2>2, <3>2, AppendOne
    <3> QED BY <2>2, <3>1, <3>2
  <2> QED BY <2>3, <2>4
<1>8. ASSUME NEW s \in Sessions, Command(s) \/ CommandFails(s)
      PROVE  HeldShowsMemory' /\ NothingShownIsLost'
  <2>1. PICK sockets : Write(s, lastLsn', sockets)
    BY <1>8 DEF Command, CommandFails
  <2>2. server # "down" /\ Dispatch /\ HoldUntilDurable(s)
    BY <1>8 DEF Command, CommandFails, Handles
  <2>3. /\ lastLsn' \in Nat /\ hard' \in Nat /\ lastLsn <= lastLsn' /\ hard <= hard'
        /\ sync' \in {"clean", "unsynced"} /\ (sync' = "clean" => hard' = lastLsn')
    BY <2>2, DispatchGrows
  <2>4. s \notin holding' => lastLsn' <= hard'
    BY <2>2, <2>3 DEF HoldUntilDurable
  <2> QED BY <2>1, <2>3, <2>4, WriteShows
<1>9. ASSUME NEW s \in Sessions, SocketClosed(s) PROVE HeldShowsMemory' /\ NothingShownIsLost'
  BY <1>9 DEF SocketClosed
<1> QED BY <1>1, <1>2, <1>3, <1>4, <1>5, <1>6, <1>7, <1>8, <1>9, NextCases

-----------------------------------------------------------------------------
(* whenDurable schedules a run() for every session it lists, and run()    *)
(* releases them all.                                                      *)
LEMMA HoldersWaitStep ==
    ASSUME TypeOK, HoldersWait, [Next]_vars
    PROVE  HoldersWait'
<1> USE DEF HoldersWait
<1>0. held \in [Sessions -> Seq(Reply)] /\ waiting \in Seq(Sessions)
  BY DEF TypeOK
<1>1. CASE Start \/ Checkpoint \/ Stop \/ ForceClose \/ UNCHANGED vars
  BY <1>1 DEF Start, Checkpoint, Stop, ForceClose, vars
<1>2. CASE Run
  BY <1>2 DEF Run
<1>3. CASE Finish \/ Kill \/ PowerLoss
  BY <1>3 DEF Finish, Kill, PowerLoss, Gone
<1>4. ASSUME NEW s \in Sessions, Accept(s) \/ SocketClosed(s) PROVE HoldersWait'
  BY <1>4 DEF Accept, SocketClosed
<1>5. ASSUME NEW s \in Sessions, Handshake(s) \/ Ping(s) PROVE HoldersWait'
  BY <1>0, <1>5 DEF Handshake, Ping, Write
<1>6. ASSUME NEW s \in Sessions, ProtocolFailure(s) PROVE HoldersWait'
  BY <1>0, <1>6 DEF ProtocolFailure, WriteAndEnd
<1>7. ASSUME NEW s \in Sessions, Command(s) \/ CommandFails(s) PROVE HoldersWait'
  <2>1. PICK sockets : Write(s, lastLsn', sockets)
    BY <1>7 DEF Command, CommandFails
  <2>2. HoldUntilDurable(s)
    BY <1>7 DEF Command, CommandFails
  <2>3. /\ \A t \in Sessions : t # s => held'[t] = held[t]
        /\ s \notin holding' => held'[s] = held[s]
    BY <1>0, <2>1 DEF Write
  <2>4. CASE s \notin holding /\ sync' = "unsynced"
    <3>1. holding' = holding \cup {s} /\ waiting' = Append(waiting, s) /\ scheduled' = "yes"
      BY <2>2, <2>4 DEF HoldUntilDurable
    <3>2. /\ \A i \in DOMAIN waiting : i \in DOMAIN waiting' /\ waiting'[i] = waiting[i]
          /\ \E i \in DOMAIN waiting' : waiting'[i] = s
      BY <1>0, <3>1, AppendProperties, LenProperties
    <3> QED BY <2>3, <3>1, <3>2
  <2>5. CASE ~ (s \notin holding /\ sync' = "unsynced")
    BY <2>2, <2>3, <2>5 DEF HoldUntilDurable
  <2> QED BY <2>4, <2>5
<1> QED BY <1>1, <1>2, <1>3, <1>4, <1>5, <1>6, <1>7, NextCases

(* On an open connection the replies written and the replies held answer   *)
(* all messages so far, in order.                                          *)
Numbered(s) ==
    /\ \A i \in DOMAIN sent[s] : sent[s][i].req = i
    /\ conn[s] = "open" =>
          /\ asked[s] = Len(sent[s]) + Len(held[s])
          /\ \A i \in DOMAIN held[s] : held[s][i].req = Len(sent[s]) + i

AllNumbered == \A s \in Sessions : Numbered(s)

(* write() gives a reply the next number of its connection. *)
LEMMA WriteNumbers ==
    ASSUME TypeOK, HoldersWait, AllNumbered, NEW s \in Sessions, NEW lsn \in Nat,
           NEW sockets \in [Sessions -> {"none", "open", "ended", "destroyed", "closed"}],
           \A t \in Sessions : sockets[t] = "open" => conn[t] = "open",
           Write(s, lsn, sockets), holding \subseteq holding',
           asked' = [asked EXCEPT ![s] = @ + 1]
    PROVE  AllNumbered'
<1> DEFINE reply == [req |-> asked[s] + 1, lsn |-> lsn]
<1>1. /\ reply \in Reply /\ reply.req = asked[s] + 1
      /\ asked \in [Sessions -> Nat]
      /\ held \in [Sessions -> Seq(Reply)] /\ sent \in [Sessions -> Seq(Reply)]
      /\ Len(held[s]) \in Nat /\ Len(sent[s]) \in Nat
  BY DEF TypeOK, Reply
<1>2. \A t \in Sessions : conn'[t] = "open" => conn[t] = "open"
  BY DEF Write
<1>3. ASSUME NEW t \in Sessions, t # s PROVE Numbered(t)'
  <2>1. sent'[t] = sent[t] /\ held'[t] = held[t] /\ asked'[t] = asked[t]
    BY <1>1, <1>3 DEF Write
  <2> QED BY <1>2, <2>1 DEF AllNumbered, Numbered
<1>4. Numbered(s)'
  <2>1. CASE s \in holding'
    <3>1. held' = [held EXCEPT ![s] = Append(@, reply)] /\ sent' = sent
      BY <2>1 DEF Write
    <3> HIDE DEF reply
    <3> QED BY <1>1, <1>2, <3>1, AppendOne DEF AllNumbered, Numbered
  <2>2. CASE s \notin holding' /\ sockets[s] = "open"
    <3>1. sent' = [sent EXCEPT ![s] = Append(@, reply)] /\ held' = held
      BY <2>2 DEF Write
    <3>2. held[s] = <<>> /\ asked[s] = Len(sent[s])
      BY <1>1, <2>2 DEF HoldersWait, AllNumbered, Numbered
    <3> HIDE DEF reply
    <3> QED BY <1>1, <3>1, <3>2, AppendOne DEF AllNumbered, Numbered
  <2>3. CASE s \notin holding' /\ sockets[s] # "open"
    <3>1. sent' = sent /\ conn'[s] # "open"
      BY <2>3 DEF Write
    <3> QED BY <3>1 DEF AllNumbered, Numbered
  <2> QED BY <2>1, <2>2, <2>3
<1> QED BY <1>3, <1>4 DEF AllNumbered

(* Sent and held replies of a connection stay numbered without a hole. *)
LEMMA NumberedStep ==
    ASSUME TypeOK, HoldersWait, AllNumbered, [Next]_vars
    PROVE  AllNumbered'
<1>0. /\ held \in [Sessions -> Seq(Reply)] /\ sent \in [Sessions -> Seq(Reply)]
      /\ asked \in [Sessions -> Nat]
      /\ conn \in [Sessions -> {"none", "open", "ended", "destroyed", "closed"}]
  BY DEF TypeOK
<1>1. CASE Start \/ Checkpoint \/ UNCHANGED vars
  BY <1>1 DEF AllNumbered, Numbered, Start, Checkpoint, vars
<1>2. CASE Stop \/ ForceClose
  BY <1>0, <1>2 DEF AllNumbered, Numbered, Stop, ForceClose, Ended
<1>3. CASE Run
  <2>1. CASE ReleaseAll
    <3> SUFFICES ASSUME NEW s \in Sessions PROVE Numbered(s)'
      BY DEF AllNumbered
    <3>1. held'[s] = <<>> /\ asked'[s] = asked[s] /\ (conn'[s] = "open" => conn[s] = "open")
      BY <1>0, <1>3, <2>1 DEF Run, ReleaseAll
    <3>2. CASE s \in holding /\ conn[s] = "open"
      <4> DEFINE all == sent[s] \o held[s]
      <4>1. sent[s] \in Seq(Reply) /\ held[s] \in Seq(Reply) /\ sent'[s] = all
        BY <1>0, <2>1, <3>2 DEF ReleaseAll
      <4>2. /\ Len(all) = Len(sent[s]) + Len(held[s])
            /\ \A i \in DOMAIN all :
                  \/ i \in DOMAIN sent[s] /\ all[i] = sent[s][i]
                  \/ i - Len(sent[s]) \in DOMAIN held[s] /\ all[i] = held[s][i - Len(sent[s])]
        BY ONLY <4>1, ConcatSplit
      <4>3. all \in Seq(Reply) /\ Len(sent[s]) \in Nat /\ DOMAIN all = 1 .. Len(all)
            /\ Len(all) \in Nat
        BY ONLY <4>1, ConcatProperties, LenProperties
      <4> HIDE DEF all
      <4>4. \A i \in DOMAIN all : all[i].req = i
        <5>1. /\ \A i \in DOMAIN sent[s] : sent[s][i].req = i
              /\ \A i \in DOMAIN held[s] : held[s][i].req = Len(sent[s]) + i
          BY <3>2 DEF AllNumbered, Numbered
        <5>2. ASSUME NEW i \in DOMAIN all PROVE all[i].req = i
          <6>1. i \in Nat
            BY <4>3
          <6>2. CASE i \in DOMAIN sent[s] /\ all[i] = sent[s][i]
            BY <5>1, <6>2
          <6>3. CASE i - Len(sent[s]) \in DOMAIN held[s] /\ all[i] = held[s][i - Len(sent[s])]
            <7>1. all[i].req = Len(sent[s]) + (i - Len(sent[s]))
              BY <5>1, <6>3
            <7> QED BY <4>3, <6>1, <7>1
          <6> QED BY <4>2, <6>2, <6>3
        <5> QED BY <5>2
      <4>5. asked[s] = Len(all)
        BY <3>2, <4>2 DEF AllNumbered, Numbered
      <4> QED BY <3>1, <4>1, <4>3, <4>4, <4>5 DEF Numbered
    <3>3. CASE ~ (s \in holding /\ conn[s] = "open")
      <4>1. sent'[s] = sent[s]
        BY <1>0, <2>1, <3>3 DEF ReleaseAll
      <4>2. conn[s] = "open" => held[s] = <<>>
        BY <3>3 DEF HoldersWait
      <4> QED BY <3>1, <4>1, <4>2 DEF AllNumbered, Numbered
    <3> QED BY <3>2, <3>3
  <2>2. CASE DropAll
    <3> SUFFICES ASSUME NEW s \in Sessions PROVE Numbered(s)'
      BY DEF AllNumbered
    <3>1. held'[s] = <<>> /\ asked'[s] = asked[s] /\ sent' = sent
      BY <1>3, <2>2 DEF Run, DropAll
    <3>2. conn'[s] = "open" => conn[s] = "open" /\ s \notin holding
      BY <1>0, <2>2 DEF DropAll, Ended, HoldersWait
    <3>3. conn'[s] = "open" => held[s] = <<>> /\ conn[s] = "open"
      BY <3>2 DEF HoldersWait
    <3> QED BY <3>1, <3>3 DEF AllNumbered, Numbered
  <2> QED BY <1>3, <2>1, <2>2 DEF Run
<1>4. CASE Finish \/ Kill \/ PowerLoss
  BY <1>4 DEF AllNumbered, Numbered, Finish, Kill, PowerLoss, Gone
<1>5. ASSUME NEW s \in Sessions, Accept(s) PROVE AllNumbered'
  BY <1>0, <1>5 DEF AllNumbered, Numbered, Accept, HoldersWait
<1>6. ASSUME NEW s \in Sessions, SocketClosed(s) PROVE AllNumbered'
  BY <1>0, <1>6 DEF AllNumbered, Numbered, SocketClosed
<1>7. ASSUME NEW s \in Sessions, Handshake(s) \/ Ping(s) PROVE AllNumbered'
  <2>1. Write(s, 0, conn) /\ holding' = holding /\ asked' = [asked EXCEPT ![s] = @ + 1]
    BY <1>7 DEF Handshake, Ping, Handles
  <2> QED BY <1>0, <2>1, WriteNumbers
<1>8. ASSUME NEW s \in Sessions, ProtocolFailure(s) PROVE AllNumbered'
  <2> DEFINE reply == [req |-> asked[s] + 1, lsn |-> 0]
  <2>1. /\ reply \in Reply /\ reply.req = asked[s] + 1
        /\ asked' = [asked EXCEPT ![s] = @ + 1]
        /\ Len(held[s]) \in Nat /\ Len(sent[s]) \in Nat
    BY <1>0, <1>8 DEF Reply, ProtocolFailure, Handles
  <2>2. ASSUME NEW t \in Sessions, t # s PROVE Numbered(t)'
    <3>1. sent'[t] = sent[t] /\ held'[t] = held[t] /\ asked'[t] = asked[t] /\ conn'[t] = conn[t]
      BY <1>0, <1>8, <2>1, <2>2 DEF ProtocolFailure, WriteAndEnd
    <3> QED BY <3>1 DEF AllNumbered, Numbered
  <2>3. CASE s \in holding
    <3>1. held' = [held EXCEPT ![s] = Append(@, reply)] /\ sent' = sent /\ conn' = conn
      BY <1>8, <2>3 DEF ProtocolFailure, WriteAndEnd
    <3> HIDE DEF reply
    <3>2. /\ Len(held'[s]) = Len(held[s]) + 1
          /\ DOMAIN held'[s] = 1 .. Len(held[s]) + 1 /\ DOMAIN held[s] = 1 .. Len(held[s])
          /\ held'[s][Len(held[s]) + 1] = reply
          /\ \A i \in 1 .. Len(held[s]) : held'[s][i] = held[s][i]
      BY <1>0, <2>1, <3>1, AppendOne
    <3>3. asked[s] \in Nat /\ asked'[s] = asked[s] + 1
      BY <1>0, <2>1
    <3>4. Numbered(s)
      BY DEF AllNumbered
    <3>5. ASSUME conn[s] = "open" PROVE Numbered(s)'
      <4>1. asked[s] = Len(sent[s]) + Len(held[s])
        BY <3>4, <3>5 DEF Numbered
      <4>2. \A i \in DOMAIN held[s] : held[s][i].req = Len(sent[s]) + i
        BY <3>4, <3>5 DEF Numbered
      <4>3. reply.req = Len(sent[s]) + (Len(held[s]) + 1)
        <5>1. \A m, n \in Nat : (m + n) + 1 = m + (n + 1)
          OBVIOUS
        <5> QED BY <2>1, <4>1, <5>1
      <4>4. \A i \in DOMAIN held'[s] : held'[s][i].req = Len(sent[s]) + i
        <5>1. Len(held[s]) \in Nat
          BY <2>1
        <5>2. ASSUME NEW i \in DOMAIN held'[s] PROVE i \in DOMAIN held[s] \/ i = Len(held[s]) + 1
          BY ONLY <3>2, <5>1, <5>2
        <5>3. ASSUME NEW i \in DOMAIN held[s] PROVE held'[s][i].req = Len(sent[s]) + i
          BY <3>2, <4>2, <5>3
        <5>4. held'[s][Len(held[s]) + 1].req = Len(sent[s]) + (Len(held[s]) + 1)
          BY <3>2, <4>3
        <5> QED BY <5>2, <5>3, <5>4
      <4>5. asked'[s] = Len(sent[s]) + Len(held'[s])
        <5>1. \A m, n \in Nat : (m + n) + 1 = m + (n + 1)
          OBVIOUS
        <5> QED BY <2>1, <3>2, <3>3, <4>1, <5>1
      <4> QED BY <3>1, <3>4, <4>4, <4>5 DEF Numbered
    <3>6. ASSUME conn[s] # "open" PROVE Numbered(s)'
      BY <3>1, <3>4, <3>6 DEF Numbered
    <3>8. Numbered(s)'
      BY <3>5, <3>6
    <3> QED BY <2>2, <3>8 DEF AllNumbered
  <2>4. CASE s \notin holding
    <3>1. /\ sent' = IF conn[s] = "open" THEN [sent EXCEPT ![s] = Append(@, reply)] ELSE sent
          /\ conn'[s] # "open"
      BY <1>0, <1>8, <2>4 DEF ProtocolFailure, WriteAndEnd
    <3>2. conn[s] = "open" => held[s] = <<>> /\ asked[s] = Len(sent[s])
      BY <1>0, <2>4 DEF HoldersWait, AllNumbered, Numbered
    <3> HIDE DEF reply
    <3>3. CASE conn[s] = "open"
      <4>1. /\ Len(sent'[s]) = Len(sent[s]) + 1
            /\ DOMAIN sent'[s] = 1 .. Len(sent[s]) + 1 /\ DOMAIN sent[s] = 1 .. Len(sent[s])
            /\ sent'[s][Len(sent[s]) + 1] = reply
            /\ \A i \in 1 .. Len(sent[s]) : sent'[s][i] = sent[s][i]
        BY <1>0, <2>1, <3>1, <3>3, AppendOne
      <4>2. \A i \in DOMAIN sent[s] : sent[s][i].req = i
        BY DEF AllNumbered, Numbered
      <4>3. reply.req = Len(sent[s]) + 1
        BY <2>1, <3>2, <3>3
      <4>4. \A i \in DOMAIN sent'[s] : sent'[s][i].req = i
        BY <2>1, <4>1, <4>2, <4>3
      <4>5. Numbered(s)'
        BY <3>1, <4>4 DEF Numbered
      <4> QED BY <2>2, <4>5 DEF AllNumbered
    <3>4. CASE conn[s] # "open"
      <4>1. Numbered(s)'
        BY <3>1, <3>4 DEF AllNumbered, Numbered
      <4> QED BY <2>2, <4>1 DEF AllNumbered
    <3> QED BY <3>3, <3>4
  <2> QED BY <2>3, <2>4
<1>9. ASSUME NEW s \in Sessions, Command(s) \/ CommandFails(s) PROVE AllNumbered'
  <2>1. PICK sockets \in {conn, Ended(conn)} : Write(s, lastLsn', sockets)
    BY <1>9 DEF Command, CommandFails
  <2>2. /\ sockets \in [Sessions -> {"none", "open", "ended", "destroyed", "closed"}]
        /\ \A t \in Sessions : sockets[t] = "open" => conn[t] = "open"
    BY <1>0, <2>1, EndedIsTyped DEF Ended
  <2>3. holding \subseteq holding' /\ asked' = [asked EXCEPT ![s] = @ + 1]
    BY <1>9 DEF Command, CommandFails, HoldUntilDurable, Handles
  <2>4. lastLsn' \in Nat
    BY <1>9 DEF TypeOK, Command, CommandFails, Dispatch, Flushed, Breaks, Appends, engineVars
  <2> QED BY <2>1, <2>2, <2>3, <2>4, WriteNumbers
<1> QED BY <1>1, <1>2, <1>3, <1>4, <1>5, <1>6, <1>7, <1>8, <1>9, NextCases

-----------------------------------------------------------------------------
(* Every variable keeps its type; the invariant behind the theorems.       *)
THEOREM CommitInvariant ==
    ASSUME ~ RecoverUnsynced PROVE Spec => [](CommitInv /\ AllNumbered)
<1>1. Init => CommitInv /\ AllNumbered
  <2>1. ASSUME Init PROVE TypeOK
    <3>1. <<>> \in Seq(Reply) /\ <<>> \in Seq(Sessions)
      OBVIOUS
    <3> QED BY <2>1, <3>1 DEF Init, TypeOK
  <2> QED BY <2>1 DEF Init, CommitInv, Committed, HeldShowsMemory, HoldersWait,
                      NothingShownIsLost, AllNumbered, Numbered
<1>2. CommitInv /\ AllNumbered /\ [Next]_vars => (CommitInv /\ AllNumbered)'
  BY TypeStep, CommittedStep, ShownStep, HoldersWaitStep, NumberedStep DEF CommitInv
<1> QED BY <1>1, <1>2, PTL DEF Spec

(* No reply shows what a power loss can still take away (session.ts        *)
(* holdUntilDurable and release, group-commit.ts run): for any number of   *)
(* connections, commands, flushes, failures, stops and crashes.            *)
THEOREM ShownIsStable ==
    ASSUME ~ RecoverUnsynced PROVE Spec => []NothingShownIsLost
<1>1. CommitInv => NothingShownIsLost
  BY DEF CommitInv
<1> QED BY <1>1, CommitInvariant, PTL

(* Replies reach a connection in the order of its messages, whatever is    *)
(* held and released in between (session.ts write and release).            *)
THEOREM OrderIsKept ==
    ASSUME ~ RecoverUnsynced PROVE Spec => []RepliesInOrder
<1>1. AllNumbered => RepliesInOrder
  BY DEF AllNumbered, Numbered, RepliesInOrder
<1> QED BY <1>1, CommitInvariant, PTL

(* Whoever holds a reply is in the committer's list and a run() is         *)
(* scheduled (group-commit.ts whenDurable).                                *)
THEOREM NoReplyForgotten ==
    ASSUME ~ RecoverUnsynced PROVE Spec => []HeldRepliesHaveARun
<1>1. CommitInv => HeldRepliesHaveARun
  BY DEF CommitInv, HoldersWait, HeldRepliesHaveARun
<1> QED BY <1>1, CommitInvariant, PTL
=============================================================================
