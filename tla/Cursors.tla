------------------------------- MODULE Cursors -------------------------------
(***************************************************************************)
(* A FindCursor of the driver (packages/driver/src/cursor.ts) over the     *)
(* CursorManager of its session (packages/server/src/cursor-manager.ts),   *)
(* which reads a collection that others change meanwhile (scan and         *)
(* candidates of packages/storage/src/in-memory-collection.ts).            *)
(*                                                                         *)
(* Several readers may share the FindCursor.  Each await of the driver is  *)
(* a point where the others run; each command of the server is one step.   *)
(* A document is its number, and whether it matches the filter of the find *)
(* is all that is known of it.  Requests are answered in order             *)
(* (GroupCommit), and an answer that comes too late is dropped             *)
(* (DriverClient).                                                         *)
(***************************************************************************)
EXTENDS Integers, Sequences, FiniteSets, SequencesExt

CONSTANTS
    Docs,           \* the documents: numbers, whose order is the sort order
    Size,           \* their encoded sizes
    MaxBatchBytes,  \* maxBatchBytes of the manager
    Queries,        \* the finds: records of plan, skip, limit and batch
    Contents,       \* the documents there are, and match, at first: a set of sets
    Readers,        \* concurrent users of the FindCursor
    Collectors,     \* those that read with toArray or for await; the others call next
    IdleTimeout,    \* idleTimeoutMS, in ticks
    MaxCursorId,    \* stands for Number.MAX_SAFE_INTEGER
    MaxCalls,       \* bound on the calls of the FindCursor
    MaxChanges,     \* bound on the changes of the collection
    MaxWork         \* bound on both together

Unlimited == -1
None == 0
Undefined == -1
Null == 0

ASSUME CursorConstants ==
    /\ Docs \subseteq Nat \ {0} /\ IsFiniteSet(Docs)
    /\ Size \in [Docs -> Nat \ {0}] /\ MaxBatchBytes \in Nat \ {0}
    /\ Queries \subseteq [plan : {"COLLSCAN", "IXSCAN", "SORT"}, skip : Nat,
                          limit : Nat \cup {Unlimited}, batch : Nat \ {0}]
    /\ Collectors \subseteq Readers
    /\ IdleTimeout \in Nat \ {0} /\ MaxCursorId \in Nat \ {0}
    /\ Contents \subseteq SUBSET Docs
    /\ MaxCalls \in Nat /\ MaxChanges \in Nat /\ MaxWork \in Nat
    /\ MaxCursorId >= MaxCalls

VARIABLES
    query,      \* what the find asks for, and the plan the server has for it
    at,         \* the collection's map: the order number of each entry, or None
    matching,   \* the documents that match the filter now
    changes,    \* how many changes were made
    cursors,    \* the manager's map from ids to cursors
    nextCursorId,
    link,       \* the connection: "up", "lost"
    toServer, toClient,
    buffer, cursorId, closed,   \* the fields of the FindCursor
    pc,         \* readers: "idle", "check", "take", "finally", or the answer they await:
                \* "find", "getMore", "closeCursor"
    request,    \* the request a reader awaits, or None
    sent,       \* how many requests were sent
    calls,      \* how many calls were made
    got,        \* how often next() returned each document
    steady,     \* the documents that have matched ever since the find ran
    reborn,     \* the documents that were inserted since
    excuse      \* what went wrong that the properties make an exception for

collection == <<query, at, matching, changes>>
manager == <<cursors, nextCursorId>>
fields == <<buffer, cursorId, closed>>
readers == <<pc, request, sent, calls>>
seen == <<got, steady, reborn, excuse>>
vars == <<collection, manager, link, toServer, toClient, fields, readers, seen>>

Present == {d \in Docs : at[d] # None}

Init ==
    /\ query \in Queries
    /\ matching \in Contents
    /\ at = [d \in Docs |-> IF d \in matching THEN d ELSE None]
    /\ changes = 0
    /\ cursors = <<>> /\ nextCursorId = 1
    /\ link = "up" /\ toServer = <<>> /\ toClient = <<>>
    /\ buffer = <<>> /\ cursorId = Undefined /\ closed = FALSE
    /\ pc = [r \in Readers |-> "idle"]
    /\ request = [r \in Readers |-> None] /\ sent = 0 /\ calls = 0
    /\ got = [d \in Docs |-> 0] /\ steady = {} /\ reborn = {} /\ excuse = {}

-----------------------------------------------------------------------------
(* The collection's other users.                                           *)

Change ==
    /\ changes < MaxChanges /\ calls + changes < MaxWork
    /\ changes' = changes + 1
    /\ UNCHANGED <<query, manager, link, toServer, toClient, fields, readers, got, excuse>>

(* put: a new document is the last of the map. *)
InsertDocument(d) ==
    /\ at[d] = None
    /\ at' = [at EXCEPT ![d] = Max(Docs) + changes + 1]
    /\ \/ matching' = matching \cup {d}
       \/ UNCHANGED matching
    /\ reborn' = reborn \cup {d}
    /\ UNCHANGED steady
    /\ Change

(* put: a document that is replaced keeps its place. *)
ReplaceDocument(d) ==
    /\ at[d] # None
    /\ matching' = IF d \in matching THEN matching \ {d} ELSE matching \cup {d}
    /\ steady' = steady \ {d}
    /\ UNCHANGED <<at, reborn>>
    /\ Change

RemoveDocument(d) ==
    /\ at[d] # None
    /\ at' = [at EXCEPT ![d] = None]
    /\ matching' = matching \ {d}
    /\ steady' = steady \ {d}
    /\ UNCHANGED reborn
    /\ Change

-----------------------------------------------------------------------------
(* scan, as the generator of a cursor: what it would yield if it ran on    *)
(* now, and where it is once it has yielded d.                             *)

InMapOrder(S) == SetToSortSeq(S, LAMBDA d, e : at[d] < at[e])
InSortOrder(S) == SetToSortSeq(S, LAMBDA d, e : d > e)

Slice(s, skip, limit) ==
    SubSeq(s, skip + 1, IF limit = Unlimited \/ skip + limit > Len(s) THEN Len(s) ELSE skip + limit)

(* A generator that has not begun: an index gives it the keys of all that  *)
(* match and maybe of others; a sort collects its result at once.          *)
Scan(keys) ==
    CASE query.plan = "COLLSCAN" ->
           [after |-> None, keys |-> <<>>, skip |-> query.skip, limit |-> query.limit]
      [] query.plan = "IXSCAN" ->
           [after |-> None, keys |-> InMapOrder(keys), skip |-> query.skip, limit |-> query.limit]
      [] query.plan = "SORT" ->
           [after |-> None, keys |-> Slice(InSortOrder(matching), query.skip, query.limit),
            skip |-> 0, limit |-> Unlimited]

Yields(it) ==
    CASE query.plan = "COLLSCAN" ->
           Slice(InMapOrder({d \in matching : at[d] > it.after}), it.skip, it.limit)
      [] query.plan = "IXSCAN" ->
           Slice(SelectSeq(it.keys, LAMBDA d : d \in matching), it.skip, it.limit)
      [] query.plan = "SORT" -> it.keys

(* Mutant: the scan goes on with the document it yielded. *)
ResumeAgain(it, d, yielded) ==
    [after |-> at[d] - 1,
     keys |-> SubSeq(it.keys, SelectInSeq(it.keys, LAMBDA e : e = d) + 1, Len(it.keys)),
     skip |-> 0,
     limit |-> IF it.limit = Unlimited THEN Unlimited ELSE it.limit - yielded]

Resume(it, d, yielded) ==
    [after |-> at[d],
     keys |-> SubSeq(it.keys, SelectInSeq(it.keys, LAMBDA e : e = d) + 1, Len(it.keys)),
     skip |-> 0,
     limit |-> IF it.limit = Unlimited THEN Unlimited ELSE it.limit - yielded]

-----------------------------------------------------------------------------
(* The CursorManager.                                                      *)

Bytes(s, n) == MapThenSumSet(LAMBDA i : Size[s[i]], 1 .. n)

(* Mutant: the document kept from the last batch is overwritten. *)
TakeBatchUnkept(it, kept) ==
    LET ahead == Yields(it)
        fits == {n \in 1 .. Len(ahead) :
                    n <= query.batch /\ (n = 1 \/ Bytes(ahead, n) <= MaxBatchBytes)}
        n == IF fits = {} THEN 0 ELSE Max(fits)
    IN  [docs |-> SubSeq(ahead, 1, n),
         done |-> n = Len(ahead),
         rest |-> IF n = Len(ahead) THEN <<>>
                  ELSE [kept |-> ahead[n + 1], age |-> 0,
                        scan |-> Resume(it, ahead[n + 1], n + 1)]]

(* takeBatch of a cursor: the kept document and those its scan yields      *)
(* next, as many as the size of the batch and the limit on its bytes       *)
(* allow, but at least one.  One more is kept for the next batch; a cursor *)
(* that has none is exhausted.                                             *)
TakeBatch(it, kept) ==
    LET before == IF kept = None THEN <<>> ELSE <<kept>>
        ahead == before \o Yields(it)
        fits == {n \in 1 .. Len(ahead) :
                    n <= query.batch /\ (n = 1 \/ Bytes(ahead, n) <= MaxBatchBytes)}
        n == IF fits = {} THEN 0 ELSE Max(fits)
    IN  [docs |-> SubSeq(ahead, 1, n),
         done |-> n = Len(ahead),
         rest |-> IF n = Len(ahead) THEN <<>>
                  ELSE [kept |-> ahead[n + 1], age |-> 0,
                        scan |-> Resume(it, ahead[n + 1], n + 1 - Len(before))]]

Answer(n, kind, id, docs) ==
    toClient' = Append(toClient, [n |-> n, kind |-> kind, id |-> id, docs |-> docs])

(* sweepExpired, as far as it changes a map of cursors. *)
Unexpired == {i \in DOMAIN cursors : cursors[i].age < IdleTimeout}

Without(m, i) == [j \in DOMAIN m \ {i} |-> m[j]]

(* allocateCursorId: the next id that no cursor has. *)
AllocateCursorId(i) ==
    LET Distance(j) == (j - nextCursorId) % MaxCursorId
        free == 1 .. MaxCursorId \ Unexpired
    IN  i \in free /\ \A j \in free : Distance(i) <= Distance(j)

AdvanceCursorId(i) == (i % MaxCursorId) + 1

(* The command find: open of the manager. *)
Find(m) ==
    \E keys \in IF query.plan = "IXSCAN" THEN {S \in SUBSET Present : matching \subseteq S} ELSE {{}} :
        LET batch == TakeBatch(Scan(keys), None)
            live == Restrict(cursors, Unexpired)
        IN  /\ steady' = matching /\ reborn' = {}
            /\ \/ /\ batch.done
                  /\ cursors' = live
                  /\ Answer(m.n, "batch", Null, batch.docs)
                  /\ UNCHANGED nextCursorId
               \/ /\ ~ batch.done
                  /\ \E i \in 1 .. MaxCursorId :
                        /\ AllocateCursorId(i)
                        /\ cursors' = live @@ (i :> batch.rest)
                        /\ nextCursorId' = AdvanceCursorId(i)
                        /\ Answer(m.n, "batch", i, batch.docs)

(* Mutant: a cursor that is exhausted by getMore stays in the map. *)
GetMoreKeeps(m) ==
    LET live == Restrict(cursors, Unexpired)
    IN  /\ UNCHANGED <<nextCursorId, steady, reborn>>
        /\ IF m.id \notin Unexpired
           THEN cursors' = live /\ Answer(m.n, "error", Null, <<>>)
           ELSE LET batch == TakeBatch(cursors[m.id].scan, cursors[m.id].kept)
                IN  IF batch.done
                    THEN cursors' = live /\ Answer(m.n, "batch", Null, batch.docs)
                    ELSE /\ cursors' = [live EXCEPT ![m.id] = batch.rest]
                         /\ Answer(m.n, "batch", m.id, batch.docs)

GetMore(m) ==
    LET live == Restrict(cursors, Unexpired)
    IN  /\ UNCHANGED <<nextCursorId, steady, reborn>>
        /\ IF m.id \notin Unexpired
           THEN cursors' = live /\ Answer(m.n, "error", Null, <<>>)
           ELSE LET batch == TakeBatch(cursors[m.id].scan, cursors[m.id].kept)
                IN  IF batch.done
                    THEN cursors' = Without(live, m.id) /\ Answer(m.n, "batch", Null, batch.docs)
                    ELSE /\ cursors' = [live EXCEPT ![m.id] = batch.rest]
                         /\ Answer(m.n, "batch", m.id, batch.docs)

CloseCursor(m) ==
    /\ cursors' = Without(cursors, m.id)
    /\ Answer(m.n, "closed", Null, <<>>)
    /\ UNCHANGED <<nextCursorId, steady, reborn>>

Serve ==
    /\ toServer # <<>>
    /\ toServer' = Tail(toServer)
    /\ LET m == Head(toServer)
       IN  CASE m.kind = "find" -> Find(m)
             [] m.kind = "getMore" -> GetMore(m)
             [] m.kind = "closeCursor" -> CloseCursor(m)
    /\ UNCHANGED <<collection, link, fields, readers, got, excuse>>

(* Time passes. *)
Tick ==
    /\ \E i \in DOMAIN cursors : cursors[i].age < IdleTimeout
    /\ cursors' = [i \in DOMAIN cursors |->
                     [cursors[i] EXCEPT !.age = IF @ < IdleTimeout THEN @ + 1 ELSE @]]
    /\ UNCHANGED <<collection, nextCursorId, link, toServer, toClient, fields, readers, seen>>

(* Mutant: there is no timer; only commands sweep. *)
SweepUnasked ==
    /\ toServer # <<>> /\ Unexpired # DOMAIN cursors
    /\ cursors' = Restrict(cursors, Unexpired)
    /\ UNCHANGED <<collection, nextCursorId, link, toServer, toClient, fields, readers, seen>>

(* The session's timer. *)
Sweep ==
    /\ Unexpired # DOMAIN cursors
    /\ cursors' = Restrict(cursors, Unexpired)
    /\ UNCHANGED <<collection, nextCursorId, link, toServer, toClient, fields, readers, seen>>

-----------------------------------------------------------------------------
(* The FindCursor.                                                         *)

Awaits(r) == pc[r] \in {"find", "getMore", "closeCursor"}

Send(r, kind, id) ==
    /\ sent' = sent + 1
    /\ request' = [request EXCEPT ![r] = sent + 1]
    /\ toServer' = Append(toServer, [n |-> sent + 1, kind |-> kind, id |-> id])

(* Where a reader is when its next() has returned null or thrown: toArray  *)
(* closes the cursor.                                                      *)
Leaves(r) == IF r \in Collectors THEN "finally" ELSE "idle"

(* A turn of the loop of hasNext: there is a document, there will be none, *)
(* or the next batch is asked for.                                         *)
HasNext(r) ==
    /\ \/ /\ buffer # <<>>
          /\ pc' = [pc EXCEPT ![r] = "take"]
          /\ UNCHANGED <<request, sent, toServer, excuse>>
       \/ /\ buffer = <<>>
          /\ closed \/ cursorId = Null \/ link = "lost"
          /\ pc' = [pc EXCEPT ![r] = Leaves(r)]
          /\ UNCHANGED <<request, sent, toServer, excuse>>
       \/ /\ buffer = <<>>
          /\ ~ closed /\ cursorId # Null /\ link = "up"
          /\ LET kind == IF cursorId = Undefined THEN "find" ELSE "getMore"
             IN  /\ pc' = [pc EXCEPT ![r] = kind]
                 /\ Send(r, kind, cursorId)
                 /\ excuse' = IF kind = "find" /\ sent > 0 THEN excuse \cup {"refind"} ELSE excuse
    /\ UNCHANGED <<collection, manager, link, toClient, fields, got, steady, reborn>>

Read(r) ==
    /\ pc[r] = "idle" /\ calls < MaxCalls /\ calls + changes < MaxWork
    /\ calls' = calls + 1
    /\ HasNext(r)

Check(r) ==
    /\ pc[r] = "check"
    /\ HasNext(r)
    /\ UNCHANGED calls

(* next, after hasNext: another reader, or close, may have been faster.    *)
Take(r) ==
    /\ pc[r] = "take"
    /\ IF buffer = <<>>
       THEN /\ pc' = [pc EXCEPT ![r] = Leaves(r)]
            /\ UNCHANGED <<got, buffer>>
       ELSE /\ pc' = [pc EXCEPT ![r] = IF r \in Collectors THEN "check" ELSE "idle"]
            /\ got' = [got EXCEPT ![Head(buffer)] = @ + 1]
            /\ buffer' = Tail(buffer)
    /\ UNCHANGED <<collection, manager, link, toServer, toClient, cursorId, closed,
                   request, sent, calls, steady, reborn, excuse>>

(* close, called or at the end of toArray. *)
Close(r) ==
    /\ \/ /\ pc[r] = "idle" /\ calls < MaxCalls /\ calls + changes < MaxWork
          /\ calls' = calls + 1
       \/ pc[r] = "finally" /\ UNCHANGED calls
    /\ closed' = TRUE
    /\ IF closed
       THEN /\ pc' = [pc EXCEPT ![r] = "idle"]
            /\ UNCHANGED <<buffer, cursorId, request, sent, toServer, excuse>>
       ELSE /\ buffer' = <<>> /\ cursorId' = Null
            /\ IF cursorId \notin {Undefined, Null} /\ link = "up"
               THEN pc' = [pc EXCEPT ![r] = "closeCursor"] /\ Send(r, "closeCursor", cursorId)
               ELSE pc' = [pc EXCEPT ![r] = "idle"] /\ UNCHANGED <<request, sent, toServer>>
            /\ excuse' = IF \E q \in Readers : pc[q] = "find" THEN excuse \cup {"stray"} ELSE excuse
    /\ UNCHANGED <<collection, manager, link, toClient, got, steady, reborn>>

(* An answer arrives.  fetchBatch takes a batch as it comes, whatever has  *)
(* happened to the FindCursor since it asked.                              *)
Receive ==
    /\ toClient # <<>>
    /\ toClient' = Tail(toClient)
    /\ LET m == Head(toClient)
           waiting == {r \in Readers : request[r] = m.n}
       IN  /\ request' = [r \in Readers |-> IF r \in waiting THEN None ELSE request[r]]
           /\ pc' = [r \in Readers |-> IF r \notin waiting THEN pc[r]
                                        ELSE CASE m.kind = "batch" -> "check"
                                               [] m.kind = "error" -> Leaves(r)
                                               [] m.kind = "closed" -> "idle"]
           /\ IF waiting # {} /\ m.kind = "batch"
              THEN cursorId' = m.id /\ buffer' = buffer \o m.docs
              ELSE UNCHANGED <<cursorId, buffer>>
    /\ UNCHANGED <<collection, manager, link, toServer, closed, sent, calls, seen>>

(* Mutant: the request of close() has no timer. *)
FailsReads(S) ==
    LET T == {r \in S : pc[r] # "closeCursor"}
    IN  /\ request' = [r \in Readers |-> IF r \in T THEN None ELSE request[r]]
        /\ pc' = [r \in Readers |-> IF r \in T THEN Leaves(r) ELSE pc[r]]

Fails(S) ==
    /\ request' = [r \in Readers |-> IF r \in S THEN None ELSE request[r]]
    /\ pc' = [r \in Readers |-> IF r \notin S THEN pc[r]
                                 ELSE IF pc[r] = "closeCursor" THEN "idle" ELSE Leaves(r)]

(* The timer of a request fires: its answer will be dropped. *)
TimesOut(r) ==
    /\ Awaits(r)
    /\ Fails({r})
    /\ excuse' = CASE pc[r] = "find" -> excuse \cup {"stray"}
                   [] pc[r] = "getMore" -> excuse \cup {"lost"}
                   [] OTHER -> excuse
    /\ UNCHANGED <<collection, manager, link, toServer, toClient, fields, sent, calls,
                   got, steady, reborn>>

(* The connection closes, at both ends: the session drops its cursors, and *)
(* every request fails.                                                    *)
ConnectionLost ==
    /\ link = "up"
    /\ link' = "lost"
    /\ cursors' = <<>> /\ toServer' = <<>> /\ toClient' = <<>>
    /\ Fails({r \in Readers : Awaits(r)})
    /\ UNCHANGED <<collection, nextCursorId, fields, sent, calls, seen>>

-----------------------------------------------------------------------------
Next ==
    \/ \E d \in Docs : InsertDocument(d) \/ ReplaceDocument(d) \/ RemoveDocument(d)
    \/ Serve \/ Tick \/ Sweep \/ Receive \/ ConnectionLost
    \/ \E r \in Readers : Read(r) \/ Check(r) \/ Take(r) \/ Close(r) \/ TimesOut(r)

(* Microtasks run, the timers of requests and of the session fire, and     *)
(* time passes.                                                            *)
Fairness ==
    /\ WF_vars(Tick) /\ WF_vars(Sweep)
    /\ \A r \in Readers :
          /\ WF_vars(Check(r)) /\ WF_vars(Take(r)) /\ WF_vars(TimesOut(r))
          /\ WF_vars(pc[r] = "finally" /\ Close(r))

Spec == Init /\ [][Next]_vars /\ Fairness

-----------------------------------------------------------------------------
Iterators ==
    [after : Nat, keys : Seq(Docs), skip : Nat, limit : Nat \cup {Unlimited}]

(* Every variable keeps its type. *)
TypeOK ==
    /\ query \in Queries
    /\ at \in [Docs -> Nat] /\ matching \subseteq Present
    /\ changes \in 0 .. MaxChanges
    /\ DOMAIN cursors \subseteq 1 .. MaxCursorId
    /\ \A i \in DOMAIN cursors :
          cursors[i] \in [kept : Docs, age : 0 .. IdleTimeout, scan : Iterators]
    /\ nextCursorId \in 1 .. MaxCursorId
    /\ link \in {"up", "lost"}
    /\ toServer \in Seq([n : 1 .. sent, kind : {"find", "getMore", "closeCursor"},
                         id : Undefined .. MaxCursorId])
    /\ toClient \in Seq([n : 1 .. sent, kind : {"batch", "error", "closed"},
                         id : 0 .. MaxCursorId, docs : Seq(Docs)])
    /\ buffer \in Seq(Docs) /\ cursorId \in Undefined .. MaxCursorId /\ closed \in BOOLEAN
    /\ pc \in [Readers -> {"idle", "check", "take", "finally", "find", "getMore", "closeCursor"}]
    /\ sent \in Nat /\ request \in [Readers -> 0 .. sent] /\ calls \in 0 .. MaxCalls
    /\ got \in [Docs -> Nat] /\ steady \subseteq Docs /\ reborn \subseteq Docs
    /\ excuse \subseteq {"refind", "lost", "stray"}

InBuffer(d) == Cardinality({i \in DOMAIN buffer : buffer[i] = d})
Delivered == MapThenSumSet(LAMBDA d : got[d] + InBuffer(d), Docs)

(* A FindCursor that is at its end has delivered every document that       *)
(* matched from the find to the end, but for those the find skips and      *)
(* those beyond its limit, whatever else was inserted, replaced and        *)
(* removed meanwhile, however the batches were cut, and also when several  *)
(* readers fetched at once.  Not so when the answer to a getMore came too  *)
(* late: the next one goes on behind it.                                   *)
NothingSkipped ==
    cursorId = Null /\ ~ closed /\ excuse = {} =>
        \/ query.limit # Unlimited /\ Delivered = query.limit
        \/ Cardinality({d \in steady : got[d] + InBuffer(d) = 0}) <= query.skip

(* No document is delivered twice, nor more of them than the limit, unless *)
(* the find was sent twice.  A scan of the collection meets a document     *)
(* again that was removed and inserted behind it; a scan of an index and a *)
(* sorted result do not.                                                   *)
NothingTwice ==
    /\ TypeOK
    /\ "refind" \notin excuse =>
         /\ \A d \in Docs :
               got[d] + InBuffer(d) > 1 => query.plan = "COLLSCAN" /\ d \in reborn
         /\ query.limit # Unlimited => Delivered <= query.limit

(* A closed FindCursor leaves no cursor behind on the server, whatever     *)
(* other readers were doing, once its closeCursor was read (cursor.ts:     *)
(* 110-112 "Closes the cursor and releases it on the server").  Not so     *)
(* when a find was unanswered, whose cursor has no id yet.                 *)
ClosedReleases ==
    /\ closed /\ link = "up" /\ excuse \cap {"refind", "stray"} = {}
    /\ \A i \in DOMAIN toServer : toServer[i].kind # "closeCursor"
    => DOMAIN cursors = {}

(* Every cursor of the server goes: exhausted, closed, expired, or with    *)
(* its connection (docs/limitations.md:86-87).                             *)
CursorsExpire ==
    \A i \in 1 .. MaxCursorId : i \in DOMAIN cursors ~> i \notin DOMAIN cursors

(* next(), toArray() and close() return or throw. *)
ReadsReturn == \A r \in Readers : pc[r] # "idle" ~> pc[r] = "idle"
=============================================================================
