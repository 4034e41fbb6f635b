--------------------------- MODULE StorageEngine ---------------------------
(***************************************************************************)
(* The storage engine (packages/storage/src/engine/storage-engine.ts and   *)
(* checkpoint.ts, with the journaled operations of                         *)
(* in-memory-collection.ts): writes, the checkpoints that run before,      *)
(* between and during them, retention, truncation of the log, close,       *)
(* crashes and recovery.                                                   *)
(*                                                                         *)
(* Below it is the log as DurableLog promises it.  The engine runs on one  *)
(* thread: a step of a call or of a checkpoint that is not written in the  *)
(* background only interleaves with crashes.  The data is one collection   *)
(* whose documents carry one indexed value.                                *)
(***************************************************************************)
EXTENDS Integers, Sequences, FiniteSetsExt, Functions

CONSTANTS
    Keys, Values,       \* document ids, and values of the indexed field
    Absent,             \* no document has this key
    Indexes,            \* index names
    Definitions,        \* what they may be created as: "plain" or "unique"
    Retention,          \* checkpointRetention
    DueFor,             \* the operations whose append may find a checkpoint due
    Failures,           \* the failures that happen: a subset of AllFailures
    Crashes,            \* {"process"}, {"power"} or both
    MaxRecords,         \* bound on the log
    MaxCrashes,         \* bound on the crashes
    MaxDamage           \* bound on the snapshots the disk damages

(* "full": log.append fails and leaves no trace.  "break": it breaks the   *)
(* log.  The others fail one part of a checkpoint.                         *)
AllFailures == {"full", "break", "sync", "write", "directory", "prune", "truncate"}

OperationNames == {"createCollection", "put", "delete", "createIndex", "dropIndex"}

ASSUME EngineConstants ==
    /\ Absent \notin Values
    /\ Definitions \subseteq {"plain", "unique"}
    /\ Retention \in Nat /\ Retention >= 2
    /\ DueFor \subseteq OperationNames
    /\ Failures \subseteq AllFailures
    /\ Crashes \subseteq {"process", "power"}
    /\ MaxRecords \in Nat /\ MaxCrashes \in Nat /\ MaxDamage \in Nat

VARIABLES
    recs,       \* the operations in the log, by LSN
    hard,       \* how many of them are on stable storage
    first,      \* log.firstLsn: records below it are removed
    doubt,      \* the operation whose append broke the log
    broken,     \* the log is broken: "yes" or "no"
    snaps,      \* the snapshot files, by LSN
    mem,        \* the collection in memory
    last,       \* lastCheckpoint
    ckpt,       \* the checkpoint that is running
    call,       \* the call that is running
    status,     \* "open"; "down": no process; "refused": open() threw
    crashes, damage

vars == <<recs, hard, first, doubt, broken, snaps, mem, last, ckpt, call, status,
          crashes, damage>>
logVars == <<recs, hard, first, doubt, broken>>

-----------------------------------------------------------------------------
(* The data and its operations.                                            *)

Empty == [made |-> FALSE, docs |-> [k \in Keys |-> Absent],
          idx |-> [i \in Indexes |-> "none"], sound |-> TRUE]

(* The operations of one record.  insertMany, updateMany and deleteMany    *)
(* write one record for all their documents.                               *)
Operation ==
    [op : {"createCollection"}]
    \cup [op : {"put"}, keys : (SUBSET Keys) \ {{}}, value : Values]
    \cup [op : {"delete"}, keys : (SUBSET Keys) \ {{}}]
    \cup [op : {"createIndex"}, index : Indexes, def : Definitions]
    \cup [op : {"dropIndex"}, index : Indexes]

(* Two documents with one value under a unique index. *)
Conflicts(data) ==
    /\ \E i \in Indexes : data.idx[i] = "unique"
    /\ \E k, l \in Keys : k # l /\ data.docs[k] = data.docs[l] /\ data.docs[k] # Absent

WithDocs(docs, keys, value) == [k \in Keys |-> IF k \in keys THEN value ELSE docs[k]]

(* What a write or recovery does with an operation.  sound turns FALSE     *)
(* where recovery throws: an unknown collection, an index that exists with *)
(* another definition, a dropped index that does not.                      *)
Apply(data, o) ==
    CASE o.op = "createCollection" -> [data EXCEPT !.made = TRUE]
      [] o.op = "put" ->
            [data EXCEPT !.docs = WithDocs(@, o.keys, o.value), !.sound = @ /\ data.made]
      [] o.op = "delete" ->
            [data EXCEPT !.docs = WithDocs(@, o.keys, Absent), !.sound = @ /\ data.made]
      [] o.op = "createIndex" ->
            [data EXCEPT !.idx[o.index] = IF @ = "none" THEN o.def ELSE @,
                         !.sound = @ /\ data.made /\ data.idx[o.index] \in {"none", o.def}]
      [] o.op = "dropIndex" ->
            [data EXCEPT !.idx[o.index] = "none",
                         !.sound = @ /\ data.made /\ data.idx[o.index] # "none"]

(* What the data is after each of the operations. *)
Replays(data, ops) ==
    LET after[n \in 0 .. Len(ops)] == IF n = 0 THEN data ELSE Apply(after[n - 1], ops[n])
    IN  after

Replay(data, ops) == Replays(data, ops)[Len(ops)]

(* The operations a caller gets as far as the journal with. *)
Accepts(o) ==
    /\ o.op = "createCollection" <=> ~ mem.made
    /\ o.op = "put" => ~ Conflicts(Apply(mem, o))
    /\ o.op = "delete" => \A k \in o.keys : mem.docs[k] # Absent
    /\ o.op = "createIndex" => mem.idx[o.index] = "none" /\ ~ Conflicts(Apply(mem, o))
    /\ o.op = "dropIndex" => mem.idx[o.index] # "none"

-----------------------------------------------------------------------------
Init ==
    /\ recs = <<>> /\ hard = 0 /\ first = 1 /\ doubt = <<>> /\ broken = "no"
    /\ snaps = << >> /\ mem = Empty /\ last = 0
    /\ ckpt = [phase |-> "none"] /\ call = [step |-> "none"]
    /\ status = "down"
    /\ crashes = 0 /\ damage = 0

(* A checkpoint that does not yield holds the thread. *)
Busy == ckpt.phase # "none" /\ (ckpt.kind = "sync" \/ ckpt.phase # "writing")

(* One in the background goes on when the thread is free. *)
Turn == ckpt.kind = "background" => call.step = "none"

Idle == status = "open" /\ call.step = "none" /\ ~ Busy

NoCheckpoint == ckpt' = [phase |-> "none"]

(* A write comes to engine.append.  createIndex has built its index by     *)
(* then; every other operation reaches memory after the log.               *)
StartWrite(o) ==
    /\ Idle
    /\ Len(recs) < MaxRecords
    /\ Accepts(o)
    /\ call' = [step |-> "due", op |-> o]
    /\ mem' = IF o.op = "createIndex" THEN Apply(mem, o) ELSE mem
    /\ UNCHANGED <<logVars, snaps, last, ckpt, status, crashes, damage>>

(* beginCheckpoint: nothing new to write; or log.sync(), and a copy of     *)
(* memory.                                                                 *)
NothingNew == Len(recs) = 0 \/ Len(recs) = last

(* Mutant: the log is not flushed before the snapshot is written. *)
BeginUnflushed(kind) ==
    /\ ~ NothingNew
    /\ broken = "no"
    /\ ckpt' = [phase |-> "writing", kind |-> kind, lsn |-> Len(recs), data |-> mem]
    /\ UNCHANGED logVars

Begin(kind) ==
    /\ ~ NothingNew
    /\ broken = "no"
    /\ hard' = Len(recs)
    /\ ckpt' = [phase |-> "writing", kind |-> kind, lsn |-> Len(recs), data |-> mem]
    /\ UNCHANGED <<recs, first, doubt, broken>>

(* log.sync() throws, because the log is broken or breaks now. *)
BeginFails ==
    /\ ~ NothingNew
    /\ broken = "yes" \/ "sync" \in Failures
    /\ broken' = "yes"
    /\ UNCHANGED <<recs, hard, first, doubt>>

(* runDueCheckpoint: not due, or one runs already; or begin one, whose     *)
(* failure is kept from the write.  One that goes to the background but is *)
(* done before it yields is a "sync" one.                                  *)
Due ==
    /\ status = "open" /\ call.step = "due"
    /\ call' = [call EXCEPT !.step = "append"]
    /\ \/ UNCHANGED <<logVars, ckpt>>
       \/ /\ call.op.op \in DueFor /\ ckpt.phase = "none"
          /\ \/ \E kind \in {"sync", "background"} : Begin(kind)
             \/ BeginFails /\ UNCHANGED ckpt
    /\ UNCHANGED <<snaps, mem, last, status, crashes, damage>>

(* Mutant: an index whose record was refused stays. *)
UndoNothing(o) == mem

(* log.append, and what the caller does next: the operation is applied, or *)
(* the index that was built for it is removed.                             *)
Undo(o) == IF o.op = "createIndex" THEN [mem EXCEPT !.idx[o.index] = "none"] ELSE mem

AppendOk ==
    /\ broken = "no"
    /\ recs' = Append(recs, call.op)
    /\ hard' \in {hard, Len(recs), Len(recs')}
    /\ mem' = IF call.op.op = "createIndex" THEN mem ELSE Apply(mem, call.op)
    /\ UNCHANGED <<first, doubt, broken>>

AppendFails ==
    /\ \/ broken = "yes" /\ UNCHANGED logVars
       \/ broken = "no" /\ "full" \in Failures /\ UNCHANGED logVars
       \/ /\ broken = "no" /\ "break" \in Failures
          /\ broken' = "yes" /\ doubt' = <<call.op>>
          /\ UNCHANGED <<recs, hard, first>>
    /\ mem' = Undo(call.op)

FinishWrite ==
    /\ status = "open" /\ call.step = "append" /\ ~ Busy
    /\ AppendOk \/ AppendFails
    /\ call' = [step |-> "none"]
    /\ UNCHANGED <<snaps, last, ckpt, status, crashes, damage>>

(* engine.commit(), or a flush of the operating system's own. *)
Flush ==
    /\ Idle /\ broken = "no" /\ hard < Len(recs)
    /\ hard' = Len(recs)
    /\ UNCHANGED <<recs, first, doubt, broken, snaps, mem, last, ckpt, call, status,
                   crashes, damage>>

(* checkpoint() cancels the one in the background; checkpointAsync() joins *)
(* it.  Both are called between writes, by the timer or by the program.    *)
Checkpoint(kind) ==
    /\ Idle
    /\ kind = "background" => ckpt.phase = "none"
    /\ \/ Begin(kind)
       \/ BeginFails /\ NoCheckpoint
    /\ UNCHANGED <<snaps, mem, last, call, status, crashes, damage>>

-----------------------------------------------------------------------------
(* The rest of a checkpoint.                                               *)

(* A snapshot file: its data, whether it can be read, and what the power   *)
(* would leave under its name.                                             *)
Snapshot(data, file, lost) == [data |-> data, file |-> file, lost |-> lost]

(* The directory with a file renamed to the name of n. *)
WithSnapshot(n, snapshot) ==
    [m \in DOMAIN snaps \cup {n} |-> IF m = n THEN snapshot ELSE snaps[m]]

(* What the power would leave under the name of a snapshot that is renamed *)
(* now, until the directory is flushed: nothing, a damaged file that had   *)
(* the name, or itself.                                                    *)
Beneath(n) ==
    IF n \notin DOMAIN snaps THEN "none"
    ELSE IF snaps[n].lost # "self" THEN snaps[n].lost
    ELSE IF snaps[n].file = "good" THEN "self" ELSE "damaged"

(* Mutant: the background writes the live collection, not a copy. *)
RenameLive ==
    /\ ckpt.phase = "writing" /\ Turn
    /\ ckpt' = [ckpt EXCEPT !.phase = "renamed"]
    /\ snaps' = WithSnapshot(ckpt.lsn, Snapshot(mem, "good", Beneath(ckpt.lsn)))
    /\ UNCHANGED <<logVars, mem, last, call, status, crashes, damage>>

(* The snapshot is written and flushed under a temporary name, then        *)
(* renamed.                                                                *)
Rename ==
    /\ ckpt.phase = "writing" /\ Turn
    /\ ckpt' = [ckpt EXCEPT !.phase = "renamed"]
    /\ snaps' = WithSnapshot(ckpt.lsn, Snapshot(ckpt.data, "good", Beneath(ckpt.lsn)))
    /\ UNCHANGED <<logVars, mem, last, call, status, crashes, damage>>

(* A failed write removes the temporary file. *)
WriteFails ==
    /\ ckpt.phase = "writing" /\ Turn /\ "write" \in Failures
    /\ NoCheckpoint
    /\ UNCHANGED <<logVars, snaps, mem, last, call, status, crashes, damage>>

Settled == [n \in DOMAIN snaps |-> Snapshot(snaps[n].data, snaps[n].file, "self")]

(* Mutant: a failed flush of the directory starts the snapshot again. *)
SyncDirectoryRetried ==
    /\ ckpt.phase = "renamed"
    /\ \/ /\ ckpt' = [ckpt EXCEPT !.phase = "published"]
          /\ snaps' = Settled
       \/ /\ "directory" \in Failures
          /\ ckpt' = [ckpt EXCEPT !.phase = "writing"]
          /\ UNCHANGED snaps
    /\ UNCHANGED <<logVars, mem, last, call, status, crashes, damage>>

SyncDirectory ==
    /\ ckpt.phase = "renamed"
    /\ \/ /\ ckpt' = [ckpt EXCEPT !.phase = "published"]
          /\ snaps' = Settled
       \/ /\ "directory" \in Failures
          /\ NoCheckpoint
          /\ UNCHANGED snaps
    /\ UNCHANGED <<logVars, mem, last, call, status, crashes, damage>>

(* finishCheckpoint.  listCheckpoints, newest first, damaged ones included *)
Newer(n) == {m \in DOMAIN snaps : m > n}
Surplus == {n \in DOMAIN snaps : Cardinality(Newer(n)) >= Retention}

(* Mutant: the log is truncated through the newest snapshot. *)
NewestKept == {n \in DOMAIN snaps : Newer(n) = {}}

OldestKept == {n \in DOMAIN snaps : Cardinality(Newer(n)) = Retention - 1}

Prune ==
    /\ ckpt.phase = "published"
    /\ \/ /\ ckpt' = [ckpt EXCEPT !.phase = "pruned"]
          /\ snaps' = Restrict(snaps, DOMAIN snaps \ Surplus)
       \/ /\ "prune" \in Failures
          /\ \E n \in Surplus : snaps' = Restrict(snaps, DOMAIN snaps \ (Surplus \cap Newer(n)))
          /\ NoCheckpoint
    /\ UNCHANGED <<logVars, mem, last, call, status, crashes, damage>>

(* truncateThrough removes whole segments, so the log then starts at any   *)
(* segment boundary up to the record after the oldest kept snapshot.       *)
Truncate ==
    /\ ckpt.phase = "pruned"
    /\ \/ /\ broken = "no" \/ OldestKept = {}
          /\ first' \in {first} \cup UNION {first .. n + 1 : n \in OldestKept}
          /\ last' = ckpt.lsn
       \/ /\ broken = "yes" \/ "truncate" \in Failures
          /\ first' \in {first} \cup
                IF broken = "yes" THEN {} ELSE UNION {first .. n + 1 : n \in OldestKept}
          /\ UNCHANGED last
    /\ NoCheckpoint
    /\ UNCHANGED <<recs, hard, doubt, broken, snaps, mem, call, status, crashes, damage>>

-----------------------------------------------------------------------------
(* close: cancel the background checkpoint, write a last one, close the    *)
(* log, whatever fails.                                                    *)
Close ==
    /\ Idle
    /\ call' = [step |-> "close"]
    /\ \/ last < Len(recs) /\ Begin("sync")
       \/ last < Len(recs) /\ BeginFails /\ NoCheckpoint
       \/ last >= Len(recs) /\ NoCheckpoint /\ UNCHANGED logVars
    /\ UNCHANGED <<snaps, mem, last, status, crashes, damage>>

Forget ==
    /\ status' = "down"
    /\ mem' = Empty /\ last' = 0
    /\ broken' = "no" /\ doubt' = <<>>
    /\ NoCheckpoint /\ call' = [step |-> "none"]

CloseLog ==
    /\ call.step = "close" /\ ckpt.phase = "none"
    /\ hard' \in {hard} \cup IF broken = "no" THEN {Len(recs)} ELSE {}
    /\ recs' \in {recs, recs \o doubt}
    /\ Forget
    /\ UNCHANGED <<first, snaps, crashes, damage>>

(* A crash may keep the record that was being written.  The power takes    *)
(* what is not stable: records from the end, and the new names of          *)
(* snapshots.                                                              *)
Reverted ==
    [n \in {m \in DOMAIN snaps : snaps[m].lost # "none"} |->
        Snapshot(snaps[n].data,
                 IF snaps[n].lost = "self" THEN snaps[n].file ELSE "damaged", "self")]

InFlight == IF call.step = "append" /\ broken = "no" THEN <<call.op>> ELSE doubt

Crash(kind) ==
    /\ status = "open" /\ crashes < MaxCrashes
    /\ \E n \in IF kind = "process" THEN Len(recs) .. Len(recs \o InFlight)
                ELSE hard .. Len(recs \o InFlight) :
          /\ recs' = SubSeq(recs \o InFlight, 1, n)
          /\ hard' = IF kind = "process" THEN hard ELSE n
    /\ snaps' \in IF kind = "process" THEN {snaps} ELSE {Settled, Reverted}
    /\ Forget
    /\ crashes' = crashes + 1
    /\ UNCHANGED <<first, damage>>

(* The disk damages the newest snapshot. *)
Damage ==
    /\ damage < MaxDamage
    /\ damage' = damage + 1
    /\ \E n \in DOMAIN snaps :
          /\ Newer(n) = {} /\ snaps[n].file = "good"
          /\ snaps' = WithSnapshot(n, Snapshot(snaps[n].data, "damaged", snaps[n].lost))
    /\ UNCHANGED <<logVars, mem, last, ckpt, call, status, crashes>>

(* recover: the newest snapshot that can be read, the records after it,    *)
(* the indexes rebuilt from the documents.                                 *)
Readable == {n \in DOMAIN snaps : snaps[n].file = "good"}
Base == IF Readable = {} THEN 0 ELSE Max(Readable)
Recovered ==
    Replay(IF Base = 0 THEN Empty ELSE snaps[Base].data, SubSeq(recs, Base + 1, Len(recs)))

Refuses ==
    \/ first > Base + 1
    \/ Len(recs) < Base
    \/ ~ Recovered.sound
    \/ Conflicts(Recovered)

Open ==
    /\ status = "down"
    /\ IF Refuses
       THEN /\ status' = "refused"
            /\ UNCHANGED <<mem, last>>
       ELSE /\ status' = "open"
            /\ mem' = Recovered
            /\ last' = Base
    /\ UNCHANGED <<logVars, snaps, ckpt, call, crashes, damage>>

-----------------------------------------------------------------------------
CheckpointStep == Rename \/ WriteFails \/ SyncDirectory \/ Prune \/ Truncate

Next ==
    \/ \E o \in Operation : StartWrite(o)
    \/ Due \/ FinishWrite \/ Flush
    \/ \E kind \in {"sync", "background"} : Checkpoint(kind)
    \/ CheckpointStep
    \/ Close \/ CloseLog \/ Open \/ Damage
    \/ \E kind \in Crashes : Crash(kind)

Spec == Init /\ [][Next]_vars

(* A call goes on until it returns; setImmediate brings a checkpoint that  *)
(* has yielded back between two calls, however many of them there are.     *)
FairSpec ==
    /\ Spec
    /\ SF_vars(CheckpointStep)
    /\ WF_vars(Due) /\ WF_vars(FinishWrite) /\ WF_vars(CloseLog)

-----------------------------------------------------------------------------
Data == [made : BOOLEAN, docs : [Keys -> Values \cup {Absent}],
         idx : [Indexes -> {"none", "plain", "unique"}], sound : BOOLEAN]

(* Every variable keeps its type; memory never holds what recovery would   *)
(* have to refuse.                                                         *)
TypeOK ==
    /\ recs \in Seq(Operation) /\ hard \in 0 .. Len(recs)
    /\ first \in 1 .. Len(recs) + 1
    /\ doubt \in {<<>>} \cup {<<o>> : o \in Operation}
    /\ broken \in {"yes", "no"}
    /\ DOMAIN snaps \subseteq 1 .. Len(recs)
    /\ \A n \in DOMAIN snaps :
          snaps[n] \in [data : Data, file : {"good", "damaged"},
                       lost : {"self", "none", "damaged"}]
    /\ mem \in Data /\ mem.sound
    /\ last \in 0 .. Len(recs)
    /\ ckpt.phase \in {"none", "writing", "renamed", "published", "pruned"}
    /\ call.step \in {"none", "due", "append", "close"}
    /\ status \in {"open", "down", "refused"}

(* Between calls, and so right after recovery too, memory is what the      *)
(* whole log says: no failed append, checkpoint, crash or fallback to an   *)
(* older snapshot leaves a trace in it or loses a record                   *)
(* (docs/storage.md:97-100 "recovery falls back to the next one plus the   *)
(* log and loses nothing").                                                *)
MemoryIsTheLog ==
    /\ TypeOK
    /\ (status = "open" /\ call.step = "none") => mem = Replay(Empty, recs)

(* The data directory can always be opened again (docs/storage.md:140-142  *)
(* "Everything acknowledged before the crash is recovered").               *)
AlwaysOpens == status # "refused"

(* Every snapshot is the state after the record it is named for: a         *)
(* checkpoint never sees half of a write, nor writes that come while it    *)
(* runs (storage-engine.ts:783-786 "because only then does memory match    *)
(* every record in the log").                                              *)
SnapshotsMatchLog ==
    \A n \in DOMAIN snaps : snaps[n].data = Replay(Empty, SubSeq(recs, 1, n))

(* Whatever the power or the disk takes next, the log reaches back to a    *)
(* snapshot that can be read, and no snapshot is ahead of the stable log   *)
(* (storage-engine.ts:493-494 "Two snapshots and the log since the older   *)
(* one are always kept, so a damaged newest snapshot never loses data").   *)
Recoverable ==
    /\ first = 1 \/ \E n \in DOMAIN snaps :
                        snaps[n].file = "good" /\ snaps[n].lost = "self" /\ first <= n + 1
    /\ \A n \in DOMAIN snaps : n <= hard

(* No write or close waits for ever for the checkpoint it has started, nor *)
(* for one in the background (docs/storage.md:120-121 "A failed automatic  *)
(* checkpoint never fails a write").                                       *)
CallsReturn == (call.step # "none") ~> (call.step = "none")

(* A checkpoint ends, also one that writes go on under: the ones after it, *)
(* which join it (checkpointAsync) or skip it (runDueCheckpoint), are not  *)
(* put off for ever.                                                       *)
CheckpointsEnd == (ckpt.phase # "none") ~> (ckpt.phase = "none")
=============================================================================
