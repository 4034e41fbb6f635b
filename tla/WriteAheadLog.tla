--------------------------- MODULE WriteAheadLog ---------------------------
(***************************************************************************)
(* The write-ahead log (packages/storage/src/wal/write-ahead-log.ts and    *)
(* the record scanner of wal/format.ts): segments, the three write         *)
(* concerns, group commit, rotation, truncation, I/O failures, process     *)
(* crashes, power loss and recovery.                                       *)
(*                                                                         *)
(* A call of the log is one step: the server runs it to the end on one     *)
(* thread.  A call is a set of results, one per way its system calls can   *)
(* succeed or fail, and a crash in the middle of it leaves the files of    *)
(* one of the failures behind.  Sizes are counted in units of one record;  *)
(* the segment header has size zero.                                       *)
(***************************************************************************)
EXTENDS Integers, Sequences, FiniteSetsExt, Functions

CONSTANTS
    Setups,         \* the options the log is run with, and how its machine stops
    SegmentSize,    \* segmentSizeBytes, without the header
    FlushSize,      \* MEMORY_FLUSH_BYTES
    Sizes,          \* the record sizes callers append
    Faults,         \* the I/O failures that happen: a subset of AllFaults
    MaxRecords,     \* bound on the calls of append
    MaxCrashes      \* bound on the crashes

(* "full": ENOSPC, and the cut of the partial write works.  "write",       *)
(* "fsync", "close": that system call fails.  "leftover": createSegment    *)
(* fails and cannot remove the file it had created.  "unlink": an old      *)
(* segment cannot be removed.                                              *)
AllFaults == {"full", "write", "fsync", "close", "leftover", "unlink"}

ASSUME WalConstants ==
    /\ Setups \subseteq [mode : {"memory", "journaled", "flushed"}, group : BOOLEAN,
                         crashes : SUBSET {"process", "power"}]
    /\ \A s \in Setups : s.group => s.mode = "flushed"
    /\ SegmentSize \in Nat \ {0} /\ FlushSize \in Nat \ {0}
    /\ Sizes \subseteq Nat \ {0}
    /\ Faults \subseteq AllFaults
    /\ MaxRecords \in Nat /\ MaxCrashes \in Nat

(* The crashes and failures the log promises to survive: a power loss in   *)
(* flushed mode only, where no process is killed before it, and no file    *)
(* left behind by a failed createSegment.                                  *)
Survivable ==
    /\ "leftover" \notin Faults
    /\ \A s \in Setups : "power" \in s.crashes => s.mode = "flushed" /\ s.crashes = {"power"}

VARIABLES
    setup,      \* the one of Setups this run of the log has
    files,      \* the segment files in the directory, by the LSN in their name
    wal,        \* the fields of the WriteAheadLog object
    status,     \* "open"; "down": no process; "refused": open() threw
    calls,      \* calls of append so far (they name the records)
    crashes,    \* crashes so far
    log,        \* history: ids of the accepted records, from LSN 1
    doubt,      \* history: the id whose append failed with an unknown outcome
    acked,      \* history: how many of them are acknowledged
    synced      \* the last LSN at the last sync() of this process

walVars == <<setup, files, wal, status, calls, crashes, log, doubt, acked,
             synced>>

(* The write concern, whether appends leave the flush to commit(), and the *)
(* ways the machine stops.                                                 *)
Mode == setup.mode
GroupCommit == setup.group
Crashes == setup.crashes

Durable == Mode = "flushed"

(* A segment file.  tail: "torn" when the bytes after the last whole       *)
(* record are an incomplete record.  header: "cut" when the header is      *)
(* incomplete.  hard: how many records are on stable storage (-1 when not  *)
(* even the header is).  linked: its directory entry is too.               *)
NewSegment(header, hard, linked) ==
    [recs |-> <<>>, tail |-> "clean", header |-> header, hard |-> hard, linked |-> linked]

NoFiles == [n \in {} |-> 0]

(* The fields of a log that has just been opened. *)
Fields(segments, position, nextLsn) ==
    [segments |-> segments, pending |-> <<>>, position |-> position,
     nextLsn |-> nextLsn, unsynced |-> FALSE, broken |-> FALSE]

Size(recs) == SumFunction([i \in DOMAIN recs |-> recs[i].size])

Active(w) == Max(w.segments)
LastLsn(w) == w.nextLsn - 1
FirstLsn(w) == Min(w.segments)

-----------------------------------------------------------------------------
(* Results of a call: the files and fields it leaves, and whether it       *)
(* returned.                                                               *)
Ok(f, w) == [files |-> f, wal |-> w, ok |-> TRUE]
Failed(f, w) == [files |-> f, wal |-> w, ok |-> FALSE]
Broken(f, w) == Failed(f, [w EXCEPT !.broken = TRUE])

(* Goes on with Op after every result that returned. *)
Then(results, Op(_, _)) ==
    UNION {IF r.ok THEN Op(r.files, r.wal) ELSE {r} : r \in results}

(* syncDirectory puts every directory entry on stable storage. *)
SyncDirectory(f) == [n \in DOMAIN f |-> [f[n] EXCEPT !.linked = TRUE]]

Write(f, n, recs) == [f EXCEPT ![n].recs = @ \o recs]
Fsync(f, n) == [f EXCEPT ![n].hard = Len(f[n].recs)]

(* What a write of recs that did not finish may leave in segment n. *)
Remnants(f, n, recs) ==
    {[Write(f, n, SubSeq(recs, 1, k)) EXCEPT ![n].tail = t] :
        k \in 0 .. Len(recs) - 1, t \in {"clean", "torn"}}
    \cup {Write(f, n, recs)}

(* writeFully and abandonWrite: on a full disk the partial bytes are cut   *)
(* off again; any other failure, or a failed cut, breaks the log.          *)
WriteFully(f, w, recs, faults) ==
    {Ok(Write(f, Active(w), recs), w)}
    \cup {Failed(f, w) : x \in faults \cap {"full"}}
    \cup {Broken(g, w) : g \in IF "write" \in faults THEN Remnants(f, Active(w), recs) ELSE {}}

(* An fsync of the active segment. *)
FsyncActive(f, w, faults) ==
    {Ok(Fsync(f, Active(w)), [w EXCEPT !.unsynced = FALSE])}
    \cup {Broken(f, w) : x \in faults \cap {"fsync"}}

Flush(f, w, faults) ==
    IF w.pending = <<>> THEN {Ok(f, w)}
    ELSE Then(WriteFully(f, w, w.pending, faults),
              LAMBDA g, v : {Ok(g, [v EXCEPT !.pending = <<>>])})

(* The directory with the file of segment n. *)
Put(f, n, segment) == [m \in DOMAIN f \cup {n} |-> IF m = n THEN segment ELSE f[m]]

(* The directory with a new segment that starts at LSN n. *)
WithSegment(f, n) ==
    IF Durable THEN SyncDirectory(Put(f, n, NewSegment("ok", 0, TRUE)))
    ELSE Put(f, n, NewSegment("ok", -1, FALSE))

(* createSegment: "wx" refuses a file that exists.  A failure removes the  *)
(* new file again unless close or unlink fails too.                        *)
CreateSegment(f, w, n, faults) ==
    IF n \in DOMAIN f THEN {Failed(f, w)}
    ELSE {Ok(WithSegment(f, n), w)}
         \cup {Failed(f, w) : x \in faults \cap {"full", "fsync"}}
         \cup {Failed(Put(f, n, NewSegment(h, -1, FALSE)), w) :
                 h \in IF "leftover" \in faults THEN {"ok", "cut"} ELSE {}}

(* rotate: flush, fsync in flushed mode, create the next segment, switch   *)
(* to it, close the previous one.                                          *)
SwitchSegment(f, w, faults) ==
    LET v == [w EXCEPT !.segments = @ \cup {w.nextLsn}, !.position = 0]
    IN  {Ok(f, v)} \cup {Broken(f, v) : x \in faults \cap {"close"}}

(* Mutant: the segment that is left behind is not flushed. *)
RotateUnflushed(f, w, faults) ==
    Then(Flush(f, w, faults),
         LAMBDA g, v : Then(CreateSegment(g, v, v.nextLsn, faults),
                            LAMBDA h, u : SwitchSegment(h, u, faults)))

Rotate(f, w, faults) ==
    Then(Then(Flush(f, w, faults),
              LAMBDA g, v : IF Durable THEN FsyncActive(g, v, faults) ELSE {Ok(g, v)}),
         LAMBDA g, v : Then(CreateSegment(g, v, v.nextLsn, faults),
                            LAMBDA h, u : SwitchSegment(h, u, faults)))

(* The record takes its place at the end of the log. *)
Advance(w, rec) ==
    [w EXCEPT !.position = @ + rec.size, !.nextLsn = @ + 1]

(* append in memory mode: the record is queued, and taken back when the    *)
(* flush it triggers fails without breaking the log.                       *)
Enqueue(f, w, rec, faults) ==
    LET queued == [Advance(w, rec) EXCEPT !.pending = Append(@, rec)]
    IN  IF Size(queued.pending) < FlushSize THEN {Ok(f, queued)}
        ELSE {IF r.ok \/ r.wal.broken THEN r ELSE Failed(r.files, w) :
                r \in Flush(f, queued, faults)}

(* Mutant: nothing is flushed, and nothing left to commit() either. *)
WriteThroughUnsynced(f, w, rec, faults) ==
    Then(WriteFully(f, w, <<rec>>, faults), LAMBDA g, v : {Ok(g, Advance(v, rec))})

(* append in the other modes: write, then fsync or leave it to commit().   *)
WriteThrough(f, w, rec, faults) ==
    Then(WriteFully(f, w, <<rec>>, faults),
         LAMBDA g, v :
            IF ~ Durable THEN {Ok(g, Advance(v, rec))}
            ELSE IF GroupCommit THEN {Ok(g, [Advance(v, rec) EXCEPT !.unsynced = TRUE])}
            ELSE Then(FsyncActive(g, v, faults), LAMBDA h, u : {Ok(h, Advance(u, rec))}))

AppendRecord(f, w, rec, faults) ==
    Then(IF w.position > 0 /\ w.position + rec.size > SegmentSize
         THEN Rotate(f, w, faults) ELSE {Ok(f, w)},
         LAMBDA g, v : IF Mode = "memory" THEN Enqueue(g, v, rec, faults)
                       ELSE WriteThrough(g, v, rec, faults))

(* Mutant: commit() marks the log flushed without an fsync. *)
CommitUnflushed(f, w, faults) == {Ok(f, [w EXCEPT !.unsynced = FALSE])}

(* commit and sync. *)
CommitResults(f, w, faults) ==
    IF w.unsynced THEN FsyncActive(f, w, faults) ELSE {Ok(f, w)}

SyncResults(f, w, faults) ==
    Then(Flush(f, w, faults), LAMBDA g, v : FsyncActive(g, v, faults))

(* truncateThrough: the segments wholly at or below lsn, oldest first,     *)
(* never the active one.                                                   *)
Removable(w, lsn) ==
    {n \in w.segments : \E m \in w.segments : m > n /\ m <= lsn + 1}

TruncateResults(f, w, lsn, faults) ==
    LET all == Removable(w, lsn)
        Left(S) == Restrict(f, DOMAIN f \ S)
        Forget(S) == [w EXCEPT !.segments = @ \ S]
        Oldest(n) == {m \in all : m < n}
    IN  {Ok(IF all # {} /\ Durable THEN SyncDirectory(Left(all)) ELSE Left(all), Forget(all))}
        \cup {Failed(Left(Oldest(n)), Forget(Oldest(n))) :
                n \in IF "unlink" \in faults THEN all ELSE {}}
-----------------------------------------------------------------------------
(* Recovery (recoverSegments and open).                                    *)

(* Why recovery throws over segment n: an incomplete header or record      *)
(* anywhere but at the end, a segment that does not follow the one before  *)
(* it, or a record with the wrong LSN.                                     *)
Unusable(f, n) ==
    LET last == Max(DOMAIN f)
        before == {m \in DOMAIN f : m < n}
    IN  IF f[n].header = "cut" THEN n # last
        ELSE \/ before # {} /\ n # Max(before) + Len(f[Max(before)].recs)
             \/ f[n].tail = "torn" /\ n # last
             \/ \E i \in DOMAIN f[n].recs : f[n].recs[i].lsn # n + i - 1

Refuses(f) == \E n \in DOMAIN f : Unusable(f, n)

(* The segments recovery keeps: a last one with an incomplete header goes. *)
Kept(f) == {n \in DOMAIN f : f[n].header = "ok"}

(* The segment that the record with LSN l is in, if recovery accepts f.    *)
SegmentOf(f, l) == Max({n \in Kept(f) : n <= l})

(* The whole log after recovery; records below the oldest segment were     *)
(* truncated after a checkpoint and are kept in the history only.          *)
RecoveredLog(f) ==
    IF Kept(f) = {} THEN <<>>
    ELSE LET last == Max(Kept(f))
         IN  [l \in 1 .. last + Len(f[last].recs) - 1 |->
                IF l < Min(Kept(f)) THEN log[l]
                ELSE LET n == SegmentOf(f, l) IN f[n].recs[l - n + 1].id]

(* Opening what is left: an empty directory gets segment 1; a torn tail is *)
(* cut off and the cut is flushed.                                         *)
OpenedFiles(f) ==
    IF Kept(f) = {}
    THEN WithSegment(NoFiles, 1)
    ELSE LET g == IF Kept(f) = DOMAIN f THEN f ELSE SyncDirectory(Restrict(f, Kept(f)))
             n == Max(Kept(f))
         IN  IF g[n].tail = "torn" THEN Fsync([g EXCEPT ![n].tail = "clean"], n) ELSE g

OpenedLog(f) ==
    LET n == Max(DOMAIN f)
    IN  Fields(DOMAIN f, Size(f[n].recs), n + Len(f[n].recs))

-----------------------------------------------------------------------------
Init ==
    /\ setup \in Setups
    /\ files = NoFiles
    /\ wal = Fields({}, 0, 1)
    /\ status = "down"
    /\ calls = 0 /\ crashes = 0
    /\ log = <<>> /\ doubt = <<>> /\ acked = 0 /\ synced = 0

Writable == status = "open" /\ ~ wal.broken

Take(r) == files' = r.files /\ wal' = r.wal

(* What the callers are told once a call is over.  A reply waits while     *)
(* records are unsynced; a record still queued in memory mode is not       *)
(* promised anything.                                                      *)
Promised(r, accepted) ==
    IF (r.ok \/ wal.unsynced) /\ ~ r.wal.unsynced
    THEN Len(accepted) - Len(r.wal.pending) ELSE acked

AppendCall(size) ==
    /\ Writable
    /\ calls < MaxRecords
    /\ calls' = calls + 1
    /\ LET rec == [id |-> calls + 1, lsn |-> wal.nextLsn, size |-> size]
       IN  \E r \in AppendRecord(files, wal, rec, Faults) :
             /\ Take(r)
             /\ log' = IF r.ok THEN Append(log, rec.id) ELSE log
             /\ doubt' = IF r.wal.broken THEN <<rec.id>> ELSE <<>>
             /\ acked' = Promised(r, log')
    /\ UNCHANGED <<setup, status, crashes, synced>>

(* The flush timer of memory mode (startFlushTimer). *)
FlushTimer ==
    /\ Writable /\ wal.pending # <<>>
    /\ \E r \in Flush(files, wal, Faults) : Take(r) /\ acked' = Promised(r, log)
    /\ UNCHANGED <<setup, status, calls, crashes, log, doubt, synced>>

Commit ==
    /\ Writable /\ wal.unsynced
    /\ \E r \in CommitResults(files, wal, Faults) : Take(r) /\ acked' = Promised(r, log)
    /\ UNCHANGED <<setup, status, calls, crashes, log, doubt, synced>>

(* sync, called when a checkpoint begins. *)
Sync ==
    /\ Writable
    /\ \E r \in SyncResults(files, wal, Faults) :
          /\ Take(r)
          /\ acked' = Promised(r, log)
          /\ synced' = IF r.ok THEN LastLsn(r.wal) ELSE synced
    /\ UNCHANGED <<setup, status, calls, crashes, log, doubt>>

(* truncateThrough, called at the end of a checkpoint, which began with    *)
(* sync().                                                                 *)
Truncate(lsn) ==
    /\ Writable
    /\ \E r \in TruncateResults(files, wal, lsn, Faults) : Take(r)
    /\ UNCHANGED <<setup, status, calls, crashes, log, doubt, acked, synced>>

(* close: flush and commit unless broken, then forget the log. *)
Close ==
    /\ status = "open"
    /\ status' = "down"
    /\ \E r \in IF wal.broken THEN {Failed(files, wal)}
               ELSE Then(Flush(files, wal, Faults),
                         LAMBDA g, v : CommitResults(g, v, Faults)) :
          /\ files' = r.files
          /\ acked' = IF wal.unsynced \/ wal.pending # <<>> THEN Promised(r, log) ELSE acked
    /\ wal' = Fields({}, 0, 1)
    /\ synced' = 0
    /\ UNCHANGED <<setup, calls, crashes, log, doubt>>

(* The files as they may be in the middle of open(). *)
MidOpen ==
    IF Kept(files) = {} /\ ~ Refuses(files)
    THEN {Put(NoFiles, 1, NewSegment(h, -1, FALSE)) : h \in {"ok", "cut"}} ELSE {}

(* The same in the middle of a call other than append. *)
MidCall ==
    {files} \cup
    IF status = "down" THEN MidOpen
    ELSE IF wal.broken THEN {}
    ELSE {r.files : r \in Flush(files, wal, AllFaults)}
         \cup {r.files : r \in UNION {TruncateResults(files, wal, l, AllFaults) : l \in 1 .. synced}}

(* The same in the middle of append(rec). *)
MidAppend(rec) == {r.files : r \in AppendRecord(files, wal, rec, AllFaults)}

(* What stable storage may hold of a segment when the power fails: at      *)
(* least the flushed records, then a prefix of the others, cut anywhere.   *)
CutTails(seg, k) ==
    IF k = Len(seg.recs) THEN {"clean", seg.tail}
    ELSE {"clean", "torn"}

CutAt(seg, k, t) ==
    [seg EXCEPT !.recs = SubSeq(seg.recs, 1, k), !.tail = t, !.hard = k, !.linked = TRUE]

Cuts(seg) ==
    (IF seg.hard = -1 THEN {NewSegment("cut", 0, TRUE)} ELSE {})
    \cup UNION {{CutAt(seg, k, t) : t \in CutTails(seg, k)} :
                k \in {i \in 0 .. Len(seg.recs) : i >= seg.hard}}

(* A process crash leaves the files alone; the power takes what was not    *)
(* flushed, and perhaps a whole file whose directory entry was not.        *)
AfterCrash(kind, f) ==
    IF kind = "process" THEN {f}
    ELSE LET entries == {S \in SUBSET DOMAIN f : \A n \in DOMAIN f : f[n].linked => n \in S}
         IN  UNION {{g \in [S -> UNION {Cuts(f[n]) : n \in S}] :
                       \A n \in S : g[n] \in Cuts(f[n])} : S \in entries}

(* The machine stops between calls, or inside one of them: the files are   *)
(* what some failure of the call would have left.                          *)
Crash(kind) ==
    /\ crashes < MaxCrashes
    /\ status \in {"open", "down"}
    /\ \/ /\ \E f \in MidCall : files' \in AfterCrash(kind, f)
          /\ UNCHANGED <<calls, doubt>>
       \/ /\ Writable /\ calls < MaxRecords
          /\ \E size \in Sizes :
                LET rec == [id |-> calls + 1, lsn |-> wal.nextLsn, size |-> size]
                IN  \E f \in MidAppend(rec) : files' \in AfterCrash(kind, f)
          /\ calls' = calls + 1
          /\ doubt' = <<calls + 1>>
    /\ status' = "down"
    /\ wal' = Fields({}, 0, 1)
    /\ crashes' = crashes + 1
    /\ synced' = 0
    /\ UNCHANGED <<setup, log, acked>>

(* WriteAheadLog.open: refuse the directory, or go on from what it holds. *)
Open ==
    /\ status = "down"
    /\ IF Refuses(files)
       THEN /\ status' = "refused"
            /\ UNCHANGED <<files, wal, log, doubt>>
       ELSE /\ status' = "open"
            /\ files' = OpenedFiles(files)
            /\ wal' = OpenedLog(files')
            /\ log' = RecoveredLog(files)
            /\ doubt' = <<>>
    /\ UNCHANGED <<setup, calls, crashes, acked, synced>>

Next ==
    \/ \E size \in Sizes : AppendCall(size)
    \/ FlushTimer \/ Commit \/ Sync
    \/ \E lsn \in 1 .. synced : Truncate(lsn)
    \/ \E kind \in Crashes : Crash(kind)
    \/ Close \/ Open

Spec == Init /\ [][Next]_walVars

-----------------------------------------------------------------------------
Record == [id : 1 .. MaxRecords, lsn : 1 .. MaxRecords, size : Sizes]

(* Every variable keeps its type, and no file ever holds more stable       *)
(* records than records.                                                   *)
TypeOK ==
    /\ setup \in Setups
    /\ \A n \in DOMAIN files :
          /\ n \in 1 .. MaxRecords + 1
          /\ Range(files[n].recs) \subseteq Record
          /\ files[n].tail \in {"clean", "torn"}
          /\ files[n].header \in {"ok", "cut"}
          /\ files[n].hard \in -1 .. Len(files[n].recs)
          /\ files[n].linked \in BOOLEAN
    /\ wal.segments \subseteq DOMAIN files
    /\ Range(wal.pending) \subseteq Record
    /\ wal.nextLsn \in 1 .. MaxRecords + 1
    /\ wal.unsynced \in BOOLEAN /\ wal.broken \in BOOLEAN
    /\ status \in {"open", "down", "refused"}
    /\ Len(doubt) <= 1 /\ acked <= Len(log) /\ synced <= Len(log)

(* The directory can be opened again at every moment: rotation, removal of *)
(* old segments and cut-off writes never leave files that recovery         *)
(* refuses, nor a list of segments that are not there.  docs/storage.md:   *)
(* 55-56 "after a crash you recover a prefix of the writes".               *)
AlwaysRecoverable == TypeOK /\ ~ Refuses(files)

(* What recovery would return now is a prefix of the accepted records,     *)
(* followed at most by the one record whose append failed with an unknown  *)
(* outcome: never a mixture, and never a record whose append reported a    *)
(* full disk (docs/storage.md:55-56 and :289).  It has every acknowledged  *)
(* record, in the segment files or flushed by a checkpoint before they     *)
(* were removed (docs/storage.md:65-66 "a write you were told succeeded is *)
(* always on stable storage").                                             *)
AcknowledgedRecovered ==
    LET recovered == RecoveredLog(files)
    IN  recovered \in {SubSeq(log \o doubt, 1, n) : n \in acked .. Len(log \o doubt)}

(* What the log implements. *)
Promise == INSTANCE DurableLog WITH
    Ids <- 1 .. MaxRecords, up <- status = "open"

(* The log implements DurableLog: every call, failure, crash and recovery  *)
(* is a step of the append-only sequence that loses at most an             *)
(* unacknowledged tail.                                                    *)
ImplementsDurableLog == Promise!Spec
=============================================================================
