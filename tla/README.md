# SinterDB in TLA+

TLA+ models of SinterDB, a document database in TypeScript: what its storage,
its server, its driver and its maintenance tools promise about data and about
calls, checked with TLC on small instances and, where it matters most, proved
with TLAPS for all of them.
Source paths are relative to `src/`; line numbers are those of the modelled
revision.

## The system

A server process (`apps/server-cli`, `packages/server`) accepts connections,
decodes messages (`packages/protocol`), runs each command against collections in
memory and journals every change (`packages/storage`). `packages/driver` is the
client. Everything in the server runs on one thread: concurrency comes from
sockets, timers, `setImmediate`, other processes on the same directory, and
crashes.

| Part | State | Operations | What is hard about it |
| --- | --- | --- | --- |
| Directory lock (`engine/lock.ts`) | `LOCK`, private files | acquire, release | processes interleave at every system call; crashes; pids reused |
| Write-ahead log (`wal/`) | segment files, `nextLsn`, `unsynced`, `broken`, `pending` | open, append, flush, commit, sync, truncateThrough, close | any system call fails; crash or power loss inside any call |
| Engine and checkpoints (`engine/storage-engine.ts`, `checkpoint.ts`) | snapshots, `lastCheckpoint`, the running checkpoint | journaled writes, checkpoint, checkpointAsync, close, recover | snapshots while writes go on; pruning and truncation half done; damage |
| Collections, indexes, planner (`in-memory-collection.ts`, `indexing/`) | documents, index entries | insert, update, replace, delete, createIndex, dropIndex, find | rollback when an index or the journal refuses; plans against scans; maps that change under a scan |
| Sessions, group commit (`session.ts`, `group-commit.ts`) | session state, held replies, waiting list | handshake, command, ping, failure, release | reads that show other clients' unflushed writes; order of replies; failed flush |
| Server (`server.ts`) | lifecycle state, sockets, engine | start, stop | failed starts, concurrent stops, stop while replies are held or from inside a failing flush |
| Cursors (`cursor-manager.ts`, driver `cursor.ts`) | open cursors, expiry; buffer, cursor id | open, getMore, close, sweep | expiry, timeouts, several readers, closing during a fetch |
| Driver (`client.ts`, `request-dispatcher.ts`) | connection state, pending requests | connect, request, close | late answers, ids that wrap, close during connect |
| Manifest (`storage-engine.ts:1053-1190`, `migrations.ts`) | `manifest.json` | create, upgrade | crash between the marks of an upgrade; builds of several versions |
| Backup, restore (`backup/`) | copies of the directory | back up, verify, restore | changes, damage, crashes and other commands part way |
| Inspect, repair (`inspect/`) | report, plan | inspect, repair | verdict against what recovery does; old plans; repairs that stop half way |
| Protocol codecs, filters, updates, sorting | none | pure functions | boundaries |

`PROJECT.json` lists every part with its status, and under `hazards` what can go
wrong at which line and which property would notice.

## Modules

| Module | Models | State and steps |
| --- | --- | --- |
| `DirectoryLock` | `engine/lock.ts` | `lock`, `age` and `private` are the directory; `pc`, `nonce`, `attempt`, `seen` the local variables of a process. One action per system call. `excuse` is history: it records removals of a lock that the remover had not judged, or judged only on the operator's word. |
| `WriteAheadLog` | `wal/write-ahead-log.ts`, `wal/format.ts` | `files` are the segments with what of them is on stable storage; `wal` the object's fields. A call is an operator that returns the set of its results, one per way its system calls can fail, composed with `Then`; the actions pick one. |
| `DurableLog` | what the log promises (abstract) | An append-only sequence that loses at most an unacknowledged tail. |
| `StorageEngine` | `engine/storage-engine.ts`, `engine/checkpoint.ts`, the journaled operations of `in-memory-collection.ts` | The log as `DurableLog` has it (`recs`, `hard`, `first`), snapshot files, memory, one call and one checkpoint at a time. |
| `GroupCommit` | `session.ts`, `group-commit.ts`, start and stop of `server.ts` | Sessions with held and sent replies; the engine is reduced to which records exist and which are stable. |
| `DriverClient` | `client.ts`, `handshake.ts`, `request-dispatcher.ts`, `request-id.ts` of the driver | The client's state, its sockets with the phase of each attempt, the map of pending requests and the messages in both directions. One action per call and per event. The other end of a socket is any that speaks the protocol (`PeerStep`): this is the abstract specification of the pair. |
| `ClientServer` | start and stop of `server.ts`, `main.ts`, composed with `DriverClient` | `server`, `engine`, and where each caller of `stop()` is; sockets are shared with the client. |
| `Cursors` | `cursor-manager.ts`, `find`, `getMore`, `closeCursor` of `command-dispatcher.ts`, `scan` of a collection, the driver's `cursor.ts` | The collection as a map with insertion positions, the server's cursors with their suspended scans, messages, and the `FindCursor` with several readers. `got`, `steady`, `reborn`, `excuse` are history. |
| `Documents`, `FieldIndex` | `filter.ts`, `update.ts`, `sort.ts`; `field-index.ts`, `values.ts` | Pure operators: matching, comparing, updating; an index as entries, order, counts and array flag. |
| `Collection` | `in-memory-collection.ts`, `index-set.ts`, `planner.ts` | Documents in map order, indexes, sequence numbers, and what the journal holds. One action per operation, with every way it may be refused. |
| `Repair` | `inspect/`, and recovery as `WriteAheadLog` and the engine do it | One directory (manifest, segments, snapshots); repairs that plan, lock, act a step at a time; a server that runs, crashes and is damaged. |
| `DataDirectory` | `backup/backup.ts`, `prepareManifest`, `migrations.ts` | Directories as files with a version and a content; commands and servers of several builds, a file at a time. |
| `MC*` | instances for TLC | model values and constant functions |
| `*Proofs`, `WriteAheadLogFiles`, `WriteAheadLogCalls` | theorems and the lemmas they rest on | see below |

How they fit together: `WriteAheadLog` implements `DurableLog` (refinement,
checked in every write concern, and the theorem `DurableLogImplemented`), and `StorageEngine` and `GroupCommit` are
written over that promise instead of over files. `StorageEngine` guards the
steps of checkpoints and calls the way the single thread orders them: a
checkpoint that does not yield excludes everything but crashes; one in the
background goes on only between calls. `ClientServer` extends `DriverClient` and
replaces its free peer by the server; that every behaviour of the composition is
one of `DriverClient` alone is the theorem `ImplementsClient`, by which what
`DriverClient` promises holds with this server. `Collection` is built from the
operators of `Documents` and `FieldIndex`; `Repair` compares two pieces of code
that must agree, `Recoverable` (what inspection says) and `Open` (what the server
does), on the same files.

Definitions whose comment starts with "Mutant:" are wrong on purpose: each is a
plausible slip in one mapped definition, kept next to it to show that the
property named with it in `PROJECT.json` notices.

### What is abstracted

- Records, documents and replies are identities. A record in `WriteAheadLog` has
  an id, an LSN and a size; the bytes after the last whole record are none or a
  torn record (`scanRecord`). Damage inside a segment, where recovery refuses
  the directory on purpose, is not injected.
- A crash in the middle of a log call leaves the files of one of the failures of
  that call. Power loss keeps, of each file, the flushed records and a prefix of
  the others, cut anywhere; a file whose directory entry was not flushed may go.
- The engine holds one collection with documents of one indexed value; one
  record puts or deletes any set of documents (`insertMany`, `updateMany`,
  `deleteMany`).
- Whether a write finds a checkpoint due is left open (for the operations in
  `DueFor`), so thresholds and the back-off after a failure are any.
- A reply carries the number of the message it answers and the newest record
  whose effects it may show.
- In `ClientServer` a command is its answer; what it does to data is in
  `GroupCommit`. A handshake is one message each way, and succeeds or fails.
- In `Cursors` documents have a size and either match or not; a batch is cut by
  count and by bytes. The clock only ages cursors.
- In `Collection` values are names with a class, a rank, a magnitude and elements,
  so that `-0` and `0` are distinct and compare as equal, and an array contains a
  number. The planner's choice between plans of equal cost is any of them.
- In `Repair` a segment is its first LSN, how many whole records it has, what
  follows them (nothing, a torn record, damage) and its header.
- In `DataDirectory` a file is the version it was last rewritten for and a count
  of writes; its checksum is the pair. The only migration of this revision
  (1 to 2) rewrites no file. `Rewrites` names the versions whose step does: later
  steps with a `run`, for which the marking code at storage-engine.ts:1129-1146
  was written.

## Runs

Passing runs:

| Run | Question | Bounds |
| --- | --- | --- |
| `DirectoryLock` | May two servers hold the directory? Does anybody lose a lock it owns? Does a start alone always succeed? | 3 processes, two of them on one host, one of which reclaims foreign locks; 3 acquisitions; path free or unreadable at first. Three acquisitions let one process crash with the lock while two others race for it. |
| `WriteAheadLog` | Is everything acknowledged recovered, is the directory always accepted, is it a prefix, does the log implement `DurableLog`? | Each write concern, `flushed` with and without group commit, with the crash it promises to survive. 5 records of size 1 or 2, segments of size 3 (so a rotation happens at every fill level), 2 crashes inside or between calls, every failure but `leftover`. |
| `GroupCommit` | May a reply show what can be lost? Come out of order? Be forgotten? Is every message answered or its connection closed? | 2 connections, 3 messages each (a handshake and two more), 2 records: a writer, a reader and a flush between any two of their messages |
| `StorageEngine` | Is memory what the log says, is every snapshot the state at its LSN, can the directory be opened without loss? | 2 keys with one value (so that a unique index has conflicts), 4 records (with retention 2 pruning and truncation happen twice), every failure but that of a truncation (which the next run has), a crash of either kind, one damaged snapshot. Keys are symmetric. |
| `StorageEngineLive` | Do calls return and checkpoints end? | 3 records, every failure, a killed process |
| `ClientServer` | Does an answer reach the call it belongs to? Is a call, a socket or the engine ever left over? Does every promise settle and every stop return? | 2 connection attempts, 3 calls with 2 request ids (so that ids wrap and meet pending ones), 1 start, one program and the signal that call `stop()`; at most 4 attempts and calls together (`MaxWork`) |
| `Cursors` | Does a reader miss or repeat a document when the collection changes between batches? Do cursors go away? Does every read return? | 3 documents, one as large as a batch, 2 changes, 2 readers of which one is `toArray()`, 3 calls, at most 3 changes and calls together (`MaxWork`), 3 cursor ids, a scan, an index scan and a sort, with skip, limit and batches of one and two |
| `Collection` | Are indexes what a rebuild gives? Does every plan find what a scan finds, in the same order? Does uniqueness hold? Is memory what the journal says? | 3 symmetric keys, 2 fields, 2 indexes (unique or not, sparse or not), values `-0`, `0`, `1`, a string, an array; with and without a journal, which may refuse any write |
| `Repair` | Does the server open exactly what inspection calls recoverable? Does a repair lose anything unasked, or harm a directory that opens? Does repairing twice suffice? | 3 records, segments of 2, 2 snapshots kept, 2 damages of any kind, 1 crash, 2 symmetric repairs |
| `DataDirectory` | Does a build ever work on files it cannot read? Is a backup one instant? Is a restored directory whole, and does it replace nothing? | Builds 2, 3 and 4, tools of 3 and 4, rewriting steps to 2 and 3, 2 symmetric commands, the manifest and one data file, a write, a crash, a damage |

Type invariants are proved for `DirectoryLock`, `GroupCommit` and `ClientServer`
(below); in the other modules `TypeOK` is a conjunct of an invariant that is
checked (in `WriteAheadLog` of `AlwaysRecoverable`, which is proved as well). `ClosedForGood`, that a closed client stays closed, is proved and has no
run.

Larger instances that held when they were run, too long to keep as runs:
`Cursors` with `MaxWork` 4 (2.1 million states) and with larger bounds throughout
(24.8 million); `StorageEngine` with every failure (3.1 million);
`ClientServer` with 2 starts (348,187); `Repair` with 4 records (775,609); `Collection` with more inputs (20,396 states, each with every
query on every plan); `DataDirectory` with two data files, with builds 2 and 3
(8.2 million) and with tools of one build (5.4 million).

Two runs expect a violation, of what the repository says:

| Run | What it shows | Said by |
| --- | --- | --- |
| `DirectoryLockRace` | Two starts over one stale lock: the second unlinks the first one's new lock. | docs/storage.md:170 |
| `StorageEngineUnopenable` | The checkpoint started by createIndex's append contains the index; if that append then fails, a later restart may refuse the directory. | docs/storage.md:289, storage-engine.ts:783-786 |

### Conditions, and what happens without them

The passing runs hold under conditions. Each row names one, and the constants
with which the same modules show what it excludes.

| Condition | Without it | To see it |
| --- | --- | --- |
| No process unlinks a lock it has not judged. | two owners | `DirectoryLockRace` |
| No checkpoint starts inside createIndex (`DueFor`). | a directory that does not open | `StorageEngineUnopenable` |
| Under `flushed`, no process is killed while it creates a segment before the power fails. | The segment is never linked durably, and acknowledged records go with it (docs/storage.md:65-66). | `MCWriteAheadLog`: Setups `FlushedBoth`, SegmentSize 1, FlushSize 3, Sizes {1}, Faults {}, MaxRecords 3, MaxCrashes 2; `AcknowledgedRecovered` |
| `journaled` and `memory` see no power loss. | A later segment may be kept and an earlier one cut; recovery refuses (docs/storage.md:55-56). | Setups `JournaledPower`, SegmentSize 1, FlushSize 2, Sizes {1}, Faults {}, MaxRecords 3, MaxCrashes 1; `AlwaysRecoverable` |
| A segment whose creation failed is removed. | The leftover file is refused later (write-ahead-log.ts:674). | Setups `FlushedProcess`, SegmentSize 2, FlushSize 2, Sizes {1, 2}, Faults {"leftover"}, MaxRecords 4, MaxCrashes 1; `AlwaysRecoverable` |
| What the disk keeps of an unflushed tail is a prefix of it. | The scanner takes a hole for corruption (format.ts:162). | not modelled |
| A server starts on a flushed log. | Recovered records that were never flushed are shown to readers (docs/storage.md:73-74). | `MCGroupCommit`: RecoverUnsynced TRUE, MaxRequests 2, MaxLsn 1; `NothingShownIsLost` |
| Fewer damaged snapshots than retained. | A damaged snapshot counts towards retention (storage-engine.ts:493-494). | `MCStorageEngine`: no index, no failures or crashes, MaxRecords 3, MaxDamage 2; `Recoverable` |
| A request's answer comes before the ids have gone all the way round. | An old answer settles a new call. | in the property |
| No getMore times out and is answered later (`excuse` "lost"). | The next batch goes on behind the lost one. | in the property |
| One find per `FindCursor` ("refind"), answered before it is closed ("stray"). | Two readers that start at once read two cursors; a cursor without an id stays until it expires. | in the properties |
| The disk damages nothing between a repair's plan and its lock. | `sameProblem` compares how many snapshots there are, not which of them are readable: a plan made before the damage is carried out (repair.ts:196-203). | `Harm` without its second conjunct; `OpenableUnharmed` |
| One restore at a time to a destination (`overlap`). | Both build in `<destination>.restoring`, and an incomplete directory is put in place (backup.ts:228-231). | `RestoredWhole` without the excuse |
| An interrupted upgrade is finished by its own build (`takenOver`). | A newer build goes on without marking the directory for itself; after a second crash the older build opens half rewritten files (storage-engine.ts:1135). It takes steps that rewrite, which this revision has none of. | `NeverMisread` without the excuse, MaxCrashes 2 |

One formula is kept without a run: `SignalStops` in `ClientServer`. A signal that
arrives while `start()` still awaits the address finds the server starting;
`stop()` throws, and `shutdown()` returns the same rejected promise for the next
signal, so the server starts and goes on (main.ts:82-101; docs/configuration.md:100
says signals stop the server cleanly). MaxStarts 1, MaxSockets 1, MaxCalls 1 and
MaxWork 2 show it.

Deadlock is checked in every run but `ClientServer` and `Cursors`, which may
really stop: a closed client cannot be used again, and a reader at its end has
nothing left to do. In the others the bounds never stop the models: there is
always a close, an open, a boot or a socket step left.

### Fairness

- `DirectoryLock`: weak fairness of the synchronous code of a running process;
  nothing makes a process start, stop or die.
- `GroupCommit`: `setImmediate` runs its callback (`Run`), the force timer fires
  (`ForceClose`), a destroyed socket emits `close`. Clients owe nothing.
- `StorageEngine`: a call goes on (`Due`, `FinishWrite`, `CloseLog`). The steps
  of a checkpoint are strongly fair: one in the background is not enabled during
  calls, but the event loop runs its `setImmediate` between two of them however
  many there are.
- `ClientServer`: timers fire (a request's, the connection's, the force timer of
  stop), a destroyed socket emits `close`, listening succeeds or fails, and a
  promise that can go on does. The server need not answer and nobody need call.
- `Cursors`: time passes, the sweep timer and the request timers fire, and the
  reader's code goes on. The server need not answer and the network need not
  deliver.

## Proofs

`tlapm` checks eight modules with proofs, three of them for the write-ahead log.
None assumes anything of the bounds: they are arbitrary naturals.

`DirectoryLockProofs`: for any set of processes and hosts, `TypeOK`,
`LockNamesOwner` and `ExclusiveUnlessExcused` hold always. Mutual exclusion
alone is not inductive: a process about to unlink must be known to have read a
lock that no owner has. `LockInv` adds that nonces are unique and unpublished
until linked (`NoncesUnique`, `Unpublished`), so that what was read can never
become the lock of a later acquisition, and `JudgedStale`: a lock of the same
host that was judged stale has no owner and never gets one. That fails exactly
where `excuse` grows.

`GroupCommitProofs`: for any set of connections, `NothingShownIsLost`,
`RepliesInOrder` and `HeldRepliesHaveARun` hold always, if the server never
starts on a log with unflushed records (`~ RecoverUnsynced`; the conditions above
say why it is needed). The invariant says that a clean
log of a running server is wholly stable (`Committed`), that held replies show
no more than memory (`HeldShowsMemory`), that only sessions in the committer's
list hold (`HoldersWait`), and that sent and held replies together are numbered
without a gap (`AllNumbered`).

`WriteAheadLogProofs`, with the lemmas of `WriteAheadLogFiles` and
`WriteAheadLogCalls`: for any sizes, any number of records, segments and crashes
and any failures but a leftover file, `AlwaysRecoverable` and
`AcknowledgedRecovered` hold always, and the log implements `DurableLog`
(`DurableLogImplemented`), in each write concern with the crash that it promises
to survive. These conditions are `Survivable`, which the instance of the run
satisfies and TLC evaluates (`PromisesKept`); the table above has what happens
without each of them.

- That recovery accepts the files now says nothing of the next crash, so the
  invariant `WalInv` says what the files are like. Segments other than the last
  are whole, and each begins where the one before ends (`Chain`); every record is
  the one the log accepted under its LSN (`Hold`); the acknowledged ones are in a
  segment with a whole header (`Reach`) or, under power loss, in the part of it
  that was flushed, with all earlier segments flushed and linked (`Stable`,
  `Firm`). Of the object it says how its fields stand to the files while it can
  write (`Ready`), and the little that is known once it is broken (`Stopped`).
  TLC checked `WalInv` on 109,088 states before it was proved.
- `WriteAheadLogFiles`: what a write, a flush, a new, removed or cut segment, a
  killed process and a power loss do to files that are `Good`, and that recovery
  of `Good` files returns a prefix of the log with everything acknowledged.
- `WriteAheadLogCalls`: each result of each call, whichever of its system calls
  fails, is one that returned, one that broke the log, or one that changed nothing.
- The steps map so: an append that returns is an `Accept`, one that breaks the log
  a `Doubt`; a crash or close is a `Down`, and `open` comes up with the prefix that
  it recovers.

`StorageEngineProofs`: `Recoverable` holds always if `MaxDamage < Retention`, for
any data, log, retention, failures and crashes. `Recoverable` is not inductive:
a readable snapshot to start from says nothing about the next pruning. The
invariant counts. `Enough`: a truncated log has at least `Retention` stable names
at or after its start. Pruning keeps the `Retention` newest of all names, which
are at or after the start because those `Retention` are; truncation goes no
further than the oldest of them. `FewBad`: no more unreadable names than the disk
has damaged. By cardinality one name is stable, readable and reached by the log.
`CheckpointShape` has the order the code relies on: the log is flushed before a
snapshot is named, and the directory before anything is pruned.

The same module proves what the data are: `MemoryIsTheLog` and `SnapshotsMatchLog`
hold always if `"createIndex" \notin DueFor` (the run `StorageEngineUnopenable`
shows why), and `AlwaysOpens` if also `MaxDamage < Retention`. `DataInv` says for
each phase of a call how memory stands to the log (`PendingGood`, `DoubtGood`: one
operation ahead, or one that may or may not be in it), what the chunks of a
checkpoint hold while writes go on (`CheckpointData`), and that no record of the
log is refused when it is replayed (`LogGood`). That replaying a log from a
snapshot gives what replaying all of it does is an induction over the log. It is
done without the library's induction rules: the set of the lengths at which the
two differ has a least element (lemma `Least`), which cannot be 0 and cannot have
a predecessor.

`DataDirectoryProofs`: `NeverMisread`, `BackupIsAnInstant`, `RestoredWhole` and
`PublishedStays` hold always, for any files, builds, rewriting steps and commands.
`FormatShape` says of every file which rewriting steps it has been over (`Intact`)
and of a server that upgrades that it still has to do what has not been done; the
order of its steps does not matter. `PartialShape` says that what a backup has
copied is still what the data directory holds, which `LockShape` justifies.
`RestoreShape` says the same of a restore and the manifest of the backup, which
never changes, so damage cannot show; the exceptions of the properties (`takenOver`,
`overlap`) are where these stop being inductive.

`ClientServerProofs`: for any number of sockets, calls, request ids, starts and
callers of `stop()`. First `DriverClient` alone, against any peer: `ClientTypeOK`,
`AnswersFindTheirCall`, `NoCallForgotten`, `NoSocketLeaks` and `ClosedForGood`.
That an answer finds its call says nothing of the messages still under way, so
`RequestInv` does: every message on the wire carries the id that its call was
given (`WireGood`), ticks grow with calls (`TicksGrow`), and the map holds exactly
the pending calls, each under its own id (`MapExact`). Two calls with one id are
then `MaxRequestId` ticks apart (`IdsRecur`), which is the exception that the
property makes. `ConnectionInv` ties the client's state to its sockets: in each
state, which socket it holds and what its attempt waits for (`Holds`). Then
`ImplementsClient`: every step of the composition is a step of the client, a step
of the free peer, or a stutter of both, so all of these hold with the server. For
that, and for `EngineOutlivesSessions` and `StopMeansReleased`, `ServerInv` says
that the engine is open exactly when the server is not stopped, and that no
session exists before the server runs or after it has stopped.

Only model-checked: `Collection` and `Repair`, whose properties compare folds over
data (a rebuilt index, a recovered log, a plan carried out to its end) with the
state, which takes an induction over the fold that this prover has no rule for;
`Cursors`, whose properties are about sorted sequences and sums over sets;
liveness and fairness, which are outside this prover.

## Not modelled

- Byte layouts of documents, messages, records and snapshots: no state, and
  covered by unit tests. The stream decoder is a loop over one buffer; its tests
  deliver frames byte by byte (message-stream-decoder.test.ts), the finest split
  there is.
- `$or`, `$nor`, `$not`, `$nin`, `$min`, the array updates, and paths through
  embedded documents: functions of one document. The planner makes no use of the
  first four, so they cannot make a plan differ from a scan.
- Several databases and collections. They share the log and the checkpoint, which
  `StorageEngine` has, and nothing else; the checkpoint's collections are written
  one after the other, of which one is modelled.
- The back-off after failed checkpoints, and thresholds: any write may find a
  checkpoint due.
- Pages of an unflushed tail that reach the disk out of order.
- Argument checks, error wording, configuration, the command line but for its
  shutdown, examples, tools and website. They have no state of their own, or none
  that the database depends on.
