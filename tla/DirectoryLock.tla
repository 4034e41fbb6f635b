--------------------------- MODULE DirectoryLock ---------------------------
(***************************************************************************)
(* The lock file that keeps a data directory to one server                 *)
(* (packages/storage/src/engine/lock.ts).                                  *)
(*                                                                         *)
(* Several processes start, stop and die around one LOCK file.  Every      *)
(* system call on the directory (create and link the private file, read,   *)
(* stat, unlink) is one step, so the processes interleave exactly where    *)
(* the operating system lets them.  A process is one (host, pid) pair; a   *)
(* new life of it after a crash has the same pid and a fresh nonce.        *)
(***************************************************************************)
EXTENDS Naturals, FiniteSets

CONSTANTS
    Procs,      \* the (host, pid) pairs that may run a server
    HostOf,     \* HostOf[p]: the host of p, as hostname() reports it
    Reclaim,    \* the processes started with reclaimForeignLock
    MaxNonce,   \* bound on the number of acquisitions (nonces are 1..MaxNonce)
    NoLock,     \* the LOCK path does not exist
    Garbled,    \* a LOCK file without a usable owner
    InitialLock \* what the LOCK path may hold at first

(* Mutant: the loop gives up after the removal of a stale lock. *)
OneAttempt == 1

Attempts == 3

(* The contents of a LOCK file written by publishLock. *)
LockInfo == [pid : Procs, nonce : 1 .. MaxNonce]

ASSUME LockConstants ==
    /\ MaxNonce \in Nat
    /\ Reclaim \subseteq Procs
    /\ NoLock \notin LockInfo /\ Garbled \notin LockInfo /\ NoLock # Garbled
    /\ InitialLock \subseteq {NoLock, Garbled}

VARIABLES
    lock,       \* what the LOCK path holds
    age,        \* "fresh": the LOCK file is younger than UNREADABLE_LOCK_GRACE_MS
    private,    \* private files published next to the lock and not yet removed
    pc,         \* where each process is
    nonce,      \* the nonce of each process's current acquisition (0: none yet)
    attempt,    \* how many attempts it has used up
    seen,       \* the holder readLock returned to it
    nonces,     \* nonces handed out so far (randomUUID never repeats)
    excuse      \* history: the ways a lock was removed that was not stale

lockVars == <<lock, age, private, pc, nonce, attempt, seen, nonces, excuse>>

(* "down": not running.  "idle": running without the directory.  "hold":   *)
(* acquireDirectoryLock returned.  The others are program points of        *)
(* acquireDirectoryLock and releaseLock.                                   *)
PCs == {"down", "idle", "create", "link", "read", "freshness", "staleness",
        "unlink", "hold", "releaseRead", "releaseUnlink"}

Mine(p) == [pid |-> p, nonce |-> nonce[p]]
Running(p) == pc[p] # "down"

(* The processes that have the directory open: from the return of          *)
(* acquireDirectoryLock until release() is called.  heldPaths of p holds   *)
(* the path for exactly that long.                                         *)
Holders == {p \in Procs : pc[p] = "hold"}

(* Everyone whose LOCK file must not be removed by anyone else. *)
Owners == {p \in Procs : pc[p] \in {"hold", "releaseRead", "releaseUnlink"}}

Init ==
    /\ lock \in InitialLock
    /\ age = IF lock = NoLock THEN "old" ELSE "fresh"
    /\ private = {}
    /\ pc = [p \in Procs |-> "down"]
    /\ nonce = [p \in Procs |-> 0]
    /\ attempt = [p \in Procs |-> 0]
    /\ seen = [p \in Procs |-> NoLock]
    /\ nonces = 0
    /\ excuse = {}

(* acquireDirectoryLock or releaseLock returns (or throws), or the process *)
(* ends: its local variables are gone.                                     *)
Leave(p, where) ==
    /\ pc' = [pc EXCEPT ![p] = where]
    /\ nonce' = [nonce EXCEPT ![p] = 0]
    /\ attempt' = [attempt EXCEPT ![p] = 0]
    /\ seen' = [seen EXCEPT ![p] = NoLock]

(* The operating system starts the process. *)
Boot(p) ==
    /\ pc[p] = "down"
    /\ pc' = [pc EXCEPT ![p] = "idle"]
    /\ UNCHANGED <<lock, age, private, nonce, attempt, seen, nonces, excuse>>

(* sweepPrivateFiles judges a private file by its pid alone: its own files *)
(* are never in use, and kill(pid, 0) finds no process of another host.    *)
Gone(p, q) == q = p \/ HostOf[q] # HostOf[p] \/ ~ Running(q)

Swept(p) == {f \in private : Gone(p, f.pid)}

(* acquireDirectoryLock up to its loop. *)
Start(p) ==
    /\ pc[p] = "idle"
    /\ nonces < MaxNonce
    /\ nonces' = nonces + 1
    /\ nonce' = [nonce EXCEPT ![p] = nonces + 1]
    /\ private' = private \ Swept(p)
    /\ pc' = [pc EXCEPT ![p] = "create"]
    /\ UNCHANGED <<lock, age, attempt, seen, excuse>>

(* publishLock up to linkSync: the owner is written to a private file. *)
CreatePrivate(p) ==
    /\ pc[p] = "create"
    /\ private' = private \cup {Mine(p)}
    /\ pc' = [pc EXCEPT ![p] = "link"]
    /\ UNCHANGED <<lock, age, nonce, attempt, seen, nonces, excuse>>

(* Mutant: rename in place of link, which replaces a lock that exists. *)
LinkByRename(p) ==
    /\ pc[p] = "link"
    /\ private' = private \ {Mine(p)}
    /\ \/ /\ Mine(p) \in private
          /\ lock' = Mine(p)
          /\ age' = "fresh"
          /\ pc' = [pc EXCEPT ![p] = "hold"]
          /\ UNCHANGED <<nonce, attempt, seen>>
       \/ /\ Mine(p) \notin private
          /\ Leave(p, "idle")
          /\ UNCHANGED <<lock, age>>
    /\ UNCHANGED <<nonces, excuse>>

(* linkSync and the removal of the private file.  Without its private file *)
(* link() fails with ENOENT and the start fails.                           *)
Link(p) ==
    /\ pc[p] = "link"
    /\ private' = private \ {Mine(p)}
    /\ \/ /\ Mine(p) \in private /\ lock = NoLock
          /\ lock' = Mine(p)
          /\ age' = "fresh"
          /\ pc' = [pc EXCEPT ![p] = "hold"]
          /\ UNCHANGED <<nonce, attempt, seen>>
       \/ /\ Mine(p) \in private /\ lock # NoLock
          /\ pc' = [pc EXCEPT ![p] = "read"]
          /\ UNCHANGED <<lock, age, nonce, attempt, seen>>
       \/ /\ Mine(p) \notin private
          /\ Leave(p, "idle")
          /\ UNCHANGED <<lock, age>>
    /\ UNCHANGED <<nonces, excuse>>

(* readLock: a missing file and one without a usable owner look the same. *)
Holder == IF lock \in LockInfo THEN lock ELSE NoLock

Read(p) ==
    /\ pc[p] = "read"
    /\ seen' = [seen EXCEPT ![p] = Holder]
    /\ pc' = [pc EXCEPT ![p] = IF Holder = NoLock THEN "freshness" ELSE "staleness"]
    /\ UNCHANGED <<lock, age, private, nonce, attempt, nonces, excuse>>

(* lockIsFresh: stat of whatever file is at the path by now. *)
CheckFresh(p) ==
    /\ pc[p] = "freshness"
    /\ \/ /\ lock # NoLock /\ age = "fresh"
          /\ Leave(p, "idle")
       \/ /\ ~ (lock # NoLock /\ age = "fresh")
          /\ pc' = [pc EXCEPT ![p] = "unlink"]
          /\ UNCHANGED <<nonce, attempt, seen>>
    /\ UNCHANGED <<lock, age, private, nonces, excuse>>

(* Mutant: the process that holds the lock is not looked up. *)
StaleUnasked(p, holder) == HostOf[holder.pid] = HostOf[p] \/ p \in Reclaim

(* isStale for process p.  A lock with p's own pid is stale unless this    *)
(* life of p holds it, and p is not holding while it acquires.             *)
IsStale(p, holder) ==
    IF HostOf[holder.pid] # HostOf[p] THEN p \in Reclaim
    ELSE holder.pid = p \/ ~ Running(holder.pid)

CheckStale(p) ==
    /\ pc[p] = "staleness"
    /\ \/ /\ IsStale(p, seen[p])
          /\ pc' = [pc EXCEPT ![p] = "unlink"]
          /\ UNCHANGED <<nonce, attempt, seen>>
       \/ /\ ~ IsStale(p, seen[p])
          /\ Leave(p, "idle")
    /\ UNCHANGED <<lock, age, private, nonces, excuse>>

(* How removing the file now at the path goes wrong for p: it is not the   *)
(* one p judged, or p judged it only by the operator's word.               *)
Excuse(p) ==
    IF lock \notin LockInfo THEN {}
    ELSE IF lock # seen[p] THEN {"race"}
    ELSE IF HostOf[lock.pid] # HostOf[p] THEN {"foreign"}
    ELSE {}

(* unlinkSync(path) removes whatever is there; ENOENT is ignored. *)
Unlink(p) ==
    /\ pc[p] = "unlink"
    /\ excuse' = excuse \cup Excuse(p)
    /\ lock' = NoLock
    /\ age' = "old"
    /\ \/ /\ attempt[p] + 1 < Attempts
          /\ attempt' = [attempt EXCEPT ![p] = @ + 1]
          /\ seen' = [seen EXCEPT ![p] = NoLock]
          /\ pc' = [pc EXCEPT ![p] = "create"]
          /\ UNCHANGED nonce
       \/ /\ attempt[p] + 1 >= Attempts
          /\ Leave(p, "idle")
    /\ UNCHANGED <<private, nonces>>

(* engine.close() ends with lock.release(). *)
Release(p) ==
    /\ pc[p] = "hold"
    /\ pc' = [pc EXCEPT ![p] = "releaseRead"]
    /\ UNCHANGED <<lock, age, private, nonce, attempt, seen, nonces, excuse>>

ReleaseRead(p) ==
    /\ pc[p] = "releaseRead"
    /\ \/ /\ Holder = Mine(p)
          /\ pc' = [pc EXCEPT ![p] = "releaseUnlink"]
          /\ UNCHANGED <<nonce, attempt, seen>>
       \/ /\ Holder # Mine(p)
          /\ Leave(p, "idle")
    /\ UNCHANGED <<lock, age, private, nonces, excuse>>

ReleaseUnlink(p) ==
    /\ pc[p] = "releaseUnlink"
    /\ excuse' = IF lock \in LockInfo /\ lock # Mine(p)
                 THEN excuse \cup {"race"} ELSE excuse
    /\ lock' = NoLock
    /\ age' = "old"
    /\ Leave(p, "idle")
    /\ UNCHANGED <<private, nonces>>

(* The process exits or is killed at any point; the files stay. *)
Die(p) ==
    /\ Running(p)
    /\ Leave(p, "down")
    /\ UNCHANGED <<lock, age, private, nonces, excuse>>

(* Five seconds pass since the LOCK file was written. *)
Age ==
    /\ age = "fresh"
    /\ age' = "old"
    /\ UNCHANGED <<lock, private, pc, nonce, attempt, seen, nonces, excuse>>

(* The synchronous code of acquireDirectoryLock and releaseLock. *)
Step(p) ==
    \/ CreatePrivate(p) \/ Link(p) \/ Read(p) \/ CheckFresh(p) \/ CheckStale(p)
    \/ Unlink(p) \/ ReleaseRead(p) \/ ReleaseUnlink(p)

Next ==
    \/ \E p \in Procs : Boot(p) \/ Start(p) \/ Step(p) \/ Release(p) \/ Die(p)
    \/ Age

Spec == Init /\ [][Next]_lockVars

(* A running process executes its synchronous code to the end. *)
FairSpec == Spec /\ \A p \in Procs : WF_lockVars(Step(p))
-----------------------------------------------------------------------------
(* Every variable keeps its type. *)
TypeOK ==
    /\ lock \in LockInfo \cup {NoLock, Garbled}
    /\ age \in {"fresh", "old"}
    /\ private \subseteq LockInfo
    /\ pc \in [Procs -> PCs]
    /\ nonce \in [Procs -> 0 .. MaxNonce]
    /\ attempt \in [Procs -> 0 .. Attempts]
    /\ seen \in [Procs -> LockInfo \cup {NoLock}]
    /\ nonces \in 0 .. MaxNonce
    /\ excuse \subseteq {"race", "foreign"}

(* docs/storage.md:170 "Only one server may use a data directory." *)
MutualExclusion == \A p, q \in Holders : p = q

(* Two servers have the directory open only after one of them unlinked a   *)
(* LOCK file other than the one it had judged (the window between readLock *)
(* and unlinkSync, or between the two steps of releaseLock), or reclaimed  *)
(* a foreign lock on the operator's word.  Crashes, restarts with the same *)
(* pid, unreadable locks and concurrent starts alone never do it.          *)
ExclusiveUnlessExcused == excuse = {} => MutualExclusion

(* Until then a process that has the directory, or is giving it back, is   *)
(* the one the LOCK file names: nobody takes the file away under it, so    *)
(* release() and the inspection tools see the real owner.                  *)
LockNamesOwner == excuse = {} => \A p \in Owners : lock = Mine(p)

Alone(p) == \A q \in Procs \ {p} : ~ Running(q)

(* The path is free, or holds a lock that p may take over. *)
Takeable(p) ==
    \/ lock = NoLock
    \/ lock = Garbled /\ age = "old"
    \/ lock \in LockInfo /\ (HostOf[lock.pid] = HostOf[p] \/ p \in Reclaim)

(* A server that starts while no other process runs always gets the        *)
(* directory, whatever an earlier crash left behind: the retry after the   *)
(* removal of a stale lock succeeds within the three attempts.             *)
LoneStartSucceeds ==
    \A p \in Procs :
        (pc[p] = "create" /\ attempt[p] = 0 /\ Alone(p) /\ Takeable(p))
            ~> (pc[p] \in {"hold", "down"} \/ ~ Alone(p))
=============================================================================
