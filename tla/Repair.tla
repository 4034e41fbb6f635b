------------------------------- MODULE Repair -------------------------------
(***************************************************************************)
(* Inspecting and repairing a data directory: inspect/inspect.ts and       *)
(* inspect/repair.ts of packages/storage/src, beside the server that opens *)
(* the directory (engine/storage-engine.ts, wal/write-ahead-log.ts).       *)
(*                                                                         *)
(* A segment of the log is named by its first sequence number.  It has a   *)
(* header, "ok", "none" (cut short or zeros) or "bad"; the number of its   *)
(* records that can be read; and what comes after them: nothing, the torn  *)
(* end of a record, or damage.  A snapshot is named by its sequence number *)
(* and can be read or not.  A manifest that repair leaves alone is "newer",*)
(* one that it replaces "unreadable".  What is in a record or a snapshot   *)
(* is left out, and so is the loss of power: a step of a repair flushes    *)
(* what it did.                                                            *)
(*                                                                         *)
(* A server runs or not.  Several repairs may be under way: each plans     *)
(* without the lock, takes it, looks again, and carries out its plan one   *)
(* file at a time; a crash or an error may stop it anywhere.               *)
(***************************************************************************)
EXTENDS Integers, Sequences, SequencesExt, FiniteSets, FiniteSetsExt, Functions, TLC

CONSTANTS
    Repairers,      \* the repair commands
    Consents,       \* the sets of options they are given
    Harms,          \* the kinds of damage that happen
    SegmentSize,    \* records in a full segment
    Retention,      \* checkpointRetention
    MaxLsn,         \* bounds the records written
    MaxHarm,        \* bounds the damage
    MaxCrashes      \* bounds the crashes of servers and repairs

Everything == {"allowDataLoss", "rebuildManifest", "clearLock"}

ASSUME RepairConstants ==
    /\ SegmentSize \in Nat \ {0} /\ Retention \in Nat \ {0, 1}
    /\ MaxLsn \in Nat /\ MaxHarm \in Nat /\ MaxCrashes \in Nat
    /\ Consents \subseteq SUBSET Everything

VARIABLES
    dir,        \* the directory: its manifest, segments in order, snapshots
    lock,       \* who holds LOCK; "foreign" when another host left it
    repair,     \* the state of each repair
    harmed, crashes

vars == <<dir, lock, repair, harmed, crashes>>

Manifests == {"ok", "missing", "unreadable", "newer"}

Segment ==
    [lsn : 1 .. MaxLsn + 1, header : {"ok", "none", "bad"},
     n : 0 .. SegmentSize, tail : {"end", "torn", "corrupt"}]

NewSegment(l, n) == [lsn |-> l, header |-> "ok", n |-> n, tail |-> "end"]

LastIn(s) == s.lsn + s.n - 1

(* The newest snapshot that can be read; recover and judge agree on it.    *)
Base(d) == Max({0} \cup {l \in DOMAIN d.snaps : d.snaps[l] = "ok"})

-----------------------------------------------------------------------------
(* Opening: StorageEngine.open.                                            *)

(* recoverSegments: goes through the segments and stops at the first that  *)
(* is not as it should be.  A last segment without a header is removed.    *)
RecoverSegments(d) ==
    LET Step(acc, s) ==
            LET last == s = Last(d.segs)
                refused == \/ s.header = "bad" \/ (s.header = "none" /\ ~ last)
                           \/ s.header = "ok" /\ acc.kept # <<>> /\ s.lsn # acc.lastLsn + 1
                           \/ s.tail = "corrupt" \/ (s.tail = "torn" /\ ~ last)
            IN  IF acc.failed \/ refused THEN [acc EXCEPT !.failed = TRUE]
                ELSE IF s.header = "none" THEN acc
                ELSE [acc EXCEPT !.kept = Append(@, [s EXCEPT !.tail = "end"]), !.lastLsn = LastIn(s)]
    IN  FoldLeft(Step, [kept |-> <<>>, lastLsn |-> 0, failed |-> FALSE], d.segs)

(* open: whether it succeeds, and the directory it leaves either way.  The *)
(* torn end of the log is cut off, an empty log gets its first segment.    *)
Open(d) ==
    LET manifest == d.manifest = "ok" \/ (d.manifest = "missing" /\ d.segs = <<>>)
        recovered == RecoverSegments(d)
        segs == IF recovered.kept = <<>> THEN <<NewSegment(1, 0)>> ELSE recovered.kept
    IN  IF ~ manifest THEN [ok |-> FALSE, dir |-> d]
        ELSE IF recovered.failed THEN [ok |-> FALSE, dir |-> [d EXCEPT !.manifest = "ok"]]
        ELSE [ok |-> segs[1].lsn <= Base(d) + 1 /\ recovered.lastLsn >= Base(d),
              dir |-> [d EXCEPT !.manifest = "ok", !.segs = segs]]

-----------------------------------------------------------------------------
(* Inspecting: inspectDataDirectory.                                       *)

(* Mutant: a torn end is no damage on any segment. *)
StatusAnywhere(d, i) ==
    LET s == d.segs[i]
    IN  CASE s.header = "none" -> "incomplete-header"
          [] s.header = "bad" -> "bad-header"
          [] s.header = "ok" /\ s.tail = "end" -> "ok"
          [] s.header = "ok" /\ s.tail = "torn" -> "torn-tail"
          [] OTHER -> "corrupt"

(* analyzeSegment: the status of the i-th segment.  A torn end counts as   *)
(* damage unless the segment is the newest.                                *)
Status(d, i) ==
    LET s == d.segs[i]
    IN  CASE s.header = "none" -> "incomplete-header"
          [] s.header = "bad" -> "bad-header"
          [] s.header = "ok" /\ s.tail = "end" -> "ok"
          [] s.header = "ok" /\ s.tail = "torn" /\ i = Len(d.segs) -> "torn-tail"
          [] OTHER -> "corrupt"

(* inspectLog: whether the segment does not follow on the one before.      *)
Gap(d, i) ==
    /\ i > 1 /\ d.segs[i].header = "ok" /\ d.segs[i - 1].header = "ok"
    /\ d.segs[i].lsn # LastIn(d.segs[i - 1]) + 1

Headless(d, i) ==
    Status(d, i) = "bad-header" \/ (Status(d, i) = "incomplete-header" /\ i < Len(d.segs))

(* summarizeLog: up to the first damage, the place of which is 0 if there  *)
(* is none.  A damaged segment counts as far as its records can be read.   *)
InspectLog(d) ==
    LET unusable == {i \in DOMAIN d.segs : Headless(d, i) \/ Gap(d, i)}
        bad == unusable \cup {i \in DOMAIN d.segs : Status(d, i) = "corrupt"}
        damage == IF bad = {} THEN 0 ELSE Min(bad)
        read == {i \in DOMAIN d.segs \ unusable : /\ Status(d, i) # "incomplete-header"
                                                  /\ damage = 0 \/ i <= damage}
    IN  [damage |-> damage,
         firstLsn |-> IF read = {} THEN 1 ELSE d.segs[Min(read)].lsn,
         lastLsn |-> IF read = {} THEN 0 ELSE LastIn(d.segs[Max(read)])]

(* hasLogShortfall: the log starts too late or ends too early. *)
Shortfall(d) ==
    LET log == InspectLog(d) IN log.firstLsn > Base(d) + 1 \/ log.lastLsn < Base(d)

(* judge: whether starting the server would succeed.                       *)
Recoverable(d) ==
    /\ d.manifest = "ok" \/ (d.manifest = "missing" /\ d.segs = <<>>)
    /\ InspectLog(d).damage = 0
    /\ ~ Shortfall(d)

-----------------------------------------------------------------------------
(* Planning: a plan is a sequence of changes to single files, each with    *)
(* the option it requires, or none.                                        *)

Quarantine(s, requires) == [do |-> "quarantine", lsn |-> s.lsn, n |-> 0, requires |-> requires]
Truncate(s) == [do |-> "truncate", lsn |-> s.lsn, n |-> s.n, requires |-> {"allowDataLoss"}]
CreateSegment(l) == [do |-> "create", lsn |-> l, n |-> 0, requires |-> {"allowDataLoss"}]
Manifest(do) == [do |-> do, lsn |-> 0, n |-> 0, requires |-> {"rebuildManifest"}]

QuarantineAll(segs, requires) == [i \in DOMAIN segs |-> Quarantine(segs[i], requires)]

(* planManifest. *)
PlanManifest(d) ==
    IF d.manifest = "unreadable" THEN <<Manifest("setAside"), Manifest("write")>>
    ELSE IF d.manifest = "missing" /\ d.segs # <<>> THEN <<Manifest("write")>>
    ELSE <<>>

(* firstCleanIndex: the segments from here on are as they should be.       *)
FirstClean(d) ==
    LET broken == {i \in DOMAIN d.segs : Status(d, i) = "corrupt" \/ Headless(d, i)}
    IN  Max({1} \cup {i + 1 : i \in broken} \cup {i \in DOMAIN d.segs : Gap(d, i)})

(* Mutant: the segment with the damage is always kept. *)
PlanTruncationKeeping(d) ==
    LET log == InspectLog(d)
        at == log.damage
        cut == at # 0
        keep == IF at = 0 THEN Len(d.segs) ELSE at
    IN  IF keep > 0 /\ d.segs[1].header = "ok" /\ d.segs[1].lsn > Base(d) + 1
        THEN [steps |-> <<>>, blocked |-> TRUE]
        ELSE IF keep = 0 \/ log.lastLsn < Base(d)
        THEN [steps |-> QuarantineAll(d.segs, {"allowDataLoss"})
                        \o (IF Base(d) > 0 THEN <<CreateSegment(Base(d) + 1)>> ELSE <<>>),
              blocked |-> FALSE]
        ELSE [steps |-> QuarantineAll(SubSeq(d.segs, keep + 1, Len(d.segs)), {"allowDataLoss"})
                        \o (IF cut THEN <<Truncate(d.segs[at])>> ELSE <<>>),
              blocked |-> FALSE]

(* planTruncation: the log is cut at the damage, or given up when that     *)
(* leaves it short of the snapshot.                                        *)
PlanTruncation(d) ==
    LET log == InspectLog(d)
        at == log.damage
        cut == at # 0 /\ Status(d, at) = "corrupt"
        keep == IF at = 0 THEN Len(d.segs) ELSE IF cut THEN at ELSE at - 1
    IN  IF keep > 0 /\ d.segs[1].header = "ok" /\ d.segs[1].lsn > Base(d) + 1
        THEN [steps |-> <<>>, blocked |-> TRUE]
        ELSE IF keep = 0 \/ log.lastLsn < Base(d)
        THEN [steps |-> QuarantineAll(d.segs, {"allowDataLoss"})
                        \o (IF Base(d) > 0 THEN <<CreateSegment(Base(d) + 1)>> ELSE <<>>),
              blocked |-> FALSE]
        ELSE [steps |-> QuarantineAll(SubSeq(d.segs, keep + 1, Len(d.segs)), {"allowDataLoss"})
                        \o (IF cut THEN <<Truncate(d.segs[at])>> ELSE <<>>),
              blocked |-> FALSE]

(* Mutant: the snapshot need not reach the segments that stay. *)
PlanLogUncovered(d) ==
    LET clean == FirstClean(d)
    IN  IF InspectLog(d).damage = 0 /\ ~ Shortfall(d) THEN [steps |-> <<>>, blocked |-> FALSE]
        ELSE IF InspectLog(d).damage # 0 /\ clean <= Len(d.segs) /\ Base(d) > 0
        THEN [steps |-> QuarantineAll(SubSeq(d.segs, 1, clean - 1), {}), blocked |-> FALSE]
        ELSE PlanTruncation(d)

(* planLog: segments before the last damage go when the snapshot makes up  *)
(* for them.                                                               *)
PlanLog(d) ==
    LET clean == FirstClean(d)
    IN  IF InspectLog(d).damage = 0 /\ ~ Shortfall(d) THEN [steps |-> <<>>, blocked |-> FALSE]
        ELSE IF /\ InspectLog(d).damage # 0 /\ clean <= Len(d.segs) /\ Base(d) > 0
                /\ d.segs[clean].header = "ok" /\ d.segs[clean].lsn <= Base(d) + 1
        THEN [steps |-> QuarantineAll(SubSeq(d.segs, 1, clean - 1), {}), blocked |-> FALSE]
        ELSE PlanTruncation(d)

(* The steps of a plan that the options allow. *)
Plan(d, options) ==
    SelectSeq(PlanManifest(d) \o PlanLog(d).steps, LAMBDA step : step.requires \subseteq options)

Blocked(d) == PlanLog(d).blocked \/ d.manifest = "newer"

(* sameProblem: what a repair compares when it has the lock.               *)
Problem(d) ==
    [manifest |-> d.manifest, segments |-> Len(d.segs),
     lastLsn |-> InspectLog(d).lastLsn, snapshots |-> Cardinality(DOMAIN d.snaps)]

-----------------------------------------------------------------------------
(* Applying: one step of a plan.  Possible is false where the step throws: *)
(* the file to move or cut is not there, or the one to create is.          *)

Exists(d, l) == \E i \in DOMAIN d.segs : d.segs[i].lsn = l

Possible(d, step) ==
    CASE step.do \in {"quarantine", "truncate"} -> Exists(d, step.lsn)
      [] step.do = "create" -> ~ Exists(d, step.lsn)
      [] step.do = "setAside" -> d.manifest # "missing"
      [] OTHER -> TRUE

(* truncateSegment: a file that is shorter is made longer, with zeros.     *)
Cut(s, n) ==
    IF s.n < n THEN [s EXCEPT !.tail = "torn"] ELSE [s EXCEPT !.n = n, !.tail = "end"]

Perform(d, step) ==
    LET before == SelectSeq(d.segs, LAMBDA s : s.lsn < step.lsn)
        after == SelectSeq(d.segs, LAMBDA s : s.lsn > step.lsn)
    IN  CASE step.do = "quarantine" -> [d EXCEPT !.segs = before \o after]
          [] step.do = "truncate" ->
               [d EXCEPT !.segs = before \o <<Cut(@[Len(before) + 1], step.n)>> \o after]
          [] step.do = "create" -> [d EXCEPT !.segs = before \o <<NewSegment(step.lsn, 0)>> \o after]
          [] step.do = "setAside" -> [d EXCEPT !.manifest = "missing"]
          [] step.do = "write" -> [d EXCEPT !.manifest = "ok"]

-----------------------------------------------------------------------------
NewDirectory == [manifest |-> "missing", segs |-> <<>>, snaps |-> <<>>]

Idle == [state |-> "idle", options |-> {}, todo |-> <<>>, problem |-> Problem(NewDirectory)]

Init ==
    /\ dir = NewDirectory
    /\ lock = "none"
    /\ repair = [r \in Repairers |-> Idle]
    /\ harmed = 0 /\ crashes = 0

(* The server, with what its writes and checkpoints do to the files.  A    *)
(* lock left by a process of this host that is gone counts as none; one of *)
(* another host is taken over with the option reclaimLock.                 *)
StartServer ==
    /\ lock \in {"none", "foreign"}
    /\ dir' = Open(dir).dir
    /\ lock' = IF Open(dir).ok THEN "server" ELSE "none"
    /\ UNCHANGED <<repair, harmed, crashes>>

(* append, with a rotation when the segment is full. *)
AppendRecord ==
    LET s == Last(dir.segs)
    IN  /\ lock = "server" /\ LastIn(s) < MaxLsn
        /\ dir' = [dir EXCEPT !.segs =
                     IF s.n = SegmentSize THEN Append(@, NewSegment(LastIn(s) + 1, 1))
                     ELSE Append(Front(@), [s EXCEPT !.n = @ + 1])]
        /\ UNCHANGED <<lock, repair, harmed, crashes>>

(* A checkpoint: a snapshot, the oldest ones removed, and the segments     *)
(* that only hold what the oldest one left covers (truncateThrough).       *)
Checkpoint ==
    LET lsn == LastIn(Last(dir.segs))
        all == DOMAIN dir.snaps \cup {lsn}
        kept == {l \in all : Cardinality({m \in all : m > l}) < Retention}
        Needed(s) == \A i \in DOMAIN dir.segs :
                        dir.segs[i].lsn > s.lsn => dir.segs[i].lsn > Min(kept) + 1
    IN  /\ lock = "server" /\ lsn > Base(dir)
        /\ dir' = [dir EXCEPT !.snaps = [l \in kept |-> IF l = lsn THEN "ok" ELSE @[l]],
                              !.segs = SelectSeq(@, Needed)]
        /\ UNCHANGED <<lock, repair, harmed, crashes>>

StopServer ==
    /\ lock = "server"
    /\ lock' = "none"
    /\ UNCHANGED <<dir, repair, harmed, crashes>>

(* A crash may leave a torn record, or a segment without a header.         *)
CrashServer ==
    LET s == Last(dir.segs)
        headless == [NewSegment(LastIn(s) + 1, 0) EXCEPT !.header = "none"]
    IN  /\ lock = "server" /\ crashes < MaxCrashes
        /\ dir' \in {dir, [dir EXCEPT !.segs =
                             IF s.n < SegmentSize THEN Append(Front(@), [s EXCEPT !.tail = "torn"])
                             ELSE Append(@, headless)]}
        /\ lock' \in {"none", "foreign"}
        /\ crashes' = crashes + 1
        /\ UNCHANGED <<repair, harmed>>

-----------------------------------------------------------------------------
(* Damage to the files while nobody looks at them.  A payload that is      *)
(* wrong in the last record of a file looks like a torn one.               *)
HarmedRecord(s) ==
    {[s EXCEPT !.n = n, !.tail = "corrupt"] : n \in 0 .. s.n - 1}
        \cup IF s.n > 0 /\ s.tail = "end" THEN {[s EXCEPT !.n = @ - 1, !.tail = "torn"]} ELSE {}

Harm ==
    /\ lock \in {"none", "foreign"} /\ harmed < MaxHarm
    /\ \A r \in Repairers : repair[r].state = "idle"
    /\ \/ /\ "record" \in Harms
          /\ \E i \in DOMAIN dir.segs : \E t \in HarmedRecord(dir.segs[i]) :
               dir' = [dir EXCEPT !.segs[i] = t]
       \/ /\ "header" \in Harms
          /\ \E i \in DOMAIN dir.segs :
               dir' = [dir EXCEPT !.segs[i] = [@ EXCEPT !.header = "bad", !.n = 0, !.tail = "end"]]
       \/ "lost" \in Harms /\ \E i \in DOMAIN dir.segs : dir' = [dir EXCEPT !.segs = RemoveAt(@, i)]
       \/ "snapshot" \in Harms /\ \E l \in DOMAIN dir.snaps : dir' = [dir EXCEPT !.snaps[l] = "damaged"]
       \/ "manifest" \in Harms /\ \E m \in Manifests \ {"ok"} : dir' = [dir EXCEPT !.manifest = m]
    /\ dir' # dir
    /\ harmed' = harmed + 1
    /\ UNCHANGED <<lock, repair, crashes>>

-----------------------------------------------------------------------------
(* repairDataDirectory. *)

(* acquireDirectoryLock with the option clearLock or without. *)
Takes(options) == lock = "none" \/ (lock = "foreign" /\ "clearLock" \in options)

(* Up to the taking of the lock.  With nothing planned it ends here when   *)
(* it is blocked, and in any case when the lock is not its to take.        *)
PlanRepair(r) ==
    /\ repair[r].state = "idle"
    /\ ~ (Blocked(dir) /\ Plan(dir, Everything) = <<>>)
    /\ \E options \in Consents :
         /\ Takes(options)
         /\ repair' = [repair EXCEPT ![r] = [state |-> "planned", options |-> options,
                                             todo |-> Plan(dir, options), problem |-> Problem(dir)]]
    /\ UNCHANGED <<dir, lock, harmed, crashes>>

(* Mutant: no second look. *)
AcquireBlindly(r) ==
    LET taken == Takes(repair[r].options)
    IN  /\ repair[r].state = "planned"
        /\ lock' = IF taken THEN r ELSE lock
        /\ repair' = [repair EXCEPT ![r] =
             IF taken THEN [@ EXCEPT !.state = "applying", !.problem = Idle.problem] ELSE Idle]
        /\ UNCHANGED <<dir, harmed, crashes>>

(* The lock is taken, and the directory looked at again under it. *)
Acquire(r) ==
    LET taken == Takes(repair[r].options)
        same == Problem(dir) = repair[r].problem
    IN  /\ repair[r].state = "planned"
        /\ lock' = IF ~ taken THEN lock ELSE IF same THEN r ELSE "none"
        /\ repair' = [repair EXCEPT ![r] =
             IF taken /\ same THEN [@ EXCEPT !.state = "applying", !.problem = Idle.problem] ELSE Idle]
        /\ UNCHANGED <<dir, harmed, crashes>>

Apply(r) ==
    /\ repair[r].state = "applying" /\ repair[r].todo # <<>>
    /\ Possible(dir, Head(repair[r].todo))
    /\ dir' = Perform(dir, Head(repair[r].todo))
    /\ repair' = [repair EXCEPT ![r].todo = Tail(@)]
    /\ UNCHANGED <<lock, harmed, crashes>>

(* The plan is carried out, or a step throws; either way the lock goes.    *)
Finish(r) ==
    /\ repair[r].state = "applying"
    /\ repair[r].todo # <<>> => ~ Possible(dir, Head(repair[r].todo))
    /\ repair' = [repair EXCEPT ![r] = Idle]
    /\ lock' = "none"
    /\ UNCHANGED <<dir, harmed, crashes>>

(* The process dies, or the disk fails it, between two steps.              *)
Interrupted(r) ==
    /\ repair[r].state = "applying" /\ crashes < MaxCrashes
    /\ repair' = [repair EXCEPT ![r] = Idle]
    /\ lock' \in {"none", "foreign"}
    /\ crashes' = crashes + 1
    /\ UNCHANGED <<dir, harmed>>

Next ==
    \/ StartServer \/ AppendRecord \/ Checkpoint \/ StopServer \/ CrashServer \/ Harm
    \/ \E r \in Repairers : PlanRepair(r) \/ Acquire(r) \/ Apply(r) \/ Finish(r) \/ Interrupted(r)

Spec == Init /\ [][Next]_vars

-----------------------------------------------------------------------------
(* The state has its type, and a repair changes the directory only with    *)
(* the lock in its hands.                                                  *)
TypeOK ==
    /\ dir.manifest \in Manifests
    /\ \A i \in DOMAIN dir.segs : /\ dir.segs[i] \in Segment
                                  /\ i > 1 => dir.segs[i].lsn > dir.segs[i - 1].lsn
    /\ \A l \in DOMAIN dir.snaps : l \in 1 .. MaxLsn /\ dir.snaps[l] \in {"ok", "damaged"}
    /\ Cardinality(DOMAIN dir.snaps) <= Retention
    /\ lock \in {"none", "foreign", "server"} \cup Repairers
    /\ \A r \in Repairers : (lock = r) = (repair[r].state = "applying")

(* The verdict of inspect is what the server does: it opens exactly the    *)
(* directories judged recoverable ("the same checks the server makes",     *)
(* inspect.ts), however damaged, and in the midst of a repair too.         *)
VerdictTrue == TypeOK /\ Recoverable(dir) = Open(dir).ok

(* What is left to read: in a segment, or in a snapshot. *)
Held(d) ==
    1 .. Base(d) \cup UNION {d.segs[i].lsn .. LastIn(d.segs[i]) : i \in DOMAIN d.segs}

(* A repair that was not allowed to lose data loses no record: what it     *)
(* moves away is in a snapshot.                                            *)
LosesNothingUnasked ==
    [][\A r \in Repairers :
         lock = r /\ "allowDataLoss" \notin repair[r].options => Held(dir) \subseteq Held(dir')]_vars

(* A repair, however old its plan, does no harm to a directory that the    *)
(* server would open: it opens still, with all its records.                *)
OpenableUnharmed ==
    [][\A r \in Repairers :
         lock = r /\ dir' # dir /\ Open(dir).ok
         => /\ Open(dir').ok
            /\ LastIn(Last(Open(dir').dir.segs)) >= LastIn(Last(Open(dir).dir.segs))]_vars

Repaired(d) == FoldLeft(Perform, d, Plan(d, Everything))

(* Wherever an earlier repair stopped, repairing twice with every option   *)
(* is enough: the directory opens with everything up to the first damage,  *)
(* unless the repair has said that it is blocked.                          *)
RepairConverges ==
    LET once == Repaired(dir)
        twice == Repaired(once)
    IN  \/ Blocked(dir) \/ Blocked(once)
        \/ /\ Open(twice).ok
           /\ LastIn(Last(Open(twice).dir.segs)) >= Max({Base(dir), InspectLog(dir).lastLsn})
=============================================================================
