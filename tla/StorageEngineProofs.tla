------------------------ MODULE StorageEngineProofs ------------------------
(***************************************************************************)
(* Proofs about StorageEngine, for any data, any log and any number of     *)
(* checkpoints and crashes: retention and truncation leave a snapshot that *)
(* recovery can start from, if the retention exceeds the number of         *)
(* snapshots the disk damages; memory and snapshots are what the log says, *)
(* and the directory opens again, if no checkpoint is due between the      *)
(* building of an index and its record.                                    *)
(***************************************************************************)
EXTENDS StorageEngine, FiniteSetTheorems, WellFoundedInduction, TLAPS

(* The log, its stable part and the record being written. *)
LogShape ==
    /\ recs \in Seq(Operation) /\ doubt \in Seq(Operation)
    /\ hard \in 0 .. Len(recs)
    /\ first \in Nat \ {0}
    /\ call.step \in {"due", "append"} => call.op \in Operation

(* No snapshot is ahead of the stable log. *)
SnapShape ==
    \A n \in DOMAIN snaps :
        /\ n \in Nat /\ n <= hard
        /\ snaps[n].file \in {"good", "damaged"}
        /\ snaps[n].lost \in {"self", "none", "damaged"}

(* A checkpoint is named for a stable record, and once the directory is    *)
(* flushed every name is stable.                                           *)
CheckpointShape ==
    /\ ckpt.phase # "none" => ckpt.lsn \in Nat /\ ckpt.lsn <= hard
    /\ ckpt.phase \in {"published", "pruned"} =>
          \A n \in DOMAIN snaps : snaps[n].lost = "self"

(* The names at or after the start of the log that the power cannot take. *)
Safe(files, start) == {n \in DOMAIN files : files[n].lost # "none" /\ start <= n + 1}

(* The ones that cannot be read, or could not after a power loss. *)
Bad(files) == {n \in DOMAIN files : files[n].file # "good" \/ files[n].lost = "damaged"}

(* A truncated log has Retention names to start from, readable or not. *)
Enough == first > 1 => Cardinality(Safe(snaps, first)) >= Retention

(* The disk has damaged all the unreadable ones. *)
FewBad == damage \in 0 .. MaxDamage /\ Cardinality(Bad(snaps)) <= damage

EngineInv == LogShape /\ SnapShape /\ CheckpointShape /\ Enough /\ FewBad

-----------------------------------------------------------------------------
(* A set of numbers has a least element. *)
LEMMA Least ==
    ASSUME NEW S \in SUBSET Nat, S # {}
    PROVE  \E m \in S : \A n \in S : m <= n
<1> DEFINE less == OpToRel(<, Nat)
<1>1. IsWellFoundedOn(less, Nat)
  BY NatLessThanWellFounded
<1>2. PICK m \in S : \A n \in S : ~ (<<n, m>> \in less)
  <2> HIDE DEF less
  <2> QED BY <1>1, WFMin
<1>3. ASSUME NEW n \in S PROVE m <= n
  <2>1. n < m => <<n, m>> \in less
    BY DEF OpToRel
  <2>2. ~ (n < m)
    <3> HIDE DEF less
    <3> QED BY <1>2, <2>1
  <2> HIDE DEF less
  <2>3. m \in Nat /\ n \in Nat
    OBVIOUS
  <2> QED BY <2>2, <2>3
<1> HIDE DEF less
<1> QED BY <1>3

(* A bounded set of numbers has a greatest element. *)
LEMMA Greatest ==
    ASSUME NEW S \in SUBSET Nat, S # {}, NEW h \in Nat, \A n \in S : n <= h
    PROVE  \E m \in S : \A n \in S : n <= m
<1> DEFINE T == {x \in Nat : \E n \in S : x = h - n}
<1>1. PICK s \in S : TRUE
  OBVIOUS
<1>2. s \in Nat /\ s <= h
  OBVIOUS
<1>3. h - s \in T
  BY <1>2
<1>4. T \in SUBSET Nat /\ T # {}
  BY <1>3
<1>5. PICK t \in T : \A u \in T : t <= u
  <2> HIDE DEF T
  <2> QED BY <1>4, Least
<1>6. PICK m \in S : t = h - m
  OBVIOUS
<1>7. ASSUME NEW n \in S PROVE n <= m
  <2>1. n \in Nat /\ n <= h /\ m \in Nat
    OBVIOUS
  <2>2. h - n \in T
    BY <2>1
  <2> QED BY <1>5, <1>6, <2>1, <2>2
<1> QED BY <1>7

(* The snapshot files are finitely many. *)
LEMMA SnapsFinite ==
    ASSUME SnapShape, hard \in Nat
    PROVE  DOMAIN snaps \in SUBSET Nat /\ IsFiniteSet(DOMAIN snaps)
<1>1. DOMAIN snaps \in SUBSET Nat /\ \A n \in DOMAIN snaps : n <= hard
  BY DEF SnapShape
<1> QED BY <1>1, FS_BoundedSetOfNaturals

(* A subset of the snapshots is finite, and no larger than one around it. *)
LEMMA SmallerSet ==
    ASSUME NEW S, NEW T, IsFiniteSet(T), S \subseteq T
    PROVE  /\ IsFiniteSet(S)
           /\ Cardinality(S) \in Nat /\ Cardinality(T) \in Nat
           /\ Cardinality(S) <= Cardinality(T)
  BY FS_Subset, FS_CardinalityType

(* The steps of the engine, one by one. *)
LEMMA NextCases ==
    ASSUME [Next]_vars
    PROVE  \/ \E o \in Operation : StartWrite(o)
           \/ Due \/ FinishWrite \/ Flush
           \/ \E kind \in {"sync", "background"} : Checkpoint(kind)
           \/ Rename \/ WriteFails \/ SyncDirectory \/ Prune \/ Truncate
           \/ Close \/ CloseLog \/ Open \/ Damage
           \/ \E kind \in Crashes : Crash(kind)
           \/ UNCHANGED vars
  BY DEF Next, CheckpointStep

-----------------------------------------------------------------------------
(* truncateThrough moves the start of the log to the record after the      *)
(* oldest kept snapshot at most.                                           *)
LEMMA TruncateReach ==
    ASSUME Truncate
    PROVE  first' = first \/ \E n \in OldestKept : first' \in first .. n + 1
<1> DEFINE reach == UNION {first .. n + 1 : n \in OldestKept}
<1>1. first' \in {first} \cup reach
  BY DEF Truncate
<1>2. \A x \in reach : \E n \in OldestKept : x \in first .. n + 1
  BY Zenon
<1> HIDE DEF reach
<1> QED BY <1>1, <1>2

(* The stable part of the log only grows, and nothing takes the log's end  *)
(* back over it.                                                           *)
LEMMA LogStep ==
    ASSUME LogShape, SnapShape, [Next]_vars
    PROVE  LogShape' /\ hard <= hard'
<1> USE DEF LogShape
<1>1. ASSUME NEW o \in Operation, StartWrite(o) PROVE LogShape' /\ hard <= hard'
  BY <1>1 DEF StartWrite, logVars
<1>2. ASSUME NEW kind, Begin(kind) PROVE recs' = recs /\ doubt' = doubt /\ first' = first
                                         /\ hard' = Len(recs)
  BY <1>2 DEF Begin
<1>3. ASSUME BeginFails PROVE recs' = recs /\ doubt' = doubt /\ first' = first /\ hard' = hard
  BY <1>3 DEF BeginFails
<1>4. CASE Due
  <2>1. recs' = recs /\ doubt' = doubt /\ first' = first /\ hard' \in {hard, Len(recs)}
    BY <1>2, <1>3, <1>4 DEF Due, logVars
  <2>2. call.step = "due" /\ call' = [call EXCEPT !.step = "append"]
    BY <1>4 DEF Due
  <2>3. call'.op = call.op
    BY <2>2
  <2> QED BY <2>1, <2>2, <2>3
<1>5. CASE FinishWrite
  <2>1. call'.step = "none"
    BY <1>5 DEF FinishWrite
  <2>2. call.op \in Operation
    BY <1>5 DEF FinishWrite
  <2>3. CASE AppendOk
    <3>1. recs' \in Seq(Operation) /\ Len(recs') = Len(recs) + 1
      BY <2>2, <2>3 DEF AppendOk
    <3> QED BY <2>1, <2>3, <3>1 DEF AppendOk
  <2>4. CASE AppendFails
    <3>1. recs' = recs /\ hard' = hard /\ first' = first /\ doubt' \in {doubt, <<call.op>>}
      BY <2>4 DEF AppendFails, logVars
    <3>2. doubt' \in Seq(Operation)
      <4>1. <<call.op>> \in Seq(Operation) /\ doubt \in Seq(Operation)
        BY <2>2
      <4> QED BY <3>1, <4>1
    <3>3. hard \in Nat
      OBVIOUS
    <3> QED BY <2>1, <3>1, <3>2, <3>3
  <2> QED BY <1>5, <2>3, <2>4 DEF FinishWrite
<1>6. CASE Flush
  BY <1>6 DEF Flush
<1>7. ASSUME NEW kind, Checkpoint(kind) PROVE LogShape' /\ hard <= hard'
  BY <1>2, <1>3, <1>7 DEF Checkpoint
<1>8. CASE Rename \/ WriteFails \/ SyncDirectory \/ Prune \/ Damage \/ Open
  BY <1>8 DEF Rename, WriteFails, SyncDirectory, Prune, Damage, Open, logVars
<1>9. CASE Truncate
  <2>1. recs' = recs /\ doubt' = doubt /\ hard' = hard /\ call' = call
    BY <1>9 DEF Truncate
  <2>2. first' = first \/ \E n \in OldestKept : first' \in first .. n + 1
    BY <1>9, TruncateReach
  <2>3. \A n \in OldestKept : n \in Nat
    BY DEF OldestKept, SnapShape
  <2> QED BY <2>1, <2>2, <2>3
<1>10. CASE Close
  <2>1. call'.step = "close"
    BY <1>10 DEF Close
  <2>2. recs' = recs /\ doubt' = doubt /\ first' = first /\ hard' \in {hard, Len(recs)}
    BY <1>2, <1>3, <1>10 DEF Close, logVars
  <2> QED BY <2>1, <2>2
<1>11. CASE CloseLog
  <2> DEFINE all == recs \o doubt
  <2>3. all \in Seq(Operation) /\ Len(all) = Len(recs) + Len(doubt)
    OBVIOUS
  <2>4. Len(recs) \in Nat /\ Len(doubt) \in Nat
    OBVIOUS
  <2>5. recs' \in {recs, all}
    BY <1>11 DEF CloseLog
  <2> HIDE DEF all
  <2>1. recs' \in Seq(Operation) /\ Len(recs') >= Len(recs)
    BY <2>3, <2>4, <2>5
  <2>2. hard' \in {hard, Len(recs)} /\ first' = first /\ doubt' = <<>> /\ call'.step = "none"
    BY <1>11 DEF CloseLog, Forget
  <2> QED BY <2>1, <2>2
<1>12. ASSUME NEW kind, Crash(kind) PROVE LogShape' /\ hard <= hard'
  <2>1. InFlight \in Seq(Operation)
    BY DEF InFlight
  <2> DEFINE all == recs \o InFlight
  <2>2. all \in Seq(Operation) /\ Len(all) \in Nat /\ Len(recs) <= Len(all)
    BY <2>1
  <2> HIDE DEF all
  <2>3. PICK n \in IF kind = "process" THEN Len(recs) .. Len(all) ELSE hard .. Len(all) :
            recs' = SubSeq(all, 1, n) /\ hard' = IF kind = "process" THEN hard ELSE n
    BY <1>12 DEF Crash, all
  <2>4. n \in hard .. Len(all)
    BY <2>2, <2>3
  <2>5. recs' \in Seq(Operation) /\ Len(recs') = n
    BY <2>2, <2>3, <2>4
  <2>6. hard <= hard' /\ hard' \in 0 .. Len(recs')
    BY <2>2, <2>3, <2>4, <2>5
  <2>7. first' = first /\ doubt' = <<>> /\ call'.step = "none"
    BY <1>12 DEF Crash, Forget
  <2> QED BY <2>5, <2>6, <2>7
<1>13. CASE UNCHANGED vars
  BY <1>13 DEF vars
<1> QED BY <1>1, <1>4, <1>5, <1>6, <1>7, <1>8, <1>9, <1>10, <1>11, <1>12, <1>13, NextCases

(* Snapshots stay below the stable part of the log: only Rename adds one,  *)
(* and beginCheckpoint flushed the log up to its name.                     *)
LEMMA SnapStep ==
    ASSUME LogShape, SnapShape, CheckpointShape, [Next]_vars
    PROVE  SnapShape'
<1>1. hard \in Nat /\ hard' \in Nat /\ hard <= hard'
  BY LogStep DEF LogShape
<1>2. CASE snaps' = snaps
  BY <1>1, <1>2 DEF SnapShape
<1>3. CASE Rename
  <2>1. ckpt.lsn \in Nat /\ ckpt.lsn <= hard
    BY <1>3 DEF Rename, CheckpointShape
  <2>2. Beneath(ckpt.lsn) \in {"self", "none", "damaged"}
    BY DEF Beneath, SnapShape
  <2>3. snaps' = WithSnapshot(ckpt.lsn, Snapshot(ckpt.data, "good", Beneath(ckpt.lsn)))
    BY <1>3 DEF Rename
  <2> QED BY <1>1, <2>1, <2>2, <2>3 DEF SnapShape, WithSnapshot, Snapshot
<1>4. CASE SyncDirectory /\ snaps' # snaps
  <2>1. snaps' = Settled
    BY <1>4 DEF SyncDirectory
  <2> QED BY <1>1, <2>1 DEF Settled, Snapshot, SnapShape
<1>5. CASE Prune
  <2>1. \A S : SnapShape => \A n \in DOMAIN snaps \ S : Restrict(snaps, DOMAIN snaps \ S)[n] = snaps[n]
    BY DEF Restrict
  <2>2. \E S : snaps' = Restrict(snaps, DOMAIN snaps \ S)
    BY <1>5 DEF Prune
  <2> QED BY <1>1, <2>1, <2>2 DEF Restrict, SnapShape
<1>6. ASSUME NEW kind, Crash(kind), snaps' # snaps PROVE SnapShape'
  <2>1. CASE snaps' = Settled
    BY <1>1, <2>1 DEF Settled, Snapshot, SnapShape
  <2>2. CASE snaps' = Reverted
    BY <1>1, <2>2 DEF Reverted, Snapshot, SnapShape
  <2> QED BY <1>6, <2>1, <2>2 DEF Crash
<1>7. CASE Damage
  <2>1. PICK n \in DOMAIN snaps :
            snaps' = WithSnapshot(n, Snapshot(snaps[n].data, "damaged", snaps[n].lost))
    BY <1>7 DEF Damage
  <2> QED BY <1>1, <2>1 DEF SnapShape, WithSnapshot, Snapshot
<1>8. CASE UNCHANGED vars
  BY <1>2, <1>8 DEF vars
<1> QED BY <1>2, <1>3, <1>4, <1>5, <1>6, <1>7, <1>8, NextCases
       DEF StartWrite, Due, FinishWrite, Flush, Checkpoint, WriteFails, Truncate,
           Close, CloseLog, Open

(* Every checkpoint that is begun has flushed the log up to its name, and  *)
(* it prunes and truncates only after syncDirectory.                       *)
LEMMA CheckpointShapeStep ==
    ASSUME LogShape, SnapShape, CheckpointShape, [Next]_vars
    PROVE  CheckpointShape'
<1>0. NoCheckpoint => ckpt'.phase = "none"
  BY DEF NoCheckpoint
<1>1. hard \in Nat /\ hard' \in Nat /\ hard <= hard' /\ Len(recs) \in Nat
  BY LogStep DEF LogShape
<1>2. CASE ckpt'.phase = "none"
  BY <1>2 DEF CheckpointShape
<1>3. CASE ckpt' = ckpt /\ snaps' = snaps
  BY <1>1, <1>3 DEF CheckpointShape
<1>4. ASSUME NEW kind, Begin(kind) PROVE CheckpointShape'
  BY <1>1, <1>4 DEF Begin, CheckpointShape
<1>5. CASE Rename
  <2>1. ckpt'.lsn = ckpt.lsn /\ ckpt'.phase \in {"writing", "renamed"} /\ hard' = hard
    BY <1>5 DEF Rename, logVars
  <2> QED BY <1>5, <2>1 DEF Rename, CheckpointShape
<1>6. CASE SyncDirectory /\ ckpt'.phase # "none"
  <2>1. ckpt' = [ckpt EXCEPT !.phase = "published"] /\ snaps' = Settled
    BY <1>0, <1>6 DEF SyncDirectory
  <2>2. ckpt'.lsn = ckpt.lsn
    BY <2>1
  <2>3. hard' = hard
    BY <1>6 DEF SyncDirectory, logVars
  <2> QED BY <1>6, <2>1, <2>2, <2>3 DEF SyncDirectory, Settled, Snapshot, CheckpointShape
<1>7. CASE Prune /\ ckpt'.phase # "none"
  <2>1. /\ ckpt' = [ckpt EXCEPT !.phase = "pruned"]
        /\ snaps' = Restrict(snaps, DOMAIN snaps \ Surplus)
    BY <1>0, <1>7 DEF Prune
  <2>2. ckpt'.lsn = ckpt.lsn
    BY <2>1
  <2>3. hard' = hard
    BY <1>7 DEF Prune, logVars
  <2> QED BY <1>7, <2>1, <2>2, <2>3 DEF Prune, Restrict, CheckpointShape
<1>8. CASE Damage
  <2>1. PICK n \in DOMAIN snaps :
            snaps' = WithSnapshot(n, Snapshot(snaps[n].data, "damaged", snaps[n].lost))
    BY <1>8 DEF Damage
  <2>2. ckpt' = ckpt /\ hard' = hard
    BY <1>8 DEF Damage, logVars
  <2> QED BY <2>1, <2>2 DEF WithSnapshot, Snapshot, CheckpointShape
<1>9. CASE Due
  BY <1>3, <1>4, <1>9 DEF Due
<1>10. ASSUME NEW kind, Checkpoint(kind) PROVE CheckpointShape'
  BY <1>2, <1>4, <1>10 DEF Checkpoint, NoCheckpoint
<1>11. CASE Close
  BY <1>2, <1>4, <1>11 DEF Close, NoCheckpoint
<1>12. CASE WriteFails \/ Truncate \/ CloseLog \/ \E kind \in Crashes : Crash(kind)
  BY <1>2, <1>12 DEF WriteFails, Truncate, CloseLog, Crash, Forget, NoCheckpoint
<1>13. CASE UNCHANGED vars
  BY <1>3, <1>13 DEF vars
<1> QED BY <1>2, <1>3, <1>5, <1>6, <1>7, <1>8, <1>9, <1>10, <1>11, <1>12, <1>13, NextCases
       DEF StartWrite, FinishWrite, Flush, Open

-----------------------------------------------------------------------------
(* slice(retention): the snapshots that are left after the surplus ones    *)
(* are pruned are as many as are to be kept.                               *)
LEMMA KeepsRetention ==
    ASSUME SnapShape, hard \in Nat, Cardinality(DOMAIN snaps) >= Retention
    PROVE  Cardinality(DOMAIN snaps \ Surplus) >= Retention
<1>1. CASE Surplus = {}
  <2>1. DOMAIN snaps \ Surplus = DOMAIN snaps
    BY <1>1
  <2> QED BY <2>1
<1>2. CASE Surplus # {}
  <2>1. Surplus \in SUBSET Nat /\ \A n \in Surplus : n <= hard
    BY DEF Surplus, SnapShape
  <2>2. PICK m \in Surplus : \A n \in Surplus : n <= m
    BY <1>2, <2>1, Greatest
  <2>3. Newer(m) \subseteq DOMAIN snaps \ Surplus
    <3> SUFFICES ASSUME NEW n \in DOMAIN snaps, n > m, n \in Surplus PROVE FALSE
      BY DEF Newer
    <3> QED BY <2>1, <2>2
  <2>4. IsFiniteSet(DOMAIN snaps \ Surplus)
    BY SnapsFinite, SmallerSet
  <2>5. Cardinality(Newer(m)) >= Retention
    BY DEF Surplus
  <2> QED BY <2>3, <2>4, <2>5, SmallerSet, EngineConstants
<1> QED BY <1>1, <1>2

(* They are also the newest ones: none is older than one that is pruned,   *)
(* so none is below the start of the log.                                  *)
LEMMA KeepsNewest ==
    ASSUME SnapShape, hard \in Nat, first \in Nat,
           Cardinality(Safe(snaps, first)) >= Retention
    PROVE  \A n \in DOMAIN snaps \ Surplus : first <= n + 1
<1> SUFFICES ASSUME NEW n \in DOMAIN snaps, n \notin Surplus, ~ (first <= n + 1) PROVE FALSE
  OBVIOUS
<1>1. n \in Nat
  BY DEF SnapShape
<1>2. Safe(snaps, first) \subseteq Newer(n)
  <2> SUFFICES ASSUME NEW m \in DOMAIN snaps, first <= m + 1 PROVE m > n
    BY DEF Safe, Newer
  <2>1. m \in Nat
    BY DEF SnapShape
  <2> QED BY <1>1, <2>1
<1>3. IsFiniteSet(Newer(n))
  BY SnapsFinite, SmallerSet DEF Newer
<1>4. Cardinality(Newer(n)) >= Retention
  BY <1>2, <1>3, SmallerSet, EngineConstants
<1> QED BY <1>4 DEF Surplus

(* Pruning and truncation leave Retention stable names at or after the     *)
(* start of the log; nothing else takes a stable name away.                *)
LEMMA EnoughStep ==
    ASSUME EngineInv, [Next]_vars, SnapShape'
    PROVE  Enough'
<1>1. /\ hard \in Nat /\ hard' \in Nat /\ hard <= hard' /\ first \in Nat \ {0}
      /\ first' \in Nat \ {0} /\ SnapShape
  BY LogStep DEF LogShape, EngineInv
<1>2. /\ DOMAIN snaps \in SUBSET Nat /\ IsFiniteSet(DOMAIN snaps)
      /\ IsFiniteSet(DOMAIN snaps')
  <2>1. DOMAIN snaps' \in SUBSET Nat /\ \A n \in DOMAIN snaps' : n <= hard'
    BY DEF SnapShape
  <2> QED BY <1>1, <2>1, SnapsFinite, FS_BoundedSetOfNaturals
<1>3. ASSUME first' = first, Safe(snaps, first) \subseteq Safe(snaps', first) PROVE Enough'
  <2>1. IsFiniteSet(Safe(snaps', first))
    BY <1>2, SmallerSet DEF Safe
  <2>2. Cardinality(Safe(snaps, first)) <= Cardinality(Safe(snaps', first))
        /\ Cardinality(Safe(snaps, first)) \in Nat /\ Cardinality(Safe(snaps', first)) \in Nat
    BY <1>3, <2>1, SmallerSet
  <2> QED BY <1>3, <2>2, EngineConstants DEF EngineInv, Enough
<1>4. CASE first' = first /\ snaps' = snaps
  BY <1>4 DEF EngineInv, Enough
<1>5. CASE Rename
  <2>1. snaps' = WithSnapshot(ckpt.lsn, Snapshot(ckpt.data, "good", Beneath(ckpt.lsn)))
    BY <1>5 DEF Rename
  <2>2. \A n \in DOMAIN snaps : snaps[n].lost # "none" => Beneath(n) # "none"
    BY DEF Beneath
  <2>3. Safe(snaps, first) \subseteq Safe(snaps', first)
    BY <2>1, <2>2 DEF Safe, WithSnapshot, Snapshot
  <2> QED BY <1>3, <1>5, <2>3 DEF Rename, logVars
<1>6. CASE snaps' \in {Settled, Reverted} /\ first' = first
  <2>1. Safe(snaps, first) \subseteq Safe(snaps', first)
    BY <1>6 DEF Safe, Settled, Reverted, Snapshot
  <2> QED BY <1>3, <1>6, <2>1
<1>7. CASE Damage
  <2>1. PICK n \in DOMAIN snaps :
            snaps' = WithSnapshot(n, Snapshot(snaps[n].data, "damaged", snaps[n].lost))
    BY <1>7 DEF Damage
  <2>2. Safe(snaps, first) \subseteq Safe(snaps', first)
    BY <2>1 DEF Safe, WithSnapshot, Snapshot
  <2> QED BY <1>3, <1>7, <2>2 DEF Damage, logVars
<1>8. CASE Prune
  <2>1. first' = first
    BY <1>8 DEF Prune, logVars
  <2>2. PICK S \in SUBSET Surplus : snaps' = Restrict(snaps, DOMAIN snaps \ S)
    BY <1>8 DEF Prune
  <2>3. \A n \in DOMAIN snaps : snaps[n].lost = "self"
    BY <1>8 DEF Prune, EngineInv, CheckpointShape
  <2> SUFFICES ASSUME first > 1 PROVE Cardinality(Safe(snaps', first)) >= Retention
    BY <2>1 DEF Enough
  <2>4. Cardinality(Safe(snaps, first)) >= Retention
    BY DEF EngineInv, Enough
  <2>5. Cardinality(DOMAIN snaps) >= Retention
    <3>1. Safe(snaps, first) \subseteq DOMAIN snaps
      BY DEF Safe
    <3> QED BY <1>2, <2>4, <3>1, SmallerSet, EngineConstants
  <2>6. Cardinality(DOMAIN snaps \ Surplus) >= Retention
    BY <1>1, <2>5, KeepsRetention
  <2>7. \A n \in DOMAIN snaps \ Surplus : first <= n + 1
    BY <1>1, <2>4, KeepsNewest
  <2>8. DOMAIN snaps \ Surplus \subseteq Safe(snaps', first)
    BY <2>2, <2>3, <2>7 DEF Safe, Restrict
  <2>9. IsFiniteSet(Safe(snaps', first))
    BY <1>2, SmallerSet DEF Safe
  <2> QED BY <2>6, <2>8, <2>9, SmallerSet, EngineConstants
<1>9. CASE Truncate /\ first' # first
  <2>1. PICK n \in OldestKept : first' \in first .. n + 1
    BY <1>9, TruncateReach
  <2>2. snaps' = snaps /\ \A m \in DOMAIN snaps : snaps[m].lost = "self"
    BY <1>9 DEF Truncate, EngineInv, CheckpointShape
  <2>3. n \in DOMAIN snaps /\ n \in Nat /\ Cardinality(Newer(n)) = Retention - 1
    BY <1>2 DEF OldestKept
  <2>4. n \notin Newer(n) /\ IsFiniteSet(Newer(n))
    BY <1>2, <2>3, SmallerSet DEF Newer
  <2>5. Cardinality(Newer(n) \cup {n}) = Retention
    <3>1. Cardinality(Newer(n) \cup {n}) = Cardinality(Newer(n)) + 1
      BY <2>4, FS_AddElement
    <3> QED BY <2>3, <3>1, EngineConstants
  <2>6. Newer(n) \cup {n} \subseteq Safe(snaps', first')
    <3>1. \A m \in Newer(n) \cup {n} : m \in DOMAIN snaps /\ m >= n /\ m \in Nat
      BY <1>2, <2>3 DEF Newer
    <3>2. \A m \in Newer(n) \cup {n} : first' <= m + 1
      BY <1>1, <2>1, <2>3, <3>1
    <3> QED BY <2>2, <3>1, <3>2 DEF Safe
  <2>7. IsFiniteSet(Safe(snaps', first'))
    BY <1>2, SmallerSet DEF Safe
  <2> QED BY <2>5, <2>6, <2>7, SmallerSet, EngineConstants DEF Enough
<1>10. CASE SyncDirectory
  BY <1>4, <1>6, <1>10 DEF SyncDirectory, logVars
<1>11. ASSUME NEW kind, Crash(kind) PROVE Enough'
  BY <1>4, <1>6, <1>11 DEF Crash
<1>12. CASE Truncate /\ first' = first
  BY <1>4, <1>12 DEF Truncate
<1>13. CASE Due \/ Close \/ \E kind \in {"sync", "background"} : Checkpoint(kind)
  BY <1>4, <1>13 DEF Due, Close, Checkpoint, Begin, BeginFails, logVars
<1>14. CASE FinishWrite
  BY <1>4, <1>14 DEF FinishWrite, AppendOk, AppendFails, logVars
<1>15. CASE UNCHANGED vars
  BY <1>4, <1>15 DEF vars
<1> QED BY <1>4, <1>5, <1>7, <1>8, <1>9, <1>10, <1>11, <1>12, <1>13, <1>14, <1>15, NextCases
       DEF StartWrite, Flush, WriteFails, CloseLog, Open, logVars

(* Only the disk makes a snapshot unreadable, one at a time. *)
LEMMA FewBadStep ==
    ASSUME EngineInv, [Next]_vars
    PROVE  FewBad'
<1>1. IsFiniteSet(DOMAIN snaps)
  BY SnapsFinite DEF EngineInv, LogShape
<1>2. IsFiniteSet(Bad(snaps)) /\ Cardinality(Bad(snaps)) \in Nat
  BY <1>1, SmallerSet DEF Bad
<1>3. damage \in 0 .. MaxDamage /\ Cardinality(Bad(snaps)) <= damage /\ MaxDamage \in Nat
  BY EngineConstants DEF EngineInv, FewBad
<1>4. ASSUME damage' = damage, Bad(snaps') \subseteq Bad(snaps) PROVE FewBad'
  BY <1>2, <1>3, <1>4, SmallerSet DEF FewBad
<1>5. CASE damage' = damage /\ snaps' = snaps
  BY <1>4, <1>5
<1>6. CASE Rename
  <2>1. snaps' = WithSnapshot(ckpt.lsn, Snapshot(ckpt.data, "good", Beneath(ckpt.lsn)))
    BY <1>6 DEF Rename
  <2>2. Beneath(ckpt.lsn) = "damaged" => ckpt.lsn \in Bad(snaps)
    BY DEF Beneath, Bad
  <2>3. Bad(snaps') \subseteq Bad(snaps)
    BY <2>1, <2>2 DEF Bad, WithSnapshot, Snapshot
  <2> QED BY <1>4, <1>6, <2>3 DEF Rename
<1>7. CASE snaps' \in {Settled, Reverted} /\ damage' = damage
  <2>1. SnapShape
    BY DEF EngineInv
  <2>2. Bad(snaps') \subseteq Bad(snaps)
    BY <1>7, <2>1 DEF Bad, Settled, Reverted, Snapshot, SnapShape
  <2> QED BY <1>4, <1>7, <2>2
<1>8. CASE Prune
  <2>1. PICK S \in SUBSET Surplus : snaps' = Restrict(snaps, DOMAIN snaps \ S)
    BY <1>8 DEF Prune
  <2>2. Bad(snaps') \subseteq Bad(snaps)
    BY <2>1 DEF Bad, Restrict
  <2> QED BY <1>4, <1>8, <2>2 DEF Prune
<1>9. CASE Damage
  <2>1. PICK n \in DOMAIN snaps :
            snaps' = WithSnapshot(n, Snapshot(snaps[n].data, "damaged", snaps[n].lost))
    BY <1>9 DEF Damage
  <2>2. Bad(snaps') \subseteq Bad(snaps) \cup {n}
    BY <2>1 DEF Bad, WithSnapshot, Snapshot
  <2>3. IsFiniteSet(Bad(snaps) \cup {n})
        /\ Cardinality(Bad(snaps) \cup {n}) <= Cardinality(Bad(snaps)) + 1
    BY <1>2, FS_AddElement
  <2>4. Cardinality(Bad(snaps')) \in Nat /\ Cardinality(Bad(snaps) \cup {n}) \in Nat
        /\ Cardinality(Bad(snaps')) <= Cardinality(Bad(snaps) \cup {n})
    BY <2>2, <2>3, SmallerSet
  <2>5. damage' = damage + 1 /\ damage < MaxDamage
    BY <1>9 DEF Damage
  <2> QED BY <1>2, <1>3, <2>3, <2>4, <2>5 DEF FewBad
<1>10. CASE SyncDirectory
  BY <1>5, <1>7, <1>10 DEF SyncDirectory
<1>11. ASSUME NEW kind, Crash(kind) PROVE FewBad'
  BY <1>5, <1>7, <1>11 DEF Crash
<1>12. CASE Due \/ Close \/ \E kind \in {"sync", "background"} : Checkpoint(kind)
  BY <1>5, <1>12 DEF Due, Close, Checkpoint
<1>13. CASE UNCHANGED vars
  BY <1>5, <1>13 DEF vars
<1> QED BY <1>5, <1>6, <1>8, <1>9, <1>10, <1>11, <1>12, <1>13, NextCases
       DEF StartWrite, FinishWrite, Flush, WriteFails, Truncate, CloseLog, Open

-----------------------------------------------------------------------------
(* The invariant under which checkpoints, crashes and damage keep a        *)
(* truncated log recoverable holds in every state of the engine.           *)
THEOREM EngineInvariant == Spec => []EngineInv
<1>1. Init => EngineInv
  <2> SUFFICES ASSUME Init PROVE EngineInv
    OBVIOUS
  <2>1. DOMAIN snaps = {}
    BY DEF Init
  <2>2. LogShape /\ SnapShape /\ CheckpointShape /\ Enough
    BY <2>1 DEF Init, LogShape, SnapShape, CheckpointShape, Enough
  <2>3. Bad(snaps) = {}
    BY <2>1 DEF Bad
  <2>4. FewBad
    BY <2>3, FS_EmptySet, EngineConstants DEF Init, FewBad
  <2> QED BY <2>2, <2>4 DEF EngineInv
<1>2. EngineInv /\ [Next]_vars => EngineInv'
  <2> SUFFICES ASSUME EngineInv, [Next]_vars PROVE EngineInv'
    OBVIOUS
  <2>1. LogShape /\ SnapShape /\ CheckpointShape /\ Enough /\ FewBad
    BY DEF EngineInv
  <2>2. LogShape'
    BY <2>1, LogStep
  <2>3. SnapShape' /\ CheckpointShape'
    BY <2>1, SnapStep, CheckpointShapeStep
  <2> QED BY <2>2, <2>3, EnoughStep, FewBadStep DEF EngineInv
<1> QED BY <1>1, <1>2, PTL DEF Spec

(* As long as fewer snapshots are damaged than are kept, the log reaches   *)
(* back to a snapshot that can be read and that no power loss takes away,  *)
(* and no snapshot is ahead of the stable log: pruning and truncation      *)
(* (finishCheckpoint) never remove what recovery needs, whatever fails or  *)
(* crashes between their steps.                                            *)
THEOREM RetentionIsEnough ==
    ASSUME MaxDamage < Retention
    PROVE  Spec => []Recoverable
<1>1. EngineInv => Recoverable
  <2> SUFFICES ASSUME EngineInv PROVE Recoverable
    OBVIOUS
  <2>1. IsFiniteSet(DOMAIN snaps) /\ SnapShape /\ first \in Nat \ {0}
    BY SnapsFinite DEF EngineInv, LogShape
  <2>2. ASSUME first # 1
        PROVE  \E n \in DOMAIN snaps :
                   snaps[n].file = "good" /\ snaps[n].lost = "self" /\ first <= n + 1
    <3>1. Cardinality(Safe(snaps, first)) >= Retention
      BY <2>1, <2>2 DEF EngineInv, Enough
    <3>2. IsFiniteSet(Bad(snaps)) /\ Cardinality(Bad(snaps)) \in Nat
      BY <2>1, SmallerSet DEF Bad
    <3>3. Cardinality(Bad(snaps)) < Retention
      BY <3>2, EngineConstants DEF EngineInv, FewBad
    <3>4. ~ (Safe(snaps, first) \subseteq Bad(snaps))
      BY <3>1, <3>2, <3>3, SmallerSet, EngineConstants
    <3>5. PICK n \in Safe(snaps, first) : n \notin Bad(snaps)
      BY <3>4
    <3>6. n \in DOMAIN snaps /\ snaps[n].file = "good" /\ snaps[n].lost # "damaged"
          /\ snaps[n].lost # "none" /\ first <= n + 1
      BY <3>5 DEF Safe, Bad
    <3> QED BY <2>1, <3>6 DEF SnapShape
  <2> QED BY <2>1, <2>2 DEF SnapShape, Recoverable
<1> QED BY <1>1, EngineInvariant, PTL

-----------------------------------------------------------------------------
(* Replaying operations.  What Replays computes is proved by looking at    *)
(* the least number for which it would be wrong.                           *)

(* The function that Replays chooses exists: one for the first m           *)
(* operations is extended by the next.                                     *)
LEMMA ReplaysExist ==
    ASSUME NEW data, NEW ops, Len(ops) \in Nat
    PROVE  Replays(data, ops) = [n \in 0 .. Len(ops) |->
              IF n = 0 THEN data ELSE Apply(Replays(data, ops)[n - 1], ops[n])]
<1> DEFINE Is(r, m) == r = [n \in 0 .. m |-> IF n = 0 THEN data ELSE Apply(r[n - 1], ops[n])]
           Without == {m \in Nat : ~ \E r : Is(r, m)}
<1>1. Is([n \in 0 .. 0 |-> data], 0)
  OBVIOUS
<1>2. ASSUME NEW m \in Nat, NEW r, Is(r, m) PROVE \E q : Is(q, m + 1)
  <2> DEFINE q == [n \in 0 .. m + 1 |-> IF n = m + 1 THEN Apply(r[m], ops[m + 1]) ELSE r[n]]
  <2>1. ASSUME NEW n \in 0 .. m + 1
        PROVE q[n] = IF n = 0 THEN data ELSE Apply(q[n - 1], ops[n])
    <3>1. CASE n = m + 1
      BY <3>1
    <3>2. CASE n # m + 1
      <4>1. n \in 0 .. m /\ n # 0 => n - 1 \in 0 .. m /\ n - 1 # m + 1
        BY <3>2
      <4>2. r[n] = IF n = 0 THEN data ELSE Apply(r[n - 1], ops[n])
        BY <1>2, <4>1, <3>2
      <4> QED BY <4>1, <4>2, <3>2
    <3> QED BY <3>1, <3>2
  <2>2. Is(q, m + 1)
    <3> HIDE DEF q
    <3> QED BY <2>1 DEF q
  <2> QED BY <2>2
<1>3. \A m \in Nat : \E r : Is(r, m)
  <2> HIDE DEF Is
  <2> SUFFICES ASSUME Without # {} PROVE FALSE
    OBVIOUS
  <2>1. PICK m \in Without : \A n \in Without : m <= n
    BY Least
  <2>2. m # 0
    BY <1>1
  <2>3. m - 1 \in Nat /\ m - 1 \notin Without
    BY <2>1, <2>2
  <2>4. PICK r : Is(r, m - 1)
    BY <2>3
  <2>5. \E q : Is(q, m - 1 + 1)
    BY <1>2, <2>3, <2>4
  <2> QED BY <2>1, <2>5
<1>4. PICK r : Is(r, Len(ops))
  BY <1>3
<1>5. Replays(data, ops) = CHOOSE q : Is(q, Len(ops))
  BY Zenon DEF Replays
<1>6. Is(CHOOSE q : Is(q, Len(ops)), Len(ops))
  <2> HIDE DEF Is
  <2> QED BY <1>4
<1> QED BY <1>5, <1>6

(* Each operation is applied to what the ones before it have made. *)
LEMMA ReplaysStep ==
    ASSUME NEW data, NEW ops, Len(ops) \in Nat
    PROVE  /\ Replays(data, ops)[0] = data
           /\ \A n \in 1 .. Len(ops) :
                 Replays(data, ops)[n] = Apply(Replays(data, ops)[n - 1], ops[n])
<1> DEFINE r == Replays(data, ops)
<1>1. r = [n \in 0 .. Len(ops) |-> IF n = 0 THEN data ELSE Apply(r[n - 1], ops[n])]
  BY ReplaysExist
<1> HIDE DEF r
<1>2. r[0] = data /\ \A n \in 1 .. Len(ops) : r[n] = Apply(r[n - 1], ops[n])
  BY <1>1
<1> QED BY <1>2 DEF r

(* What comes after an operation does not matter to what is before it. *)
LEMMA ReplaysAgree ==
    ASSUME NEW data, NEW s, NEW t, Len(s) \in Nat, Len(t) \in Nat,
           NEW m \in Nat, m <= Len(s), m <= Len(t), \A i \in 1 .. m : s[i] = t[i]
    PROVE  \A i \in 0 .. m : Replays(data, s)[i] = Replays(data, t)[i]
<1> DEFINE Differ == {i \in 0 .. m : Replays(data, s)[i] # Replays(data, t)[i]}
<1> SUFFICES ASSUME Differ # {} PROVE FALSE
  OBVIOUS
<1>0. Differ \in SUBSET Nat
  OBVIOUS
<1>1. PICK i \in Differ : \A j \in Differ : i <= j
  <2> HIDE DEF Differ
  <2> QED BY <1>0, Least
<1>2. i # 0
  BY ReplaysStep
<1>3. i \in 1 .. m /\ i - 1 \in 0 .. m /\ i - 1 \notin Differ
  BY <1>1, <1>2
<1>4. Replays(data, s)[i - 1] = Replays(data, t)[i - 1]
  BY <1>3
<1>5. i \in 1 .. Len(s) /\ i \in 1 .. Len(t)
  BY <1>3
<1>6. s[i] = t[i]
  BY <1>3
<1>7. Replays(data, s)[i] = Apply(Replays(data, s)[i - 1], s[i])
  BY <1>5, ReplaysStep
<1>8. Replays(data, t)[i] = Apply(Replays(data, t)[i - 1], t[i])
  BY <1>5, ReplaysStep
<1> QED BY <1>1, <1>4, <1>6, <1>7, <1>8

(* Replaying the rest from where the beginning has led is replaying it all.*)
LEMMA ReplaysRest ==
    ASSUME NEW data, NEW s, NEW t, Len(s) \in Nat, Len(t) \in Nat,
           NEW b \in 0 .. Len(s), Len(t) = Len(s) - b, \A i \in 1 .. Len(t) : t[i] = s[b + i]
    PROVE  Replay(Replays(data, s)[b], t) = Replay(data, s)
<1> DEFINE from == Replays(data, s)[b]
           Differ == {i \in 0 .. Len(t) : Replays(from, t)[i] # Replays(data, s)[b + i]}
<1>1. ASSUME Differ # {} PROVE FALSE
  <2>0. Differ \in SUBSET Nat
    OBVIOUS
  <2>1. PICK i \in Differ : \A j \in Differ : i <= j
    <3> HIDE DEF Differ
    <3> QED BY <1>1, <2>0, Least
  <2>2. Replays(from, t)[0] = from
    BY ReplaysStep
  <2>3. i # 0
    BY <2>1, <2>2
  <2>4. i \in 1 .. Len(t) /\ i - 1 \in 0 .. Len(t) /\ i - 1 \notin Differ
    BY <2>1, <2>3
  <2>5. b + i \in 1 .. Len(s) /\ b + (i - 1) = b + i - 1
    BY <2>4
  <2> HIDE DEF from
  <2>6. Replays(from, t)[i - 1] = Replays(data, s)[b + i - 1]
    BY <2>4, <2>5
  <2>7. t[i] = s[b + i]
    BY <2>4
  <2>8. Replays(from, t)[i] = Apply(Replays(from, t)[i - 1], t[i])
    BY <2>4, ReplaysStep
  <2>9. Replays(data, s)[b + i] = Apply(Replays(data, s)[b + i - 1], s[b + i])
    <3>1. \A k \in 1 .. Len(s) : Replays(data, s)[k] = Apply(Replays(data, s)[k - 1], s[k])
      BY ReplaysStep
    <3> QED BY <2>5, <3>1
  <2> QED BY <2>1, <2>6, <2>7, <2>8, <2>9
<1>2. Len(t) \notin Differ
  BY <1>1
<1>3. Replays(from, t)[Len(t)] = Replays(data, s)[Len(s)]
  BY <1>2
<1> QED BY <1>3 DEF Replay

(* No operation changes nothing. *)
LEMMA ReplayEmpty ==
    ASSUME NEW data
    PROVE  Replay(data, << >>) = data
  BY ReplaysStep DEF Replay

(* A beginning of a log replays to what the log makes up to there. *)
LEMMA ReplayPrefix ==
    ASSUME NEW data, NEW s \in Seq(Operation), NEW n \in 0 .. Len(s)
    PROVE  Replay(data, SubSeq(s, 1, n)) = Replays(data, s)[n]
<1> DEFINE t == SubSeq(s, 1, n)
<1>1. Len(t) = n /\ \A i \in 1 .. n : t[i] = s[i]
  OBVIOUS
<1> HIDE DEF t
<1>2. Replays(data, t)[n] = Replays(data, s)[n]
  BY <1>1, ReplaysAgree
<1> QED BY <1>1, <1>2 DEF Replay, t

(* A record more is an operation more. *)
LEMMA ReplayAppend ==
    ASSUME NEW data, NEW s \in Seq(Operation), NEW o \in Operation
    PROVE  Replay(data, Append(s, o)) = Apply(Replay(data, s), o)
<1> DEFINE t == Append(s, o)
<1>1. Len(t) = Len(s) + 1 /\ t[Len(s) + 1] = o /\ \A i \in 1 .. Len(s) : t[i] = s[i]
  OBVIOUS
<1> HIDE DEF t
<1>2. Len(s) \in Nat
  OBVIOUS
<1>3. Replays(data, t)[Len(s)] = Replays(data, s)[Len(s)]
  BY <1>1, <1>2, ReplaysAgree
<1>4. Replays(data, t)[Len(s) + 1] = Apply(Replays(data, t)[Len(s)], t[Len(s) + 1])
  BY <1>1, <1>2, ReplaysStep
<1> QED BY <1>1, <1>3, <1>4 DEF Replay, t

(* A snapshot taken after record b and the records after b make what       *)
(* the whole log makes.                                                    *)
LEMMA ReplayRest ==
    ASSUME NEW data, NEW s \in Seq(Operation), NEW b \in 0 .. Len(s)
    PROVE  Replay(Replay(data, SubSeq(s, 1, b)), SubSeq(s, b + 1, Len(s))) = Replay(data, s)
<1> DEFINE t == SubSeq(s, b + 1, Len(s))
<1>1. Len(t) = Len(s) - b /\ Len(t) \in Nat /\ \A i \in 1 .. Len(t) : t[i] = s[b + i]
  <2>1. Len(t) = Len(s) - b
    OBVIOUS
  <2>2. \A i \in 1 .. Len(s) - b : t[i] = s[b + i]
    OBVIOUS
  <2> QED BY <2>1, <2>2
<1> HIDE DEF t
<1>2. Replay(Replays(data, s)[b], t) = Replay(data, s)
  <2>1. Len(s) \in Nat
    OBVIOUS
  <2> QED BY <1>1, <2>1, ReplaysRest
<1>3. Replay(data, SubSeq(s, 1, b)) = Replays(data, s)[b]
  BY ReplayPrefix
<1> QED BY <1>2, <1>3 DEF t

-----------------------------------------------------------------------------
(* The operations and what they do to the data.                            *)

(* Data that recovery accepts. *)
Good(data) == data \in Data /\ data.sound /\ ~ Conflicts(data)

(* The data of a new directory. *)
LEMMA EmptyGood == Good(Empty)
<1>1. Empty \in Data /\ Empty.sound
  BY DEF Empty, Data
<1>2. ~ Conflicts(Empty)
  BY DEF Empty, Conflicts
<1> QED BY <1>1, <1>2 DEF Good

(* What an operation makes of data, one kind after the other. *)
LEMMA ApplyCases ==
    ASSUME NEW data, NEW o \in Operation
    PROVE  /\ o.op = "createCollection" => Apply(data, o) = [data EXCEPT !.made = TRUE]
           /\ o.op = "put" => Apply(data, o) =
                [data EXCEPT !.docs = WithDocs(@, o.keys, o.value), !.sound = @ /\ data.made]
           /\ o.op = "delete" => Apply(data, o) =
                [data EXCEPT !.docs = WithDocs(@, o.keys, Absent), !.sound = @ /\ data.made]
           /\ o.op = "createIndex" => Apply(data, o) =
                [data EXCEPT !.idx[o.index] = IF @ = "none" THEN o.def ELSE @,
                             !.sound = @ /\ data.made /\ data.idx[o.index] \in {"none", o.def}]
           /\ o.op = "dropIndex" => Apply(data, o) =
                [data EXCEPT !.idx[o.index] = "none",
                             !.sound = @ /\ data.made /\ data.idx[o.index] # "none"]
  BY DEF Apply

(* What the records of each kind carry. *)
LEMMA OperationCases ==
    ASSUME NEW o \in Operation
    PROVE  \/ o.op = "createCollection"
           \/ o.op = "put" /\ o.value \in Values /\ o.keys \subseteq Keys
           \/ o.op = "delete" /\ o.keys \subseteq Keys
           \/ o.op = "createIndex" /\ o.index \in Indexes /\ o.def \in {"plain", "unique"}
           \/ o.op = "dropIndex" /\ o.index \in Indexes
  BY EngineConstants DEF Operation

(* An operation that the checks of its caller let through leaves data      *)
(* that recovery accepts.                                                  *)
LEMMA AcceptedGood ==
    ASSUME Good(mem), NEW o \in Operation, Accepts(o)
    PROVE  Good(Apply(mem, o))
<1> DEFINE new == Apply(mem, o)
<1>0. mem \in Data /\ mem.sound = TRUE /\ ~ Conflicts(mem)
  BY DEF Good, Data
<1>1. CASE o.op = "createCollection"
  <2>1. new = [mem EXCEPT !.made = TRUE]
    BY <1>1, ApplyCases
  <2>2. new \in Data /\ new.sound /\ new.docs = mem.docs /\ new.idx = mem.idx
    BY <1>0, <2>1 DEF Data
  <2> QED BY <1>0, <2>2 DEF Good, Conflicts
<1>2. CASE o.op = "put"
  <2>1. new = [mem EXCEPT !.docs = WithDocs(@, o.keys, o.value), !.sound = @ /\ mem.made]
    BY <1>2 DEF Apply
  <2>2. mem.made
    BY <1>2 DEF Accepts
  <2>3. WithDocs(mem.docs, o.keys, o.value) \in [Keys -> Values \cup {Absent}]
    BY <1>0, <1>2, OperationCases DEF Data, WithDocs
  <2>4. new \in Data /\ new.sound
    BY <1>0, <2>1, <2>2, <2>3 DEF Data
  <2>5. ~ Conflicts(new)
    BY <1>2 DEF Accepts
  <2> QED BY <2>4, <2>5 DEF Good
<1>3. CASE o.op = "delete"
  <2>1. new = [mem EXCEPT !.docs = WithDocs(@, o.keys, Absent), !.sound = @ /\ mem.made]
    BY <1>3, ApplyCases
  <2>2. mem.made
    BY <1>3 DEF Accepts
  <2>3. WithDocs(mem.docs, o.keys, Absent) \in [Keys -> Values \cup {Absent}]
    BY <1>0 DEF Data, WithDocs
  <2>4. new \in Data /\ new.sound /\ new.idx = mem.idx /\ new.docs = WithDocs(mem.docs, o.keys, Absent)
    BY <1>0, <2>1, <2>2, <2>3 DEF Data
  <2>5. \A k \in Keys : new.docs[k] \in {mem.docs[k], Absent}
    BY <2>4 DEF WithDocs
  <2>6. ~ Conflicts(new)
    BY <1>0, <2>4, <2>5 DEF Conflicts
  <2> QED BY <2>4, <2>6 DEF Good
<1>4. CASE o.op = "createIndex"
  <2>1. new = [mem EXCEPT !.idx[o.index] = IF @ = "none" THEN o.def ELSE @,
                          !.sound = @ /\ mem.made /\ mem.idx[o.index] \in {"none", o.def}]
    BY <1>4, ApplyCases
  <2>2. mem.made /\ mem.idx[o.index] = "none" /\ o.index \in Indexes /\ o.def \in {"plain", "unique"}
    BY <1>4, OperationCases DEF Accepts
  <2>3. new \in Data /\ new.sound
    <3>1. new = [mem EXCEPT !.idx = [@ EXCEPT ![o.index] = o.def]]
      BY <1>0, <2>1, <2>2, Zenon
    <3> QED BY <1>0, <2>2, <3>1 DEF Data
  <2>4. ~ Conflicts(new)
    BY <1>4 DEF Accepts
  <2> QED BY <2>3, <2>4 DEF Good
<1>5. CASE o.op = "dropIndex"
  <2>1. new = [mem EXCEPT !.idx[o.index] = "none",
                          !.sound = @ /\ mem.made /\ mem.idx[o.index] # "none"]
    BY <1>5, ApplyCases
  <2>2. mem.made /\ mem.idx[o.index] # "none" /\ o.index \in Indexes
    BY <1>5, OperationCases DEF Accepts
  <2>0. new = [mem EXCEPT !.idx = [@ EXCEPT ![o.index] = "none"]]
    BY <1>0, <2>1, <2>2
  <2>3. new \in Data /\ new.sound /\ new.docs = mem.docs
    BY <1>0, <2>0, <2>2 DEF Data
  <2>4. \A i \in Indexes : new.idx[i] \in {mem.idx[i], "none"}
    BY <1>0, <2>1, <2>2 DEF Data
  <2>5. ~ Conflicts(new)
    BY <1>0, <2>3, <2>4 DEF Conflicts
  <2> QED BY <2>3, <2>5 DEF Good
<1> HIDE DEF new
<1> QED BY <1>1, <1>2, <1>3, <1>4, <1>5, OperationCases DEF new

(* Taking a built index away leaves the data as it was. *)
LEMMA UndoIndex ==
    ASSUME NEW data, Good(data), NEW o \in Operation, o.op = "createIndex",
           data.idx[o.index] = "none", Good(Apply(data, o))
    PROVE  [Apply(data, o) EXCEPT !.idx[o.index] = "none"] = data
<1> DEFINE new == Apply(data, o)
<1>0. data \in Data /\ data.sound = TRUE /\ o.index \in Indexes /\ o.def \in {"plain", "unique"}
  BY OperationCases DEF Good, Data
<1>1. new = [data EXCEPT !.idx[o.index] = IF @ = "none" THEN o.def ELSE @,
                         !.sound = @ /\ data.made /\ data.idx[o.index] \in {"none", o.def}]
  BY ApplyCases
<1>2. new.sound
  BY DEF Good
<1>3. data.made
  BY <1>0, <1>1, <1>2 DEF Data
<1>4. new = [data EXCEPT !.idx = [@ EXCEPT ![o.index] = o.def]]
  BY <1>0, <1>1, <1>3, Zenon
<1>5. [new EXCEPT !.idx[o.index] = "none"].idx = data.idx
  <2>1. data.idx \in [Indexes -> {"none", "plain", "unique"}]
    BY <1>0 DEF Data
  <2>2. new.idx = [data.idx EXCEPT ![o.index] = o.def]
    BY <1>0, <1>4 DEF Data
  <2>3. [new.idx EXCEPT ![o.index] = "none"] = data.idx
    BY <1>0, <2>1, <2>2
  <2>4. [new EXCEPT !.idx[o.index] = "none"].idx = [new.idx EXCEPT ![o.index] = "none"]
    <3>1. new \in Data
      BY DEF Good
    <3> HIDE DEF new
    <3> QED BY <3>1 DEF Data
  <2> QED BY <2>3, <2>4
<1> QED BY <1>0, <1>4, <1>5 DEF Data

-----------------------------------------------------------------------------
(* What the whole log says. *)
Logged == Replay(Empty, recs)

Pending == call.step \in {"due", "append"}

PhaseShape ==
    /\ status \in {"open", "down", "refused"} /\ broken \in {"yes", "no"}
    /\ call.step \in {"none", "due", "append", "close"}
    /\ ckpt.phase \in {"none", "writing", "renamed", "published", "pruned"}
    /\ status # "open" => call.step = "none"

(* Every beginning of the log replays to data that recovery accepts. *)
LogGood == \A n \in 0 .. Len(recs) : Good(Replay(Empty, SubSeq(recs, 1, n)))

(* So does the log with the record that is to be appended, *)
PendingGood ==
    Pending => /\ Good(Apply(Logged, call.op))
               /\ call.op.op = "createIndex" => Logged.idx[call.op.index] = "none"

(* and the log with the record that broke it, to which none is added.      *)
DoubtGood ==
    doubt = <<>> \/ /\ broken = "yes"
                    /\ \E o \in Operation : doubt = <<o>> /\ Good(Apply(Logged, o))

(* Memory is ahead of the log by an index that is built and not logged. *)
MemoryShape ==
    mem = IF status # "open" THEN Empty
          ELSE IF Pending /\ call.op.op = "createIndex" THEN Apply(Logged, call.op)
          ELSE Logged

CheckpointData ==
    ckpt.phase # "none" => ckpt.data = Replay(Empty, SubSeq(recs, 1, ckpt.lsn))

-----------------------------------------------------------------------------
(* The whole log is one of its beginnings. *)
LEMMA LoggedGood ==
    ASSUME LogShape, LogGood
    PROVE  Good(Logged)
<1>1. SubSeq(recs, 1, Len(recs)) = recs /\ Len(recs) \in 0 .. Len(recs)
  BY DEF LogShape
<1> QED BY <1>1 DEF LogGood, Logged

(* A log that an operation is added to. *)
LEMMA GrownGood ==
    ASSUME LogShape, LogGood, NEW o \in Operation, Good(Apply(Logged, o))
    PROVE  \A n \in 0 .. Len(recs) + 1 : Good(Replay(Empty, SubSeq(Append(recs, o), 1, n)))
<1> SUFFICES ASSUME NEW n \in 0 .. Len(recs) + 1
             PROVE  Good(Replay(Empty, SubSeq(Append(recs, o), 1, n)))
  OBVIOUS
<1>0. recs \in Seq(Operation)
  BY DEF LogShape
<1>1. CASE n <= Len(recs)
  <2>1. SubSeq(Append(recs, o), 1, n) = SubSeq(recs, 1, n)
    BY <1>0, <1>1
  <2>2. n \in 0 .. Len(recs)
    BY <1>0, <1>1
  <2> QED BY <2>1, <2>2 DEF LogGood
<1>2. CASE n = Len(recs) + 1
  <2>1. SubSeq(Append(recs, o), 1, n) = Append(recs, o)
    BY <1>0, <1>2
  <2> QED BY <1>0, <2>1, ReplayAppend DEF Logged
<1> QED BY <1>0, <1>1, <1>2

(* Whatever a crash keeps of the record in flight. *)
LEMMA InFlightGood ==
    ASSUME LogShape, LogGood, PendingGood, DoubtGood
    PROVE  /\ recs \o InFlight \in Seq(Operation)
           /\ Len(recs) <= Len(recs \o InFlight)
           /\ \A n \in 0 .. Len(recs) : SubSeq(recs \o InFlight, 1, n) = SubSeq(recs, 1, n)
           /\ \A n \in 0 .. Len(recs \o InFlight) :
                  Good(Replay(Empty, SubSeq(recs \o InFlight, 1, n)))
<1>0. recs \in Seq(Operation)
  BY DEF LogShape
<1>1. CASE InFlight = <<>>
  <2>1. recs \o InFlight = recs
    BY <1>0, <1>1
  <2> QED BY <1>0, <2>1 DEF LogGood
<1>2. ASSUME NEW o \in Operation, InFlight = <<o>>, Good(Apply(Logged, o))
      PROVE  /\ recs \o InFlight = Append(recs, o)
             /\ \A n \in 0 .. Len(recs) + 1 : Good(Replay(Empty, SubSeq(Append(recs, o), 1, n)))
  BY <1>0, <1>2, GrownGood
<1>3. \/ InFlight = <<>>
      \/ \E o \in Operation : InFlight = <<o>> /\ Good(Apply(Logged, o))
  BY DEF InFlight, PendingGood, Pending, DoubtGood, LogShape
<1>4. CASE \E o \in Operation : InFlight = <<o>> /\ Good(Apply(Logged, o))
  <2>1. PICK o \in Operation : InFlight = <<o>> /\ Good(Apply(Logged, o))
    BY <1>4
  <2>2. /\ recs \o InFlight = Append(recs, o)
        /\ \A n \in 0 .. Len(recs) + 1 : Good(Replay(Empty, SubSeq(Append(recs, o), 1, n)))
    BY <1>2, <2>1
  <2>3. /\ Append(recs, o) \in Seq(Operation) /\ Len(Append(recs, o)) = Len(recs) + 1
        /\ \A n \in 0 .. Len(recs) : SubSeq(Append(recs, o), 1, n) = SubSeq(recs, 1, n)
    BY <1>0
  <2>4. Len(recs) <= Len(recs) + 1
    BY <1>0
  <2> QED BY <2>2, <2>3, <2>4
<1> QED BY <1>1, <1>3, <1>4

(* The log grows by the record in flight, or loses some of its end with    *)
(* everything in memory.                                                   *)
LEMMA LogChange ==
    ASSUME LogShape, PhaseShape, [Next]_vars
    PROVE  \/ recs' = recs
           \/ FinishWrite /\ AppendOk
           \/ /\ Forget
              /\ \E n \in hard .. Len(recs \o InFlight) : recs' = SubSeq(recs \o InFlight, 1, n)
<1>1. CASE FinishWrite
  BY <1>1 DEF FinishWrite, AppendFails, logVars
<1>2. CASE CloseLog
  <2>1. InFlight = doubt /\ recs \in Seq(Operation) /\ doubt \in Seq(Operation) /\ hard \in 0 .. Len(recs)
    BY <1>2 DEF CloseLog, InFlight, LogShape
  <2>2. CASE recs' = recs
    BY <2>2
  <2>3. CASE recs' = recs \o doubt
    <3>1. Len(recs \o doubt) \in hard .. Len(recs \o doubt)
      BY <2>1
    <3>2. recs \o doubt = SubSeq(recs \o doubt, 1, Len(recs \o doubt))
      BY <2>1
    <3> QED BY <1>2, <2>1, <2>3, <3>1, <3>2 DEF CloseLog
  <2> QED BY <1>2, <2>2, <2>3 DEF CloseLog
<1>3. ASSUME NEW kind, Crash(kind)
      PROVE  /\ Forget
             /\ \E n \in hard .. Len(recs \o InFlight) : recs' = SubSeq(recs \o InFlight, 1, n)
  <2>1. hard \in 0 .. Len(recs) /\ Len(recs) \in Nat
    BY DEF LogShape
  <2>2. Forget
    BY <1>3 DEF Crash
  <2>3. PICK n \in IF kind = "process" THEN Len(recs) .. Len(recs \o InFlight)
                   ELSE hard .. Len(recs \o InFlight) :
            recs' = SubSeq(recs \o InFlight, 1, n)
    BY <1>3 DEF Crash
  <2>4. recs \o InFlight \in Seq(Operation)
    BY DEF InFlight, LogShape
  <2>5. Len(recs \o InFlight) \in Nat
    BY <2>4
  <2>6. n \in hard .. Len(recs \o InFlight)
    BY <2>1, <2>3, <2>5
  <2> QED BY <2>2, <2>3, <2>6
<1>4. CASE Due \/ Close \/ \E kind \in {"sync", "background"} : Checkpoint(kind)
  BY <1>4 DEF Due, Close, Checkpoint, Begin, BeginFails, logVars
<1>5. CASE UNCHANGED vars
  BY <1>5 DEF vars
<1> QED BY <1>1, <1>2, <1>3, <1>4, <1>5, NextCases
       DEF StartWrite, Flush, Rename, WriteFails, SyncDirectory, Prune, Truncate, Open, Damage,
           logVars

(* The control state keeps its type, and no call runs in a process that    *)
(* is not there.                                                           *)
LEMMA PhaseStep ==
    ASSUME PhaseShape, [Next]_vars
    PROVE  PhaseShape'
<1> USE DEF PhaseShape
<1>1. ASSUME NEW kind, Begin(kind) PROVE broken' = "no" /\ ckpt'.phase = "writing"
  BY <1>1 DEF Begin
<1>2. ASSUME BeginFails PROVE broken' = "yes"
  BY <1>2 DEF BeginFails
<1>3. NoCheckpoint => ckpt'.phase = "none"
  BY DEF NoCheckpoint
<1>4. ASSUME NEW o \in Operation, StartWrite(o) PROVE PhaseShape'
  BY <1>4 DEF StartWrite, Idle, logVars
<1>5. CASE Due
  <2>1. status' = "open" /\ status = "open" /\ call.step = "due"
    BY <1>5 DEF Due
  <2>2. call'.step = "append"
    BY <1>5 DEF Due
  <2>3. broken' \in {"yes", "no"} /\ (ckpt'.phase = "writing" \/ ckpt' = ckpt)
    BY <1>1, <1>2, <1>5 DEF Due, logVars
  <2> QED BY <2>1, <2>2, <2>3
<1>6. CASE FinishWrite
  <2>1. broken' \in {"yes", "no"}
    BY <1>6 DEF FinishWrite, AppendOk, AppendFails, logVars
  <2> QED BY <1>6, <2>1 DEF FinishWrite
<1>7. CASE Flush
  BY <1>7 DEF Flush
<1>8. ASSUME NEW kind, Checkpoint(kind) PROVE PhaseShape'
  <2>1. status' = status /\ call' = call
    BY <1>8 DEF Checkpoint
  <2>2. broken' \in {"yes", "no"} /\ ckpt'.phase \in {"writing", "none"}
    BY <1>1, <1>2, <1>3, <1>8 DEF Checkpoint
  <2> QED BY <2>1, <2>2
<1>9. CASE Rename \/ SyncDirectory \/ Prune
  <2>1. status' = status /\ call' = call /\ broken' = broken
    BY <1>9 DEF Rename, SyncDirectory, Prune, logVars
  <2>2. ASSUME NEW p, ckpt' = [ckpt EXCEPT !.phase = p] PROVE ckpt'.phase = p
    BY <2>2
  <2>3. ckpt'.phase \in {"none", "renamed", "published", "pruned"}
    BY <1>3, <1>9, <2>2 DEF Rename, SyncDirectory, Prune
  <2> QED BY <2>1, <2>3
<1>10. CASE WriteFails \/ Truncate
  BY <1>3, <1>10 DEF WriteFails, Truncate, logVars
<1>11. CASE Close
  <2>1. status = "open" /\ status' = status /\ call'.step = "close"
    BY <1>11 DEF Close, Idle
  <2>2. broken' \in {"yes", "no"} /\ ckpt'.phase \in {"writing", "none"}
    BY <1>1, <1>2, <1>3, <1>11 DEF Close, logVars
  <2> QED BY <2>1, <2>2
<1>12. CASE CloseLog \/ \E kind \in Crashes : Crash(kind)
  <2>1. Forget
    BY <1>12 DEF CloseLog, Crash
  <2> QED BY <1>3, <2>1 DEF Forget
<1>13. CASE Open
  BY <1>13 DEF Open, logVars
<1>14. CASE Damage \/ UNCHANGED vars
  BY <1>14 DEF Damage, logVars, vars
<1> QED BY <1>4, <1>5, <1>6, <1>7, <1>8, <1>9, <1>10, <1>11, <1>12, <1>13, <1>14, NextCases

(* The stable part of the log stays. *)
LEMMA PrefixKept ==
    ASSUME LogShape, PhaseShape, LogGood, PendingGood, DoubtGood, [Next]_vars, NEW n \in 0 .. hard
    PROVE  SubSeq(recs', 1, n) = SubSeq(recs, 1, n)
<1>0. recs \in Seq(Operation) /\ hard \in 0 .. Len(recs) /\ n \in 0 .. Len(recs) /\ hard \in Nat
  BY DEF LogShape
<1>1. CASE recs' = recs
  BY <1>1
<1>2. CASE FinishWrite /\ AppendOk
  <2>1. recs' = Append(recs, call.op) /\ call.op \in Operation
    BY <1>2 DEF FinishWrite, AppendOk, LogShape
  <2> QED BY <1>0, <2>1
<1>3. ASSUME NEW m \in hard .. Len(recs \o InFlight), recs' = SubSeq(recs \o InFlight, 1, m)
      PROVE  SubSeq(recs', 1, n) = SubSeq(recs, 1, n)
  <2> DEFINE all == recs \o InFlight
  <2>1. all \in Seq(Operation) /\ SubSeq(all, 1, n) = SubSeq(recs, 1, n)
    BY <1>0, InFlightGood
  <2> HIDE DEF all
  <2>2. m \in hard .. Len(all) /\ recs' = SubSeq(all, 1, m)
    BY <1>3 DEF all
  <2>3. SubSeq(SubSeq(all, 1, m), 1, n) = SubSeq(all, 1, n)
    BY <1>0, <2>1, <2>2
  <2> QED BY <2>1, <2>2, <2>3
<1> QED BY <1>1, <1>2, <1>3, LogChange

(* No step puts into the log what recovery refuses. *)
LEMMA LogGoodStep ==
    ASSUME LogShape, PhaseShape, LogGood, PendingGood, DoubtGood, [Next]_vars
    PROVE  LogGood'
<1>0. recs \in Seq(Operation) /\ hard \in 0 .. Len(recs)
  BY DEF LogShape
<1>1. CASE recs' = recs
  BY <1>1 DEF LogGood
<1>2. CASE FinishWrite /\ AppendOk
  <2>1. recs' = Append(recs, call.op) /\ call.op \in Operation /\ Good(Apply(Logged, call.op))
    BY <1>2 DEF FinishWrite, AppendOk, LogShape, PendingGood, Pending
  <2>2. Len(recs') = Len(recs) + 1
    BY <1>0, <2>1
  <2> QED BY <2>1, <2>2, GrownGood DEF LogGood
<1>3. ASSUME NEW m \in hard .. Len(recs \o InFlight), recs' = SubSeq(recs \o InFlight, 1, m)
      PROVE  LogGood'
  <2> DEFINE all == recs \o InFlight
  <2>1. /\ all \in Seq(Operation)
        /\ \A n \in 0 .. Len(all) : Good(Replay(Empty, SubSeq(all, 1, n)))
    BY InFlightGood
  <2> HIDE DEF all
  <2>2. m \in 0 .. Len(all) /\ recs' = SubSeq(all, 1, m)
    BY <1>0, <1>3 DEF all
  <2>3. Len(recs') = m
    BY <2>1, <2>2
  <2>4. \A n \in 0 .. m : n \in 0 .. Len(all) /\ SubSeq(SubSeq(all, 1, m), 1, n) = SubSeq(all, 1, n)
    BY <2>1, <2>2
  <2> QED BY <2>1, <2>2, <2>3, <2>4 DEF LogGood
<1> QED BY <1>1, <1>2, <1>3, LogChange

(* A write that was let through is not overtaken by another: the log       *)
(* does not change between its check and its append.                       *)
LEMMA PendingStep ==
    ASSUME LogShape, PhaseShape, LogGood, PendingGood, MemoryShape, [Next]_vars
    PROVE  PendingGood'
<1>1. ASSUME NEW o \in Operation, StartWrite(o) PROVE PendingGood'
  <2>1. mem = Logged /\ recs' = recs /\ Accepts(o) /\ call' = [step |-> "due", op |-> o]
    BY <1>1 DEF StartWrite, Idle, MemoryShape, Pending, logVars
  <2>2. Good(mem)
    BY <2>1, LoggedGood
  <2>3. Good(Apply(Logged, o))
    BY <2>1, <2>2, AcceptedGood
  <2>4. o.op = "createIndex" => Logged.idx[o.index] = "none"
    BY <2>1 DEF Accepts
  <2> QED BY <2>1, <2>3, <2>4 DEF PendingGood, Logged
<1>2. CASE Due
  <2>1. recs' = recs /\ Pending
    BY <1>2 DEF Due, Begin, BeginFails, Pending, logVars
  <2>2. call'.op = call.op
    BY <1>2 DEF Due
  <2> QED BY <2>1, <2>2 DEF PendingGood, Logged
<1>3. CASE call'.step \in {"none", "close"}
  BY <1>3 DEF PendingGood, Pending
<1>4. CASE call' = call /\ recs' = recs
  BY <1>4 DEF PendingGood, Pending, Logged
<1>5. CASE FinishWrite \/ Close \/ CloseLog \/ \E kind \in Crashes : Crash(kind)
  <2>1. call'.step \in {"none", "close"}
    BY <1>5 DEF FinishWrite, Close, CloseLog, Crash, Forget
  <2> QED BY <1>3, <2>1
<1>6. ASSUME NEW kind, Checkpoint(kind) PROVE PendingGood'
  BY <1>4, <1>6 DEF Checkpoint, Begin, BeginFails
<1>7. CASE UNCHANGED vars
  BY <1>4, <1>7 DEF vars
<1> QED BY <1>1, <1>2, <1>4, <1>5, <1>6, <1>7, NextCases
       DEF Flush, Rename, WriteFails, SyncDirectory, Prune, Truncate, Open, Damage, logVars

(* A broken log takes no more records until it is opened again. *)
LEMMA DoubtStep ==
    ASSUME LogShape, PhaseShape, PendingGood, DoubtGood, [Next]_vars
    PROVE  DoubtGood'
<1>1. CASE doubt' = doubt /\ recs' = recs /\ (broken = "yes" => broken' = "yes")
  BY <1>1 DEF DoubtGood, Logged
<1>2. CASE doubt' = <<>>
  BY <1>2 DEF DoubtGood
<1>3. CASE FinishWrite
  <2>1. call.op \in Operation /\ Good(Apply(Logged, call.op))
    BY <1>3 DEF FinishWrite, LogShape, PendingGood, Pending
  <2>2. CASE AppendOk
    BY <1>2, <2>2 DEF AppendOk, DoubtGood
  <2>3. CASE AppendFails
    <3>1. \/ UNCHANGED logVars
          \/ broken' = "yes" /\ doubt' = <<call.op>> /\ recs' = recs
      BY <2>3 DEF AppendFails
    <3> QED BY <1>1, <2>1, <3>1 DEF DoubtGood, Logged, logVars
  <2> QED BY <1>3, <2>2, <2>3 DEF FinishWrite
<1>4. CASE CloseLog \/ \E kind \in Crashes : Crash(kind)
  BY <1>2, <1>4 DEF CloseLog, Crash, Forget
<1>5. CASE Due \/ Close \/ \E kind \in {"sync", "background"} : Checkpoint(kind)
  BY <1>1, <1>5 DEF Due, Close, Checkpoint, Begin, BeginFails, logVars
<1>6. CASE UNCHANGED vars
  BY <1>1, <1>6 DEF vars
<1> QED BY <1>1, <1>3, <1>4, <1>5, <1>6, NextCases
       DEF StartWrite, Flush, Rename, WriteFails, SyncDirectory, Prune, Truncate, Open, Damage, logVars

(* recover() makes of the newest snapshot that can be read, and of the     *)
(* records after it, what the whole log says.                              *)
LEMMA RecoveredIsLogged ==
    ASSUME LogShape, SnapShape, SnapshotsMatchLog
    PROVE  /\ Base \in 0 .. Len(recs) /\ Recovered = Logged
           /\ \A n \in Readable : n <= Base
<1>0. recs \in Seq(Operation) /\ hard \in 0 .. Len(recs) /\ Len(recs) \in Nat /\ hard \in Nat
  BY DEF LogShape
<1>1. CASE Readable = {}
  <2>1. Base = 0
    BY <1>1 DEF Base
  <2>2. SubSeq(recs, Base + 1, Len(recs)) = recs
    BY <1>0, <2>1
  <2>3. Recovered = Logged
    BY <2>1, <2>2 DEF Recovered, Logged
  <2>4. Base \in 0 .. Len(recs)
    BY <1>0, <2>1
  <2> QED BY <1>1, <2>3, <2>4
<1>2. CASE Readable # {}
  <2>1. Readable \in SUBSET Nat /\ \A n \in Readable : n <= hard
    BY DEF Readable, SnapShape
  <2>2. \E m \in Readable : \A n \in Readable : n <= m
    BY <1>0, <1>2, <2>1, Greatest
  <2>3. \E m \in Readable : \A n \in Readable : m >= n
    BY <2>1, <2>2
  <2>4. Max(Readable) \in Readable /\ \A n \in Readable : Max(Readable) >= n
    BY <2>3 DEF Max
  <2>5. Base = Max(Readable)
    BY <1>2 DEF Base
  <2>6. Base \in Readable /\ \A n \in Readable : n <= Base
    BY <2>1, <2>4, <2>5
  <2>7. Base \in DOMAIN snaps /\ Base \in 0 .. Len(recs)
    BY <1>0, <2>1, <2>6 DEF Readable
  <2>8. CASE Base = 0
    <3>1. SubSeq(recs, Base + 1, Len(recs)) = recs
      BY <1>0, <2>8
    <3> QED BY <2>6, <2>7, <2>8, <3>1 DEF Recovered, Logged
  <2>9. CASE Base # 0
    <3>1. snaps[Base].data = Replay(Empty, SubSeq(recs, 1, Base))
      BY <2>7 DEF SnapshotsMatchLog
    <3>2. Recovered = Replay(Empty, recs)
      BY <1>0, <2>7, <2>9, <3>1, ReplayRest DEF Recovered
    <3> QED BY <2>6, <2>7, <3>2 DEF Logged
  <2> QED BY <2>8, <2>9
<1> QED BY <1>1, <1>2

(* A write reaches memory with its record, and an index that was built     *)
(* for a record the log refused is removed.                                *)
LEMMA MemoryStep ==
    ASSUME LogShape, PhaseShape, SnapShape, LogGood, PendingGood, MemoryShape, SnapshotsMatchLog,
           [Next]_vars
    PROVE  MemoryShape'
<1>1. CASE mem' = mem /\ recs' = recs /\ call' = call /\ status' = status
  BY <1>1 DEF MemoryShape, Pending, Logged
<1>2. CASE status' # "open" /\ mem' = Empty
  BY <1>2 DEF MemoryShape
<1>3. ASSUME NEW o \in Operation, StartWrite(o) PROVE MemoryShape'
  <2>1. mem = Logged /\ recs' = recs /\ call' = [step |-> "due", op |-> o] /\ status' = "open"
    BY <1>3 DEF StartWrite, Idle, MemoryShape, Pending, logVars
  <2>2. mem' = IF o.op = "createIndex" THEN Apply(mem, o) ELSE mem
    BY <1>3 DEF StartWrite
  <2> QED BY <2>1, <2>2 DEF MemoryShape, Pending, Logged
<1>4. CASE Due
  <2>1. recs' = recs /\ mem' = mem /\ status' = status /\ Pending
    BY <1>4 DEF Due, Begin, BeginFails, Pending, logVars
  <2>2. call'.op = call.op /\ call'.step = "append"
    BY <1>4 DEF Due
  <2> QED BY <2>1, <2>2 DEF MemoryShape, Pending, Logged
<1>5. CASE FinishWrite
  <2> DEFINE o == call.op
  <2>1. /\ Pending /\ status = "open" /\ o \in Operation /\ recs \in Seq(Operation)
        /\ call' = [step |-> "none"] /\ status' = "open"
    BY <1>5 DEF FinishWrite, Pending, LogShape
  <2>2. mem = IF o.op = "createIndex" THEN Apply(Logged, o) ELSE Logged
    BY <2>1 DEF MemoryShape
  <2>3. ~ Pending'
    BY <2>1 DEF Pending
  <2>4. CASE AppendOk
    <3>1. recs' = Append(recs, o) /\ mem' = IF o.op = "createIndex" THEN mem ELSE Apply(mem, o)
      BY <2>4 DEF AppendOk
    <3>2. mem' = Apply(Logged, o)
      BY <2>2, <3>1
    <3>3. Logged' = Apply(Logged, o)
      BY <2>1, <3>1, ReplayAppend DEF Logged
    <3> QED BY <2>1, <2>3, <3>2, <3>3 DEF MemoryShape
  <2>5. CASE AppendFails
    <3>1. recs' = recs /\ mem' = Undo(o)
      BY <2>5 DEF AppendFails, logVars
    <3>2. Undo(o) = Logged
      <4>1. CASE o.op = "createIndex"
        <5>1. Good(Logged) /\ Good(Apply(Logged, o)) /\ Logged.idx[o.index] = "none"
          BY <2>1, <4>1, LoggedGood DEF PendingGood
        <5>2. [Apply(Logged, o) EXCEPT !.idx[o.index] = "none"] = Logged
          BY <2>1, <4>1, <5>1, UndoIndex
        <5> QED BY <2>2, <4>1, <5>2 DEF Undo
      <4>2. CASE o.op # "createIndex"
        BY <2>2, <4>2 DEF Undo
      <4> QED BY <4>1, <4>2
    <3> QED BY <2>1, <2>3, <3>1, <3>2 DEF MemoryShape, Logged
  <2> QED BY <1>5, <2>4, <2>5 DEF FinishWrite
<1>6. CASE Close
  <2>1. mem = Logged /\ recs' = recs /\ mem' = mem /\ status' = "open"
    BY <1>6 DEF Close, Idle, MemoryShape, Pending, Begin, BeginFails, logVars
  <2>2. ~ Pending'
    BY <1>6 DEF Close, Pending
  <2> QED BY <2>1, <2>2 DEF MemoryShape, Logged
<1>7. CASE Open
  <2>1. ~ Pending' /\ recs' = recs
    BY <1>7 DEF Open, PhaseShape, Pending, logVars
  <2>2. IF status' = "open" THEN mem' = Recovered ELSE mem' = Empty
    BY <1>7 DEF Open, MemoryShape
  <2>3. Recovered = Logged
    BY RecoveredIsLogged
  <2> QED BY <2>1, <2>2, <2>3 DEF MemoryShape, Logged
<1>8. CASE CloseLog \/ \E kind \in Crashes : Crash(kind)
  BY <1>2, <1>8 DEF CloseLog, Crash, Forget
<1>9. ASSUME NEW kind, Checkpoint(kind) PROVE MemoryShape'
  BY <1>1, <1>9 DEF Checkpoint, Begin, BeginFails
<1>10. CASE UNCHANGED vars
  BY <1>1, <1>10 DEF vars
<1> QED BY <1>1, <1>3, <1>4, <1>5, <1>6, <1>7, <1>8, <1>9, <1>10, NextCases
       DEF Flush, Rename, WriteFails, SyncDirectory, Prune, Truncate, Damage, logVars

(* beginCheckpoint copies memory, named for the last record. *)
LEMMA BeginData ==
    ASSUME LogShape, mem = Logged, NEW kind, Begin(kind)
    PROVE  CheckpointData'
<1>1. SubSeq(recs, 1, Len(recs)) = recs
  BY DEF LogShape
<1>2. ckpt'.lsn = Len(recs) /\ ckpt'.data = mem /\ recs' = recs
  BY DEF Begin
<1> QED BY <1>1, <1>2 DEF CheckpointData, Logged

(* A checkpoint that is begun takes memory as the log has it; only an      *)
(* index whose record is still to come would be in it too.                 *)
LEMMA CheckpointDataStep ==
    ASSUME LogShape, PhaseShape, CheckpointShape, LogGood, PendingGood, DoubtGood, MemoryShape,
           CheckpointData, [Next]_vars, "createIndex" \notin DueFor
    PROVE  CheckpointData'
<1>1. CASE ckpt'.phase = "none"
  BY <1>1 DEF CheckpointData
<1>2. CASE ckpt.phase # "none" /\ ckpt'.lsn = ckpt.lsn /\ ckpt'.data = ckpt.data
  <2>1. ckpt.lsn \in 0 .. hard
    BY <1>2 DEF CheckpointShape, LogShape
  <2>2. SubSeq(recs', 1, ckpt.lsn) = SubSeq(recs, 1, ckpt.lsn)
    BY <2>1, PrefixKept
  <2> QED BY <1>2, <2>2 DEF CheckpointData
<1>3. CASE ckpt' = ckpt
  BY <1>1, <1>2, <1>3
<1>4. NoCheckpoint => ckpt'.phase = "none"
  BY DEF NoCheckpoint
<1>5. CASE Due
  <2>1. call.op.op \in DueFor => mem = Logged
    BY <1>5 DEF Due, MemoryShape, Pending
  <2>2. ASSUME NEW kind, Begin(kind), call.op.op \in DueFor PROVE CheckpointData'
    BY <2>1, <2>2, BeginData
  <2> QED BY <1>3, <1>5, <2>2 DEF Due
<1>6. ASSUME NEW kind, Checkpoint(kind) PROVE CheckpointData'
  <2>1. Idle /\ (Begin(kind) \/ NoCheckpoint)
    BY <1>6 DEF Checkpoint
  <2>2. mem = Logged
    BY <2>1 DEF Idle, MemoryShape, Pending
  <2> QED BY <1>1, <1>4, <2>1, <2>2, BeginData
<1>7. CASE Close
  <2>1. Idle /\ (Begin("sync") \/ NoCheckpoint)
    BY <1>7 DEF Close
  <2>2. mem = Logged
    BY <2>1 DEF Idle, MemoryShape, Pending
  <2> QED BY <1>1, <1>4, <2>1, <2>2, BeginData
<1>8. CASE Rename \/ SyncDirectory \/ Prune
  <2>1. ckpt.phase # "none"
    BY <1>8 DEF Rename, SyncDirectory, Prune
  <2>2. ASSUME NEW p, ckpt' = [ckpt EXCEPT !.phase = p]
        PROVE  ckpt'.lsn = ckpt.lsn /\ ckpt'.data = ckpt.data
    BY <2>2
  <2> QED BY <1>1, <1>2, <1>4, <1>8, <2>1, <2>2 DEF Rename, SyncDirectory, Prune
<1>9. CASE WriteFails \/ Truncate \/ CloseLog \/ \E kind \in Crashes : Crash(kind)
  BY <1>1, <1>4, <1>9 DEF WriteFails, Truncate, CloseLog, Crash, Forget
<1>10. CASE UNCHANGED vars
  BY <1>3, <1>10 DEF vars
<1> QED BY <1>3, <1>5, <1>6, <1>7, <1>8, <1>9, <1>10, NextCases
       DEF StartWrite, FinishWrite, Flush, Open, Damage

(* Where the files come from: a snapshot is what it was, or the one of the *)
(* checkpoint that is running.                                             *)
LEMMA SnapOrigin ==
    ASSUME [Next]_vars
    PROVE  \A n \in DOMAIN snaps' :
              \/ n \in DOMAIN snaps /\ snaps'[n].data = snaps[n].data
              \/ ckpt.phase = "writing" /\ n = ckpt.lsn /\ snaps'[n].data = ckpt.data
<1>1. CASE snaps' = snaps
  BY <1>1
<1>2. CASE Rename
  <2>1. snaps' = WithSnapshot(ckpt.lsn, Snapshot(ckpt.data, "good", Beneath(ckpt.lsn)))
    BY <1>2 DEF Rename
  <2> QED BY <1>2, <2>1 DEF Rename, WithSnapshot, Snapshot
<1>3. CASE snaps' = Settled \/ snaps' = Reverted
  <2>1. CASE snaps' = Settled
    BY <2>1 DEF Settled, Snapshot
  <2>2. CASE snaps' = Reverted
    <3>1. DOMAIN snaps' \subseteq DOMAIN snaps
      BY <2>2 DEF Reverted
    <3>2. \A n \in DOMAIN snaps' : snaps'[n].data = snaps[n].data
      BY <2>2 DEF Reverted, Snapshot
    <3> QED BY <3>1, <3>2
  <2> QED BY <1>3, <2>1, <2>2
<1>4. CASE Prune
  <2>1. PICK S : snaps' = Restrict(snaps, DOMAIN snaps \ S)
    BY <1>4 DEF Prune
  <2> QED BY <2>1 DEF Restrict
<1>5. CASE Damage
  <2>1. PICK n \in DOMAIN snaps :
            snaps' = WithSnapshot(n, Snapshot(snaps[n].data, "damaged", snaps[n].lost))
    BY <1>5 DEF Damage
  <2> QED BY <2>1 DEF WithSnapshot, Snapshot
<1>6. CASE SyncDirectory \/ \E kind \in Crashes : Crash(kind)
  BY <1>1, <1>3, <1>6 DEF SyncDirectory, Crash
<1>7. CASE UNCHANGED vars
  BY <1>1, <1>7 DEF vars
<1> QED BY <1>1, <1>2, <1>4, <1>5, <1>6, <1>7, NextCases
       DEF StartWrite, Due, FinishWrite, Flush, Checkpoint, WriteFails, Truncate, Close, CloseLog, Open

(* No record that a snapshot stands for is lost or replaced. *)
LEMMA SnapshotsStep ==
    ASSUME LogShape, PhaseShape, SnapShape, CheckpointShape, LogGood, PendingGood, DoubtGood,
           CheckpointData, SnapshotsMatchLog, [Next]_vars
    PROVE  SnapshotsMatchLog'
<1> SUFFICES ASSUME NEW n \in DOMAIN snaps'
             PROVE  snaps'[n].data = Replay(Empty, SubSeq(recs', 1, n))
  BY DEF SnapshotsMatchLog
<1>1. CASE n \in DOMAIN snaps /\ snaps'[n].data = snaps[n].data
  <2>1. n \in 0 .. hard
    BY <1>1 DEF SnapShape, LogShape
  <2> QED BY <1>1, <2>1, PrefixKept DEF SnapshotsMatchLog
<1>2. CASE ckpt.phase = "writing" /\ n = ckpt.lsn /\ snaps'[n].data = ckpt.data
  <2>1. n \in 0 .. hard
    BY <1>2 DEF CheckpointShape, LogShape
  <2> QED BY <1>2, <2>1, PrefixKept DEF CheckpointData
<1> QED BY <1>1, <1>2, SnapOrigin

(* What is left of the types: the log begins at or before the end of its   *)
(* stable part, lastCheckpoint is in it, and no snapshot has the name 0.   *)
NameShape ==
    /\ first <= hard + 1 /\ last \in 0 .. Len(recs)
    /\ ckpt.phase # "none" => ckpt.lsn # 0
    /\ \A n \in DOMAIN snaps :
          n # 0 /\ snaps[n] = Snapshot(snaps[n].data, snaps[n].file, snaps[n].lost)

DataInv ==
    /\ PhaseShape /\ NameShape /\ LogGood /\ PendingGood /\ DoubtGood
    /\ MemoryShape /\ CheckpointData /\ SnapshotsMatchLog

(* truncateThrough stops at a snapshot, and so within the stable log. *)
LEMMA FirstStep ==
    ASSUME LogShape, SnapShape, first <= hard + 1, [Next]_vars
    PROVE  first' <= hard' + 1
<1>1. hard \in Nat /\ hard' \in Nat /\ hard <= hard' /\ first \in Nat /\ first' \in Nat
  BY LogStep DEF LogShape
<1>2. CASE first' = first
  <2>1. \A f, h, g \in Nat : f <= h + 1 /\ h <= g => f <= g + 1
    OBVIOUS
  <2> QED BY <1>1, <1>2, <2>1
<1>3. CASE Truncate
  <2>1. \A n \in OldestKept : n \in Nat /\ n <= hard
    BY DEF OldestKept, SnapShape
  <2>2. ASSUME NEW n \in OldestKept, first' \in first .. n + 1 PROVE first' <= hard' + 1
    <3>1. first' <= n + 1 /\ n \in Nat /\ n <= hard
      BY <1>1, <2>1, <2>2
    <3>2. \A f, h, g \in Nat : f <= h + 1 /\ h <= g => f <= g + 1
      OBVIOUS
    <3> QED BY <1>1, <3>1, <3>2
  <2> QED BY <1>2, <1>3, <2>2, TruncateReach
<1>4. CASE Due \/ Close \/ FinishWrite \/ \E kind \in {"sync", "background"} : Checkpoint(kind)
  BY <1>2, <1>4 DEF Due, Close, FinishWrite, Checkpoint, Begin, BeginFails, AppendOk, AppendFails,
                    logVars
<1>5. CASE CloseLog \/ \E kind \in Crashes : Crash(kind)
  BY <1>2, <1>5 DEF CloseLog, Crash
<1>6. CASE UNCHANGED vars
  BY <1>2, <1>6 DEF vars
<1> QED BY <1>2, <1>3, <1>4, <1>5, <1>6, NextCases
       DEF StartWrite, Flush, Rename, WriteFails, SyncDirectory, Prune, Open, Damage, logVars

(* lastCheckpoint names a record of the log. *)
LEMMA LastStep ==
    ASSUME LogShape, PhaseShape, SnapShape, CheckpointShape, SnapshotsMatchLog,
           last \in 0 .. Len(recs), [Next]_vars
    PROVE  (last \in 0 .. Len(recs))'
<1>0. /\ Len(recs) \in Nat /\ Len(recs') \in Nat /\ hard \in 0 .. Len(recs)
      /\ recs \in Seq(Operation)
  BY LogStep DEF LogShape
<1>1. CASE recs' = recs /\ last' = last
  BY <1>1
<1>2. CASE last' = 0
  BY <1>0, <1>2
<1>3. CASE FinishWrite
  <2>1. last' = last /\ (recs' = recs \/ recs' = Append(recs, call.op))
    BY <1>3 DEF FinishWrite, AppendOk, AppendFails, logVars
  <2>2. Len(recs') >= Len(recs)
    BY <1>0, <2>1
  <2> QED BY <1>0, <2>1, <2>2
<1>4. CASE Truncate
  <2>1. recs' = recs /\ (last' = last \/ last' = ckpt.lsn)
    BY <1>4 DEF Truncate
  <2>2. ckpt.lsn \in Nat /\ ckpt.lsn <= hard
    BY <1>4 DEF Truncate, CheckpointShape
  <2> QED BY <1>0, <2>1, <2>2
<1>5. CASE Open
  <2>1. recs' = recs /\ (last' = last \/ last' = Base)
    BY <1>5 DEF Open, logVars
  <2> QED BY <2>1, RecoveredIsLogged
<1>6. CASE CloseLog \/ \E kind \in Crashes : Crash(kind)
  BY <1>2, <1>6 DEF CloseLog, Crash, Forget
<1>7. CASE Due \/ Close \/ \E kind \in {"sync", "background"} : Checkpoint(kind)
  BY <1>1, <1>7 DEF Due, Close, Checkpoint, Begin, BeginFails, logVars
<1>8. CASE UNCHANGED vars
  BY <1>1, <1>8 DEF vars
<1> QED BY <1>1, <1>3, <1>4, <1>5, <1>6, <1>7, <1>8, NextCases
       DEF StartWrite, Flush, Rename, WriteFails, SyncDirectory, Prune, Damage, logVars

(* An empty log is not checkpointed. *)
LEMMA CheckpointNameStep ==
    ASSUME LogShape, ckpt.phase # "none" => ckpt.lsn # 0, [Next]_vars
    PROVE  (ckpt.phase # "none" => ckpt.lsn # 0)'
<1>0. NoCheckpoint => ckpt'.phase = "none"
  BY DEF NoCheckpoint
<1>1. ASSUME NEW kind, Begin(kind) PROVE ckpt'.lsn # 0
  BY <1>1 DEF Begin, NothingNew
<1>2. CASE Rename \/ SyncDirectory \/ Prune
  <2>1. ckpt.phase # "none"
    BY <1>2 DEF Rename, SyncDirectory, Prune
  <2>2. ASSUME NEW p, ckpt' = [ckpt EXCEPT !.phase = p] PROVE ckpt'.lsn = ckpt.lsn
    BY <2>2
  <2> QED BY <1>0, <1>2, <2>1, <2>2 DEF Rename, SyncDirectory, Prune
<1>3. CASE Due
  BY <1>1, <1>3 DEF Due
<1>4. CASE Close
  BY <1>0, <1>1, <1>4 DEF Close
<1>5. ASSUME NEW kind, Checkpoint(kind) PROVE (ckpt.phase # "none" => ckpt.lsn # 0)'
  BY <1>0, <1>1, <1>5 DEF Checkpoint
<1>6. CASE WriteFails \/ Truncate \/ CloseLog \/ \E kind \in Crashes : Crash(kind)
  BY <1>0, <1>6 DEF WriteFails, Truncate, CloseLog, Crash, Forget
<1>7. CASE UNCHANGED vars
  BY <1>7 DEF vars
<1> QED BY <1>2, <1>3, <1>4, <1>5, <1>6, <1>7, NextCases DEF StartWrite, FinishWrite, Flush, Open, Damage

(* Every file is that of a snapshot of some record. *)
LEMMA SnapFilesStep ==
    ASSUME NameShape, [Next]_vars
    PROVE  \A n \in DOMAIN snaps' :
              n # 0 /\ snaps'[n] = Snapshot(snaps'[n].data, snaps'[n].file, snaps'[n].lost)
<1>0. /\ \A n \in DOMAIN snaps :
            n # 0 /\ snaps[n] = Snapshot(snaps[n].data, snaps[n].file, snaps[n].lost)
      /\ ckpt.phase # "none" => ckpt.lsn # 0
  BY DEF NameShape
<1>1. CASE snaps' = snaps
  BY <1>0, <1>1
<1>2. ASSUME NEW n, n # 0, NEW d, NEW f, NEW l, snaps' = WithSnapshot(n, Snapshot(d, f, l))
      PROVE  \A m \in DOMAIN snaps' :
                m # 0 /\ snaps'[m] = Snapshot(snaps'[m].data, snaps'[m].file, snaps'[m].lost)
  BY <1>0, <1>2 DEF WithSnapshot, Snapshot
<1>3. CASE Rename
  <2>1. ckpt.lsn # 0
    BY <1>0, <1>3 DEF Rename
  <2>2. snaps' = WithSnapshot(ckpt.lsn, Snapshot(ckpt.data, "good", Beneath(ckpt.lsn)))
    BY <1>3 DEF Rename
  <2> QED BY <1>2, <2>1, <2>2
<1>4. CASE snaps' = Settled \/ snaps' = Reverted
  BY <1>0, <1>4 DEF Settled, Reverted, Snapshot
<1>5. CASE Prune
  <2>1. PICK S : snaps' = Restrict(snaps, DOMAIN snaps \ S)
    BY <1>5 DEF Prune
  <2> QED BY <1>0, <2>1 DEF Restrict
<1>6. CASE Damage
  <2>1. PICK n \in DOMAIN snaps :
            snaps' = WithSnapshot(n, Snapshot(snaps[n].data, "damaged", snaps[n].lost))
    BY <1>6 DEF Damage
  <2>2. n # 0
    BY <1>0
  <2> QED BY <1>2, <2>1, <2>2
<1>7. CASE SyncDirectory \/ \E kind \in Crashes : Crash(kind)
  BY <1>1, <1>4, <1>7 DEF SyncDirectory, Crash
<1>8. CASE UNCHANGED vars
  BY <1>1, <1>8 DEF vars
<1> QED BY <1>1, <1>3, <1>5, <1>6, <1>7, <1>8, NextCases
       DEF StartWrite, Due, FinishWrite, Flush, Checkpoint, WriteFails, Truncate, Close, CloseLog, Open

-----------------------------------------------------------------------------
(* Memory, snapshots and running checkpoints agree with the log in every   *)
(* state, and the log never comes to hold what recovery refuses, as long   *)
(* as no checkpoint is due while an index is built and not yet logged.     *)
THEOREM DataInvariant ==
    ASSUME "createIndex" \notin DueFor
    PROVE  Spec => []DataInv
<1>1. Init => DataInv
  <2> SUFFICES ASSUME Init PROVE DataInv
    OBVIOUS
  <2>1. DOMAIN snaps = {}
    BY DEF Init
  <2>2. PhaseShape /\ NameShape /\ PendingGood /\ DoubtGood /\ MemoryShape /\ CheckpointData
        /\ SnapshotsMatchLog
    <3>1. PhaseShape /\ DoubtGood
      BY DEF Init, PhaseShape, DoubtGood
    <3>2. NameShape
      BY <2>1 DEF Init, NameShape
    <3>3. PendingGood /\ MemoryShape
      BY DEF Init, PendingGood, Pending, MemoryShape
    <3>4. CheckpointData /\ SnapshotsMatchLog
      BY <2>1 DEF Init, CheckpointData, SnapshotsMatchLog
    <3> QED BY <3>1, <3>2, <3>3, <3>4
  <2>3. LogGood
    <3>1. \A n \in 0 .. Len(recs) : SubSeq(recs, 1, n) = <<>>
      BY DEF Init
    <3> QED BY <3>1, ReplayEmpty, EmptyGood DEF LogGood
  <2> QED BY <2>2, <2>3 DEF DataInv
<1>2. EngineInv /\ DataInv /\ [Next]_vars => DataInv'
  <2> SUFFICES ASSUME EngineInv, DataInv, [Next]_vars PROVE DataInv'
    OBVIOUS
  <2>1. LogShape /\ SnapShape /\ CheckpointShape
    BY DEF EngineInv
  <2>2. /\ PhaseShape /\ NameShape /\ LogGood /\ PendingGood /\ DoubtGood
        /\ MemoryShape /\ CheckpointData /\ SnapshotsMatchLog
    BY DEF DataInv
  <2>3. first <= hard + 1 /\ last \in 0 .. Len(recs) /\ (ckpt.phase # "none" => ckpt.lsn # 0)
    BY <2>2 DEF NameShape
  <2>4. NameShape'
    BY <2>1, <2>2, <2>3, FirstStep, LastStep, CheckpointNameStep, SnapFilesStep DEF NameShape
  <2>5. PhaseShape' /\ LogGood' /\ PendingGood' /\ DoubtGood'
    BY <2>1, <2>2, PhaseStep, LogGoodStep, PendingStep, DoubtStep
  <2>6. MemoryShape' /\ CheckpointData' /\ SnapshotsMatchLog'
    BY <2>1, <2>2, MemoryStep, CheckpointDataStep, SnapshotsStep
  <2> QED BY <2>4, <2>5, <2>6 DEF DataInv
<1> QED BY <1>1, <1>2, EngineInvariant, PTL DEF Spec

(* Between calls, and right after recovery, memory is what the whole log   *)
(* says: no append that failed or broke the log, no checkpoint, crash or   *)
(* damaged snapshot leaves a trace in it or loses a record (append and     *)
(* recover of storage-engine.ts).  A checkpoint that is due at createIndex *)
(* is left out: there the property is false (StorageEngineUnopenable).     *)
THEOREM MemoryMatchesLog ==
    ASSUME "createIndex" \notin DueFor
    PROVE  Spec => []MemoryIsTheLog
<1>1. EngineInv /\ DataInv => MemoryIsTheLog
  <2> SUFFICES ASSUME EngineInv, DataInv PROVE MemoryIsTheLog
    OBVIOUS
  <2>1. LogShape /\ SnapShape /\ PhaseShape /\ NameShape /\ LogGood /\ DoubtGood /\ MemoryShape
        /\ SnapshotsMatchLog /\ PendingGood
    BY DEF EngineInv, DataInv
  <2>2. Good(Logged)
    BY <2>1, LoggedGood
  <2>3. (status = "open" /\ call.step = "none") => mem = Replay(Empty, recs)
    BY <2>1 DEF MemoryShape, Pending, Logged
  <2>4. mem \in Data /\ mem.sound
    BY <2>1, <2>2, EmptyGood DEF MemoryShape, PendingGood, Good
  <2>5. TypeOK
    <3>1. recs \in Seq(Operation) /\ hard \in 0 .. Len(recs) /\ first \in 1 .. Len(recs) + 1
          /\ last \in 0 .. Len(recs)
      BY <2>1 DEF LogShape, NameShape
    <3>2. DOMAIN snaps \subseteq 1 .. Len(recs)
      BY <2>1 DEF SnapShape, NameShape, LogShape
    <3>3. \A n \in DOMAIN snaps :
              snaps[n] \in [data : Data, file : {"good", "damaged"}, lost : {"self", "none", "damaged"}]
      <4> SUFFICES ASSUME NEW n \in DOMAIN snaps
                   PROVE  snaps[n] \in [data : Data, file : {"good", "damaged"},
                                        lost : {"self", "none", "damaged"}]
        OBVIOUS
      <4>1. snaps[n].data \in Data
        BY <2>1, <3>2 DEF SnapshotsMatchLog, LogGood, Good
      <4>2. /\ snaps[n].file \in {"good", "damaged"} /\ snaps[n].lost \in {"self", "none", "damaged"}
            /\ snaps[n] = Snapshot(snaps[n].data, snaps[n].file, snaps[n].lost)
        BY <2>1 DEF SnapShape, NameShape
      <4> QED BY <4>1, <4>2 DEF Snapshot
    <3>4. doubt \in {<<>>} \cup {<<o>> : o \in Operation}
      BY <2>1 DEF DoubtGood
    <3> QED BY <2>1, <2>4, <3>1, <3>2, <3>3, <3>4 DEF TypeOK, PhaseShape
  <2> QED BY <2>3, <2>5 DEF MemoryIsTheLog
<1> QED BY <1>1, EngineInvariant, DataInvariant, PTL

(* Every snapshot is the state after the record it is named for, although  *)
(* writes go on while it is written in the background (beginCheckpoint     *)
(* copies memory), and whatever of the log a crash takes.                  *)
THEOREM SnapshotsAreTheLog ==
    ASSUME "createIndex" \notin DueFor
    PROVE  Spec => []SnapshotsMatchLog
<1>1. DataInv => SnapshotsMatchLog
  BY DEF DataInv
<1> QED BY <1>1, DataInvariant, PTL

(* The data directory can always be opened again, whichever records a      *)
(* crash keeps and whichever snapshots the disk damages, as long as they   *)
(* are fewer than are kept: recover() finds a snapshot that the log        *)
(* reaches back to, and what it replays is never refused.                  *)
THEOREM OpensAlways ==
    ASSUME "createIndex" \notin DueFor, MaxDamage < Retention
    PROVE  Spec => []AlwaysOpens
<1>1. Init => AlwaysOpens
  BY DEF Init, AlwaysOpens
<1>2. EngineInv /\ DataInv /\ Recoverable /\ AlwaysOpens /\ [Next]_vars => AlwaysOpens'
  <2> SUFFICES ASSUME EngineInv, DataInv, Recoverable, AlwaysOpens, [Next]_vars PROVE AlwaysOpens'
    OBVIOUS
  <2>1. LogShape /\ SnapShape /\ LogGood /\ SnapshotsMatchLog
    BY DEF EngineInv, DataInv
  <2>2. ~ Refuses
    <3>1. Base \in 0 .. Len(recs) /\ Recovered = Logged /\ \A n \in Readable : n <= Base
      BY <2>1, RecoveredIsLogged
    <3>2. Good(Recovered)
      BY <2>1, <3>1, LoggedGood
    <3>3. first <= Base + 1
      BY <2>1, <3>1 DEF Recoverable, Readable, SnapShape, LogShape
    <3> QED BY <2>1, <3>1, <3>2, <3>3 DEF Refuses, Good, LogShape
  <2>3. CASE Open
    BY <2>2, <2>3 DEF Open, AlwaysOpens
  <2>4. CASE status' \in {status, "down"}
    BY <2>4 DEF AlwaysOpens
  <2>5. CASE CloseLog \/ \E kind \in Crashes : Crash(kind)
    BY <2>4, <2>5 DEF CloseLog, Crash, Forget
  <2>6. CASE UNCHANGED vars
    BY <2>4, <2>6 DEF vars
  <2> QED BY <2>3, <2>4, <2>5, <2>6, NextCases
         DEF StartWrite, Due, FinishWrite, Flush, Checkpoint, Rename, WriteFails, SyncDirectory,
             Prune, Truncate, Close, Damage
<1> QED BY <1>1, <1>2, EngineInvariant, DataInvariant, RetentionIsEnough, PTL DEF Spec
=============================================================================
