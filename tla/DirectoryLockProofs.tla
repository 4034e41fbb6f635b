------------------------ MODULE DirectoryLockProofs ------------------------
(***************************************************************************)
(* For any number of processes and hosts: while no LOCK file has been      *)
(* removed that was not the one judged stale, at most one process has the  *)
(* directory, and the LOCK file names it.                                  *)
(***************************************************************************)
EXTENDS DirectoryLock, TLAPS

(* The program points of acquireDirectoryLock: the nonce is chosen but not *)
(* yet published.                                                          *)
Acquiring == {"create", "link", "read", "freshness", "staleness", "unlink"}

(* randomUUID: no two acquisitions share a nonce, and nothing on disk or   *)
(* read from disk carries one that was not handed out.                     *)
NoncesUnique ==
    /\ \A p \in Procs : pc[p] \notin {"down", "idle"} => nonce[p] \in 1 .. nonces
    /\ \A p, q \in Procs : nonce[p] = nonce[q] /\ nonce[p] # 0 => p = q
    /\ \A p \in Procs : nonce[p] <= nonces
    /\ lock \in LockInfo => lock.nonce <= nonces
    /\ \A p \in Procs : seen[p] \in LockInfo => seen[p].nonce <= nonces

(* Only link() publishes: nobody has read the nonce of an acquisition that *)
(* is still under way.                                                     *)
Unpublished ==
    \A q \in Procs : pc[q] \in Acquiring =>
        /\ lock # Mine(q)
        /\ \A p \in Procs : seen[p] # Mine(q)

(* A lock that a process of the same host has judged stale has no owner,   *)
(* and never gets one again; one judged by its age had no readable owner.  *)
JudgedStale ==
    /\ \A p \in Procs : pc[p] = "freshness" => seen[p] = NoLock
    /\ \A p, q \in Procs :
           (/\ pc[p] = "unlink"
            /\ seen[p] \in LockInfo
            /\ HostOf[seen[p].pid] = HostOf[p]
            /\ q \in Owners) => seen[p] # Mine(q)

(* The inductive invariant. *)
LockInv ==
    /\ TypeOK
    /\ NoncesUnique
    /\ Unpublished
    /\ JudgedStale
    /\ LockNamesOwner
-----------------------------------------------------------------------------
(* The steps of one process, and the passing of time. *)
LEMMA NextCases ==
    ASSUME Next
    PROVE  \/ \E p \in Procs :
                 \/ Boot(p) \/ Start(p) \/ CreatePrivate(p) \/ Link(p) \/ Read(p)
                 \/ CheckFresh(p) \/ CheckStale(p) \/ Unlink(p) \/ Release(p)
                 \/ ReleaseRead(p) \/ ReleaseUnlink(p) \/ Die(p)
           \/ Age
BY DEF Next, Step

(* Every step of lock.ts keeps the variables in their types. *)
LEMMA TypeStep ==
    ASSUME TypeOK, NoncesUnique, [Next]_lockVars
    PROVE  TypeOK'
<1> USE LockConstants DEF TypeOK, LockInfo, PCs, Mine
<1>1. CASE UNCHANGED lockVars
  BY <1>1 DEF lockVars
<1>2. CASE Age
  BY <1>2 DEF Age
<1>3. ASSUME NEW p \in Procs, CreatePrivate(p) PROVE TypeOK'
  BY <1>3 DEF CreatePrivate, Attempts, NoncesUnique
<1>4. ASSUME NEW p \in Procs, Link(p) PROVE TypeOK'
  BY <1>4 DEF Link, Leave, Attempts, NoncesUnique
<1>5. ASSUME NEW p \in Procs, Read(p) PROVE TypeOK'
  BY <1>5 DEF Read, Holder, Attempts
<1>6. ASSUME NEW p \in Procs, CheckFresh(p) PROVE TypeOK'
  BY <1>6 DEF CheckFresh, Leave, Attempts
<1>7. ASSUME NEW p \in Procs, CheckStale(p) PROVE TypeOK'
  BY <1>7 DEF CheckStale, Leave, IsStale, Running, Attempts
<1>8. ASSUME NEW p \in Procs, Unlink(p) PROVE TypeOK'
  BY <1>8 DEF Unlink, Leave, Excuse, Attempts
<1>9. ASSUME NEW p \in Procs, Release(p) PROVE TypeOK'
  BY <1>9 DEF Release, Attempts
<1>10. ASSUME NEW p \in Procs, ReleaseRead(p) PROVE TypeOK'
  BY <1>10 DEF ReleaseRead, Leave, Holder, Attempts
<1>11. ASSUME NEW p \in Procs, ReleaseUnlink(p) PROVE TypeOK'
  BY <1>11 DEF ReleaseUnlink, Leave, Attempts
<1>12. ASSUME NEW p \in Procs, Boot(p) PROVE TypeOK'
  BY <1>12 DEF Boot, Attempts
<1>13. ASSUME NEW p \in Procs, Start(p) PROVE TypeOK'
  BY <1>13 DEF Start, Swept, Attempts
<1>14. ASSUME NEW p \in Procs, Die(p) PROVE TypeOK'
  BY <1>14 DEF Die, Leave, Attempts
<1> QED
  BY <1>1, <1>2, <1>3, <1>4, <1>5, <1>6, <1>7, <1>8, <1>9, <1>10, <1>11, <1>12, <1>13, <1>14, NextCases

(* Nonces stay unique: Start takes the next one, everything else copies. *)
LEMMA NoncesStep ==
    ASSUME TypeOK, NoncesUnique, [Next]_lockVars
    PROVE  NoncesUnique'
<1> USE LockConstants DEF TypeOK, LockInfo, PCs, Mine, NoncesUnique
<1>1. CASE UNCHANGED lockVars
  BY <1>1 DEF lockVars
<1>2. CASE Age
  BY <1>2 DEF Age
<1>3. ASSUME NEW p \in Procs, Link(p) PROVE NoncesUnique'
  BY <1>3 DEF Link, Leave
<1>4. ASSUME NEW p \in Procs, Start(p) PROVE NoncesUnique'
  BY <1>4 DEF Start
<1>5. ASSUME NEW p \in Procs, Read(p) PROVE NoncesUnique'
  BY <1>5 DEF Read, Holder
<1>6. ASSUME NEW p \in Procs, CheckFresh(p) PROVE NoncesUnique'
  BY <1>6 DEF CheckFresh, Leave
<1>7. ASSUME NEW p \in Procs, CheckStale(p) PROVE NoncesUnique'
  BY <1>7 DEF CheckStale, Leave
<1>8. ASSUME NEW p \in Procs, Unlink(p) PROVE NoncesUnique'
  BY <1>8 DEF Unlink, Leave
<1>9. ASSUME NEW p \in Procs, CreatePrivate(p) \/ Release(p) \/ Boot(p)
      PROVE NoncesUnique'
  BY <1>9 DEF CreatePrivate, Release, Boot
<1>10. ASSUME NEW p \in Procs, ReleaseRead(p) \/ ReleaseUnlink(p) \/ Die(p)
       PROVE NoncesUnique'
  BY <1>10 DEF ReleaseRead, ReleaseUnlink, Die, Leave
<1> QED
  BY <1>1, <1>2, <1>3, <1>4, <1>5, <1>6, <1>7, <1>8, <1>9, <1>10, NextCases

(* A nonce under way stays unread: Start picks one that is on no file, and *)
(* only Link publishes, which ends the acquisition.                        *)
LEMMA UnpublishedStep ==
    ASSUME TypeOK, NoncesUnique, Unpublished, [Next]_lockVars
    PROVE  Unpublished'
<1> USE LockConstants DEF TypeOK, LockInfo, PCs, Mine, NoncesUnique, Unpublished,
               Acquiring
<1>1. CASE UNCHANGED lockVars
  BY <1>1 DEF lockVars
<1>2. CASE Age
  BY <1>2 DEF Age
<1>3. ASSUME NEW p \in Procs, Link(p) PROVE Unpublished'
  BY <1>3 DEF Link, Leave
<1>4. ASSUME NEW p \in Procs, Start(p) PROVE Unpublished'
  BY <1>4 DEF Start
<1>5. ASSUME NEW p \in Procs, Read(p) PROVE Unpublished'
  BY <1>5 DEF Read, Holder
<1>6. ASSUME NEW p \in Procs, CheckFresh(p) PROVE Unpublished'
  BY <1>6 DEF CheckFresh, Leave
<1>7. ASSUME NEW p \in Procs, CheckStale(p) PROVE Unpublished'
  BY <1>7 DEF CheckStale, Leave
<1>8. ASSUME NEW p \in Procs, Unlink(p) PROVE Unpublished'
  <2> SUFFICES ASSUME NEW q \in Procs, pc'[q] \in Acquiring
               PROVE  lock' # Mine(q)' /\ \A r \in Procs : seen'[r] # Mine(q)'
    OBVIOUS
  <2>1. pc[q] \in Acquiring /\ nonce'[q] = nonce[q]
    BY <1>8 DEF Unlink, Leave
  <2>2. Mine(q)' = Mine(q) /\ Mine(q) \in LockInfo
    BY <2>1
  <2>3. lock' = NoLock /\ \A r \in Procs : seen'[r] \in {seen[r], NoLock}
    BY <1>8 DEF Unlink, Leave
  <2> QED BY <2>1, <2>2, <2>3
<1>9. ASSUME NEW p \in Procs, CreatePrivate(p) \/ Release(p) \/ Boot(p)
      PROVE Unpublished'
  BY <1>9 DEF CreatePrivate, Release, Boot
<1>10. ASSUME NEW p \in Procs, ReleaseRead(p) \/ ReleaseUnlink(p) \/ Die(p)
       PROVE Unpublished'
  BY <1>10 DEF ReleaseRead, ReleaseUnlink, Die, Leave
<1> QED
  BY <1>1, <1>2, <1>3, <1>4, <1>5, <1>6, <1>7, <1>8, <1>9, <1>10, NextCases

(* A lock judged stale gains no owner: CheckStale finds its process gone   *)
(* (or itself), and an acquisition that succeeds later has another nonce.  *)
LEMMA JudgedStaleStep ==
    ASSUME TypeOK, NoncesUnique, Unpublished, JudgedStale, [Next]_lockVars
    PROVE  JudgedStale'
<1> USE LockConstants DEF TypeOK, LockInfo, PCs, Mine, JudgedStale, Owners
<1>1. CASE UNCHANGED lockVars
  BY <1>1 DEF lockVars
<1>2. CASE Age
  BY <1>2 DEF Age
<1>3. ASSUME NEW p \in Procs, Link(p) PROVE JudgedStale'
  BY <1>3 DEF Link, Leave, Unpublished, Acquiring
<1>4. ASSUME NEW p \in Procs, Start(p) PROVE JudgedStale'
  BY <1>4 DEF Start
<1>5. ASSUME NEW p \in Procs, Read(p) PROVE JudgedStale'
  BY <1>5 DEF Read, Holder
<1>6. ASSUME NEW p \in Procs, CheckFresh(p) PROVE JudgedStale'
  BY <1>6 DEF CheckFresh, Leave
<1>7. ASSUME NEW p \in Procs, CheckStale(p) PROVE JudgedStale'
  BY <1>7 DEF CheckStale, Leave, IsStale, Running
<1>8. ASSUME NEW p \in Procs, Unlink(p) PROVE JudgedStale'
  BY <1>8 DEF Unlink, Leave
<1>9. ASSUME NEW p \in Procs, CreatePrivate(p) \/ Release(p) \/ Boot(p)
      PROVE JudgedStale'
  BY <1>9 DEF CreatePrivate, Release, Boot
<1>10. ASSUME NEW p \in Procs, ReleaseRead(p) \/ ReleaseUnlink(p) \/ Die(p)
       PROVE JudgedStale'
  BY <1>10 DEF ReleaseRead, ReleaseUnlink, Die, Leave
<1> QED
  BY <1>1, <1>2, <1>3, <1>4, <1>5, <1>6, <1>7, <1>8, <1>9, <1>10, NextCases

(* Removing the lock that was judged stale takes it from no owner. *)
LEMMA OwnerStep ==
    ASSUME LockInv, [Next]_lockVars
    PROVE  LockNamesOwner'
<1> USE LockConstants DEF TypeOK, LockInfo, PCs, Mine, Owners, LockNamesOwner, LockInv
<1>1. CASE UNCHANGED lockVars
  BY <1>1 DEF lockVars
<1>2. CASE Age
  BY <1>2 DEF Age
<1>3. ASSUME NEW p \in Procs, Link(p) PROVE LockNamesOwner'
  BY <1>3 DEF Link, Leave, NoncesUnique
<1>4. ASSUME NEW p \in Procs, Unlink(p) PROVE LockNamesOwner'
  <2> SUFFICES ASSUME excuse' = {}, NEW q \in Procs, q \in Owners
               PROVE  FALSE
    BY <1>4 DEF Unlink, Leave
  <2>1. excuse = {} /\ Excuse(p) = {}
    BY <1>4 DEF Unlink
  <2>2. lock = Mine(q) /\ Mine(q) \in LockInfo
    BY <2>1 DEF NoncesUnique
  <2>3. lock = seen[p] /\ HostOf[lock.pid] = HostOf[p]
    BY <2>1, <2>2 DEF Excuse
  <2> QED
    BY <1>4, <2>2, <2>3 DEF Unlink, JudgedStale
<1>5. ASSUME NEW p \in Procs, ReleaseUnlink(p) PROVE LockNamesOwner'
  BY <1>5 DEF ReleaseUnlink, Leave, NoncesUnique
<1>6. ASSUME NEW p \in Procs, CheckFresh(p) \/ CheckStale(p) PROVE LockNamesOwner'
  BY <1>6 DEF CheckFresh, CheckStale, Leave
<1>7. ASSUME NEW p \in Procs, Read(p) \/ Start(p) PROVE LockNamesOwner'
  BY <1>7 DEF Read, Start
<1>8. ASSUME NEW p \in Procs, CreatePrivate(p) \/ Release(p) \/ Boot(p)
      PROVE LockNamesOwner'
  BY <1>8 DEF CreatePrivate, Release, Boot
<1>9. ASSUME NEW p \in Procs, ReleaseRead(p) \/ Die(p) PROVE LockNamesOwner'
  BY <1>9 DEF ReleaseRead, Die, Leave
<1> QED
  BY <1>1, <1>2, <1>3, <1>4, <1>5, <1>6, <1>7, <1>8, <1>9, NextCases

(* The inductive invariant holds of every behaviour of lock.ts. *)
THEOREM LockInvariant == Spec => []LockInv
<1>1. Init => LockInv
  BY LockConstants DEF Init, LockInv, TypeOK, LockInfo, PCs, NoncesUnique,
     Unpublished, Acquiring, JudgedStale, LockNamesOwner, Owners, Mine, Attempts
<1>2. LockInv /\ [Next]_lockVars => LockInv'
  BY TypeStep, NoncesStep, UnpublishedStep, JudgedStaleStep, OwnerStep DEF LockInv
<1> QED
  BY <1>1, <1>2, PTL DEF Spec

(* The type invariant of the lock protocol. *)
THEOREM TypeCorrect == Spec => []TypeOK
BY LockInvariant, PTL DEF LockInv

(* While nobody removed a lock that it had not judged, the LOCK file names *)
(* every process that has the directory or is giving it back.              *)
THEOREM OwnerIsNamed == Spec => []LockNamesOwner
BY LockInvariant, PTL DEF LockInv

(* Two processes have the directory only after one of them removed a lock  *)
(* it had not judged, or reclaimed a foreign one.                          *)
THEOREM ExclusionUnlessExcused == Spec => []ExclusiveUnlessExcused
<1>1. LockInv => ExclusiveUnlessExcused
  BY DEF LockInv, LockNamesOwner, ExclusiveUnlessExcused, MutualExclusion,
         Holders, Owners, Mine
<1> QED
  BY <1>1, LockInvariant, PTL
=============================================================================
