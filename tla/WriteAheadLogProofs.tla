------------------------ MODULE WriteAheadLogProofs -------------------------
(***************************************************************************)
(* Theorems about WriteAheadLog, for any record and segment sizes, any     *)
(* number of records and crashes, and any failures but a leftover file, in *)
(* each write concern with the crash that it promises to survive           *)
(* (Survivable).  The inductive invariant WalInv is kept by every action,  *)
(* one lemma each.                                                         *)
(***************************************************************************)
EXTENDS WriteAheadLogCalls

-----------------------------------------------------------------------------
(* The inductive invariant.                                                *)

(* The state of the log: its files f, fields w and status st, after c      *)
(* calls, with the history s, d, a and the synced LSN y.                   *)
Intact(f, w, st, c, s, d, a, y) ==
    /\ st \in {"open", "down"} /\ c \in 0 .. MaxRecords
    /\ s \in Seq(Nat) /\ d \in Seq(Nat) /\ Len(d) <= 1 /\ Len(s) + Len(d) <= c
    /\ a \in 0 .. Len(s) /\ y \in 0 .. Len(s)
    /\ Good(f, s \o d, Len(s) + 1, a) /\ Steady(f)
    /\ st = "open" => (Ready(f, w, s) /\ d = <<>>) \/ Stopped(f, w, s \o d)
    /\ st = "down" => w = Fields({}, 0, 1) /\ y = 0

WalInv == setup \in Setups /\ Intact(files, wal, status, calls, log, doubt, acked, synced)

LEMMA InvPrimed ==
    ASSUME WalInv, setup' = setup,
           NEW f, NEW w, NEW st, NEW c, NEW s, NEW d, NEW a, NEW y, Intact(f, w, st, c, s, d, a, y),
           files' = f, wal' = w, status' = st, calls' = c, log' = s, doubt' = d, acked' = a, synced' = y
    PROVE  WalInv'
<1>1. Good(f, s \o d, Len(s) + 1, a) => Good(files, log \o doubt, Len(log) + 1, acked)'
  BY DEF Good, Safe, Power, Crashes
<1>2. Steady(f) => Steady(files)'
  BY DEF Steady, Power, Crashes
<1>3. Ready(f, w, s) => Ready(files, wal, log)'
  BY <1>2 DEF Ready, Mode, GroupCommit
<1>4. Stopped(f, w, s \o d) => Stopped(files, wal, log \o doubt)'
  BY <1>2 DEF Stopped, Mode
<1>5. Intact(files, wal, status, calls, log, doubt, acked, synced)'
  BY <1>1, <1>2, <1>3, <1>4 DEF Intact
<1> QED BY <1>5 DEF WalInv

(* What the options and Survivable say of the machine. *)
LEMMA Machine ==
    ASSUME Survivable, setup \in Setups
    PROVE  Settings /\ Crashes \subseteq {"process", "power"} /\ (Power => Crashes = {"power"})
  BY WalConstants DEF Survivable, Settings, Crashes, Power, GroupCommit, Durable, Mode

LEMMA NothingAfter ==
    ASSUME NEW s \in Seq(Nat)
    PROVE  s \o <<>> = s /\ <<>> \in Seq(Nat) /\ Len(<<>>) = 0 /\ Len(s) \in Nat
  OBVIOUS

(* The state of a writable log. *)
LEMMA WritableIs ==
    ASSUME WalInv, Writable
    PROVE  /\ Good(files, log, Len(log) + 1, acked) /\ Ready(files, wal, log) /\ doubt = <<>>
           /\ log \in Seq(Nat) /\ Len(log) \in Nat /\ acked \in Nat /\ acked <= Len(log)
           /\ calls \in Nat /\ Len(log) <= calls /\ calls <= MaxRecords
           /\ synced \in 0 .. Len(log) /\ status = "open"
<1>1. Intact(files, wal, status, calls, log, doubt, acked, synced) /\ status = "open" /\ wal.broken # TRUE
  BY DEF WalInv, Writable
<1>2. log \in Seq(Nat) /\ Ready(files, wal, log) /\ doubt = <<>>
  BY <1>1 DEF Intact, Stopped
<1>3. log \o <<>> = log /\ Len(<<>>) = 0 /\ Len(log) \in Nat
  BY <1>2, NothingAfter
<1>4. Good(files, log, Len(log) + 1, acked)
  BY <1>1, <1>2, <1>3 DEF Intact
<1>5. /\ acked \in 0 .. Len(log) /\ calls \in 0 .. MaxRecords /\ Len(log) + 0 <= calls
      /\ synced \in 0 .. Len(log)
  BY <1>1, <1>2, <1>3 DEF Intact
<1> QED BY <1>1, <1>2, <1>3, <1>4, <1>5, WalConstants

(* What the callers are told after a call that began with the fields w,    *)
(* when n records are accepted and a are acknowledged.                     *)
Told(r, w, n, a) ==
    IF (r.ok \/ w.unsynced) /\ ~ r.wal.unsynced THEN n - Len(r.wal.pending) ELSE a

LEMMA CallIntact ==
    ASSUME NEW f, NEW w, NEW s \in Seq(Nat), NEW a \in 0 .. Len(s), Good(f, s, Len(s) + 1, a), Ready(f, w, s),
           NEW c \in 0 .. MaxRecords, Len(s) <= c, NEW y \in 0 .. Len(s),
           NEW r, Called(r, f, w, s, Len(s) + 1, a), NEW b, b = Told(r, w, Len(s), a)
    PROVE  b \in a .. Len(s) /\ Intact(r.files, r.wal, "open", c, s, <<>>, b, y)
<1>0. s \o <<>> = s /\ <<>> \in Seq(Nat) /\ Len(<<>>) = 0 /\ Len(s) \in Nat /\ a \in Nat
  BY NothingAfter
<1>1. SUFFICES /\ b \in a .. Len(s) /\ Good(r.files, s, Len(s) + 1, b) /\ Steady(r.files)
               /\ Ready(r.files, r.wal, s) \/ Stopped(r.files, r.wal, s)
  BY <1>0 DEF Intact
<1>2. CASE Done(r, s, Len(s) + 1, a) /\ (~ r.wal.unsynced => Good(r.files, s, Len(s) + 1, Len(s) - Len(r.wal.pending)))
  <2>1. r.ok = TRUE /\ Good(r.files, s, Len(s) + 1, a) /\ Ready(r.files, r.wal, s)
    BY <1>2 DEF Done
  <2>2. Steady(r.files) /\ r.wal.unsynced \in BOOLEAN
    BY <2>1 DEF Ready
  <2>3. Len(r.wal.pending) \in Nat /\ a <= Len(s) - Len(r.wal.pending)
    BY <2>1, <1>0, ReadyLog
  <2>4. CASE r.wal.unsynced
    BY <1>0, <2>1, <2>2, <2>4 DEF Told
  <2>5. CASE ~ r.wal.unsynced
    <3>1. b = Len(s) - Len(r.wal.pending)
      BY <2>1, <2>5 DEF Told
    <3>2. b \in a .. Len(s)
      BY <1>0, <2>3, <3>1
    <3> QED BY <1>2, <2>1, <2>2, <2>5, <3>1, <3>2
  <2> QED BY <2>4, <2>5
<1>3. CASE r = Failed(f, w)
  <2>1. r.files = f /\ r.wal = w /\ r.ok = FALSE
    BY <1>3 DEF Failed
  <2>2. b = a /\ Steady(f)
    BY <2>1 DEF Told, Ready
  <2> QED BY <1>0, <2>1, <2>2
<1>4. CASE Halt(r, w, s, Len(s) + 1, a)
  <2>1. /\ r.ok = FALSE /\ Good(r.files, s, Len(s) + 1, a) /\ Stopped(r.files, r.wal, s)
        /\ r.wal.unsynced = w.unsynced
    BY <1>4 DEF Halt
  <2>2. b = a /\ Steady(r.files)
    BY <2>1 DEF Told, Stopped
  <2> QED BY <1>0, <2>1, <2>2
<1> QED BY <1>2, <1>3, <1>4 DEF Called

(* A step that is such a call. *)
LEMMA CallStep ==
    ASSUME WalInv, Writable, setup' = setup, status' = status, calls' = calls, log' = log, doubt' = doubt,
           NEW r, Called(r, files, wal, log, Len(log) + 1, acked), Take(r),
           acked' = Promised(r, log), synced' \in 0 .. Len(log)
    PROVE  WalInv' /\ acked' \in acked .. Len(log)
<1> DEFINE b == Told(r, wal, Len(log), acked)
           y == synced'
<1>1. /\ Good(files, log, Len(log) + 1, acked) /\ Ready(files, wal, log) /\ doubt = <<>>
      /\ log \in Seq(Nat) /\ acked \in 0 .. Len(log) /\ status = "open"
      /\ calls \in 0 .. MaxRecords /\ Len(log) <= calls
  BY WritableIs, WalConstants
<1>2. b = acked' /\ files' = r.files /\ wal' = r.wal
  BY DEF Told, Promised, Take
<1>3. b = Told(r, wal, Len(log), acked) /\ y \in 0 .. Len(log) /\ synced' = y
  OBVIOUS
<1> HIDE DEF b, y
<1>4. b \in acked .. Len(log) /\ Intact(r.files, r.wal, "open", calls, log, <<>>, b, y)
  BY <1>1, <1>3, CallIntact
<1>5. WalInv'
  <2>1. status' = "open" /\ doubt' = <<>> /\ acked' = b
    BY <1>1, <1>2
  <2> QED BY <1>2, <1>3, <1>4, <2>1, InvPrimed
<1> QED BY <1>2, <1>4, <1>5

LEMMA FlushTimerStep ==
    ASSUME Survivable, WalInv, FlushTimer
    PROVE  WalInv' /\ acked' \in acked .. Len(log)
<1>1. /\ Writable /\ wal.pending # <<>> /\ setup' = setup /\ status' = status /\ calls' = calls
      /\ log' = log /\ doubt' = doubt /\ synced' = synced
  BY DEF FlushTimer
<1>2. PICK r \in Flush(files, wal, Faults) : Take(r) /\ acked' = Promised(r, log)
  BY DEF FlushTimer
<1>3. /\ Good(files, log, Len(log) + 1, acked) /\ Ready(files, wal, log) /\ log \in Seq(Nat)
      /\ acked \in Nat /\ synced \in 0 .. Len(log)
  BY <1>1, WritableIs
<1>4. Settings
  BY Machine DEF WalInv
<1>5. Called(r, files, wal, log, Len(log) + 1, acked)
  BY <1>1, <1>3, <1>4, TimerGives
<1> QED BY <1>1, <1>2, <1>3, <1>5, CallStep

LEMMA CommitStep ==
    ASSUME Survivable, WalInv, Commit
    PROVE  WalInv' /\ acked' \in acked .. Len(log)
<1>1. /\ Writable /\ wal.unsynced /\ setup' = setup /\ status' = status /\ calls' = calls
      /\ log' = log /\ doubt' = doubt /\ synced' = synced
  BY DEF Commit
<1>2. PICK r \in CommitResults(files, wal, Faults) : Take(r) /\ acked' = Promised(r, log)
  BY DEF Commit
<1>3. /\ Good(files, log, Len(log) + 1, acked) /\ Ready(files, wal, log) /\ log \in Seq(Nat)
      /\ acked \in Nat /\ synced \in 0 .. Len(log)
  BY <1>1, WritableIs
<1>5. Called(r, files, wal, log, Len(log) + 1, acked)
  BY <1>1, <1>3, CommitGives
<1> QED BY <1>1, <1>2, <1>3, <1>5, CallStep

LEMMA SyncStep ==
    ASSUME Survivable, WalInv, Sync
    PROVE  WalInv' /\ acked' \in acked .. Len(log)
<1>1. /\ Writable /\ setup' = setup /\ status' = status /\ calls' = calls
      /\ log' = log /\ doubt' = doubt
  BY DEF Sync
<1>2. PICK r \in SyncResults(files, wal, Faults) :
         Take(r) /\ acked' = Promised(r, log) /\ synced' = IF r.ok THEN LastLsn(r.wal) ELSE synced
  BY DEF Sync
<1>3. /\ Good(files, log, Len(log) + 1, acked) /\ Ready(files, wal, log) /\ log \in Seq(Nat)
      /\ acked \in Nat /\ synced \in 0 .. Len(log) /\ Len(log) \in Nat
  BY <1>1, WritableIs
<1>4. Called(r, files, wal, log, Len(log) + 1, acked) /\ (r.ok = TRUE => r.wal.nextLsn = Len(log) + 1)
  BY <1>1, <1>3, SyncGives
<1>5. r.ok \in BOOLEAN
  <2>1. Failed(files, wal).ok = FALSE
    BY DEF Failed
  <2> QED BY <1>4, <2>1 DEF Called, Done, Halt
<1>6. synced' \in 0 .. Len(log)
  <2>1. CASE r.ok = TRUE
    BY <1>2, <1>3, <1>4, <2>1 DEF LastLsn
  <2>2. CASE r.ok = FALSE
    BY <1>2, <1>3, <2>2
  <2> QED BY <1>5, <2>1, <2>2
<1> QED BY <1>1, <1>2, <1>3, <1>4, <1>6, CallStep

LEMMA TruncateStep ==
    ASSUME Survivable, WalInv, NEW lsn \in 1 .. synced, Truncate(lsn)
    PROVE  WalInv' /\ UNCHANGED <<log, doubt, acked, status>>
<1>1. /\ Writable /\ setup' = setup /\ status' = status /\ calls' = calls
      /\ log' = log /\ doubt' = doubt /\ acked' = acked /\ synced' = synced
  BY DEF Truncate
<1>2. PICK r \in TruncateResults(files, wal, lsn, Faults) : Take(r)
  BY DEF Truncate
<1>3. /\ Good(files, log, Len(log) + 1, acked) /\ Ready(files, wal, log) /\ doubt = <<>>
      /\ log \in Seq(Nat) /\ Len(log) \in Nat /\ acked \in 0 .. Len(log) /\ status = "open"
      /\ calls \in 0 .. MaxRecords /\ Len(log) <= calls /\ synced \in 0 .. Len(log)
  BY <1>1, WritableIs, WalConstants
<1>4. lsn \in Nat /\ Len(log) + 1 \in Nat /\ acked \in Nat
  BY <1>3
<1>5. Good(r.files, log, Len(log) + 1, acked) /\ Ready(r.files, r.wal, log)
  BY <1>3, <1>4, TruncateGives
<1>6. Intact(r.files, r.wal, "open", calls, log, <<>>, acked, synced)
  <2>1. log \o <<>> = log /\ <<>> \in Seq(Nat) /\ Len(<<>>) = 0
    BY <1>3, NothingAfter
  <2>2. Steady(r.files)
    BY <1>5 DEF Ready
  <2> QED BY <1>3, <1>5, <2>1, <2>2 DEF Intact
<1>7. files' = r.files /\ wal' = r.wal /\ status' = "open" /\ doubt' = <<>>
  BY <1>1, <1>2, <1>3 DEF Take
<1> QED BY <1>1, <1>6, <1>7, InvPrimed

(* A log that is shut. *)
LEMMA DownIntact ==
    ASSUME NEW f, NEW c \in 0 .. MaxRecords, NEW s \in Seq(Nat), NEW d \in Seq(Nat), Len(d) <= 1,
           Len(s) + Len(d) <= c, NEW a \in 0 .. Len(s), Good(f, s \o d, Len(s) + 1, a), Steady(f)
    PROVE  Intact(f, Fields({}, 0, 1), "down", c, s, d, a, 0)
<1>1. Len(s) \in Nat
  OBVIOUS
<1> QED BY <1>1 DEF Intact

LEMMA CloseStep ==
    ASSUME Survivable, WalInv, Close
    PROVE  WalInv' /\ acked' \in acked .. Len(log)
<1>1. /\ status = "open" /\ status' = "down" /\ wal' = Fields({}, 0, 1) /\ synced' = 0
      /\ setup' = setup /\ calls' = calls /\ log' = log /\ doubt' = doubt
  BY DEF Close
<1>2. PICK r : /\ IF wal.broken THEN r = Failed(files, wal)
                  ELSE \E q \in Flush(files, wal, Faults) :
                          IF q.ok THEN r \in CommitResults(q.files, q.wal, Faults) ELSE r = q
               /\ files' = r.files
               /\ acked' = IF wal.unsynced \/ wal.pending # <<>> THEN Promised(r, log) ELSE acked
  BY DEF Close, Then
<1>3. /\ log \in Seq(Nat) /\ doubt \in Seq(Nat) /\ Len(doubt) <= 1 /\ Len(log) + Len(doubt) <= calls
      /\ acked \in 0 .. Len(log) /\ calls \in 0 .. MaxRecords
      /\ Good(files, log \o doubt, Len(log) + 1, acked) /\ Steady(files)
      /\ (Ready(files, wal, log) /\ doubt = <<>>) \/ Stopped(files, wal, log \o doubt)
  BY <1>1 DEF WalInv, Intact
<1>0. log \in Seq(Nat) /\ acked \in 0 .. Len(log)
  BY <1>3
<1>4. Len(log) \in Nat /\ acked \in acked .. Len(log) /\ acked \in Nat
  <2>1. Len(log) \in Nat
    BY <1>0
  <2> QED BY <1>0, <2>1
<1>5. SUFFICES ASSUME NEW b, b = acked', NEW f, f = files'
               PROVE  b \in acked .. Len(log) /\ Good(f, log \o doubt, Len(log) + 1, b) /\ Steady(f)
  <2>1. acked' \in acked .. Len(log) /\ Good(files', log \o doubt, Len(log) + 1, acked') /\ Steady(files')
    BY <1>5
  <2> DEFINE b == acked'
             f == files'
  <2>2. b \in 0 .. Len(log)
    <3>1. b \in acked .. Len(log)
      BY <2>1
    <3> HIDE DEF b
    <3> QED BY <1>4, <3>1
  <2>3. Good(f, log \o doubt, Len(log) + 1, b) /\ Steady(f)
    BY <2>1
  <2>4. files' = f /\ acked' = b
    OBVIOUS
  <2> HIDE DEF b, f
  <2>5. Intact(f, Fields({}, 0, 1), "down", calls, log, doubt, b, 0)
    BY <1>3, <2>2, <2>3, DownIntact
  <2> QED BY <1>1, <2>1, <2>4, <2>5, InvPrimed
<1>6. CASE Stopped(files, wal, log \o doubt)
  <2>1. wal.broken = TRUE /\ wal.unsynced \in BOOLEAN
    BY <1>6 DEF Stopped
  <2>2. r = Failed(files, wal)
    BY <1>2, <2>1
  <2>3. r.files = files /\ r.wal = wal /\ r.ok = FALSE
    BY <2>2 DEF Failed
  <2>4. b = acked
    BY <1>2, <1>5, <2>1, <2>3 DEF Promised
  <2> QED BY <1>2, <1>3, <1>4, <1>5, <2>3, <2>4
<1>7. CASE Ready(files, wal, log) /\ doubt = <<>>
  <2>0. log \o <<>> = log
    BY <1>3, NothingAfter
  <2>1. Good(files, log, Len(log) + 1, acked) /\ Ready(files, wal, log) /\ wal.broken = FALSE
    BY <1>3, <1>7, <2>0 DEF Ready
  <2>2. \E q \in Flush(files, wal, Faults) :
             IF q.ok THEN r \in CommitResults(q.files, q.wal, Faults) ELSE r = q
    BY <1>2, <2>1
  <2>3. Settings
    BY Machine DEF WalInv
  <2>4. /\ Good(r.files, log, Len(log) + 1, acked) /\ Steady(r.files)
        /\ wal.unsynced \/ wal.pending # <<>> => Called(r, files, wal, log, Len(log) + 1, acked)
    BY <1>3, <1>4, <2>1, <2>2, <2>3, CloseGives
  <2>5. CASE ~ (wal.unsynced \/ wal.pending # <<>>)
    <3>1. b = acked
      BY <1>2, <1>5, <2>5
    <3> QED BY <1>2, <1>4, <1>5, <1>7, <2>0, <2>4, <3>1
  <2>6. CASE wal.unsynced \/ wal.pending # <<>>
    <3>1. b = Told(r, wal, Len(log), acked)
      BY <1>2, <1>5, <2>6 DEF Promised, Told
    <3>2. Len(log) <= calls /\ 0 \in 0 .. Len(log)
      <4>1. Len(doubt) = 0
        BY <1>7
      <4>2. Len(log) + Len(doubt) <= calls /\ calls \in Nat
        BY <1>3, WalConstants
      <4> QED BY <1>4, <4>1, <4>2
    <3>3. b \in acked .. Len(log) /\ Intact(r.files, r.wal, "open", calls, log, <<>>, b, 0)
      BY <1>3, <2>1, <2>4, <2>6, <3>1, <3>2, CallIntact
    <3> QED BY <1>2, <1>5, <1>7, <2>4, <3>3 DEF Intact
  <2> QED BY <2>5, <2>6
<1> QED BY <1>3, <1>6, <1>7

LEMMA LaterGood ==
    ASSUME NEW f, NEW t, NEW k \in Nat, NEW a, Good(f, t, k, a), NEW h \in Nat, k <= h
    PROVE  Good(f, t, h, a)
<1>1. \A n \in DOMAIN f : n \in Nat /\ n <= k
  BY DEF Good, Sound, FilesShape
<1>2. \A n \in DOMAIN f : n <= h
  BY <1>1
<1> QED BY <1>2 DEF Good, Sound

LEMMA BrokenIntact ==
    ASSUME NEW f, NEW w, NEW c \in 0 .. MaxRecords, NEW s \in Seq(Nat), NEW d \in Seq(Nat), Len(d) <= 1,
           Len(s) + Len(d) <= c, NEW a \in 0 .. Len(s), NEW y \in 0 .. Len(s),
           Good(f, s \o d, Len(s) + 1, a), Stopped(f, w, s \o d)
    PROVE  Intact(f, w, "open", c, s, d, a, y)
<1>1. Steady(f)
  BY DEF Stopped
<1> QED BY <1>1 DEF Intact

(* The history after append: u and d, of which b records are acknowledged. *)
Records(r, w, s, t, rec, a, u, d, b) ==
    /\ u = IF r.ok THEN t ELSE s
    /\ d = IF r.wal.broken THEN <<rec.id>> ELSE <<>>
    /\ b = Told(r, w, Len(u), a)

LEMMA AppendedIntact ==
    ASSUME NEW f, NEW w, NEW s \in Seq(Nat), NEW a \in 0 .. Len(s), Good(f, s, Len(s) + 1, a), Ready(f, w, s),
           NEW rec, NEW t, Adds(rec, s, t), NEW c \in 0 .. MaxRecords, Len(s) + 1 <= c,
           NEW y \in 0 .. Len(s), "leftover" \notin Faults, GroupCommit => Durable,
           NEW r, Appended(r, w, s, t, Len(s) + 1, a, Faults),
           NEW u, NEW d, NEW b, Records(r, w, s, t, rec, a, u, d, b)
    PROVE  /\ b \in a .. Len(u) /\ Intact(r.files, r.wal, "open", c, u, d, b, y)
           /\ (u = t /\ d = <<>>) \/ (u = s /\ d \in {<<>>, <<rec.id>>})
<1>0. Len(s) \in Nat /\ a \in Nat /\ a <= Len(s)
  <2>1. Len(s) \in Nat
    OBVIOUS
  <2> QED BY <2>1
<1>9. /\ u = IF r.ok THEN t ELSE s
      /\ d = IF r.wal.broken THEN <<rec.id>> ELSE <<>>
      /\ b = Told(r, w, Len(u), a)
  BY DEF Records
<1>1. Len(t) = Len(s) + 1 /\ t \in Seq(Nat) /\ rec.id \in Nat /\ t = Append(s, rec.id)
  BY AddsIs DEF Adds, Record
<1>2. /\ s \o <<rec.id>> = t /\ <<rec.id>> \in Seq(Nat) /\ Len(<<rec.id>>) = 1
      /\ s \o <<>> = s /\ t \o <<>> = t /\ <<>> \in Seq(Nat) /\ Len(<<>>) = 0
  BY <1>1
<1>3. ~ Left(r, t, Len(s) + 1, a, Faults)
  BY DEF Left
<1>4. w.unsynced \in BOOLEAN /\ (w.unsynced => Mode # "memory")
  BY DEF Ready, Durable
<1>5. CASE Done(r, t, Len(s) + 1, a) /\ (~ r.wal.unsynced => Good(r.files, t, Len(s) + 1, Len(t) - Len(r.wal.pending)))
  <2>1. /\ r.ok = TRUE /\ Good(r.files, t, Len(s) + 1, a) /\ Ready(r.files, r.wal, t)
        /\ r.wal.broken = FALSE /\ r.wal.unsynced \in BOOLEAN /\ Steady(r.files)
    BY <1>5 DEF Done, Ready
  <2>2. u = t /\ d = <<>>
    BY <1>9, <2>1
  <2>3. Len(r.wal.pending) \in Nat /\ a <= Len(t) - Len(r.wal.pending)
    BY <1>0, <1>1, <2>1, ReadyLog
  <2>4. b \in a .. Len(t) /\ Good(r.files, t, Len(s) + 1, b)
    <3>1. CASE r.wal.unsynced
      <4>1. b = a
        BY <1>9, <3>1, <2>1 DEF Told
      <4> QED BY <1>0, <1>1, <2>1, <4>1
    <3>2. CASE ~ r.wal.unsynced
      <4>1. b = Len(t) - Len(r.wal.pending)
        BY <1>9, <3>2, <2>1, <2>2 DEF Told
      <4>2. b \in a .. Len(t)
        <5>1. Len(t) \in Nat
          BY <1>0, <1>1
        <5> QED BY <1>0, <2>3, <4>1, <5>1
      <4> QED BY <1>5, <3>2, <4>1, <4>2
    <3> QED BY <3>1, <3>2
  <2>5. Good(r.files, t, Len(t) + 1, b)
    BY <1>0, <1>1, <2>4, LaterGood
  <2>6. b \in 0 .. Len(t) /\ y \in 0 .. Len(t) /\ Len(t) + 0 <= c
    BY <1>0, <1>1, <2>4
  <2>7. Intact(r.files, r.wal, "open", c, t, <<>>, b, y)
    BY <1>1, <1>2, <2>1, <2>5, <2>6 DEF Intact
  <2> QED BY <2>2, <2>4, <2>7
<1>6. ASSUME r.ok = FALSE, Good(r.files, t, Len(s) + 1, a),
             (Good(r.files, s, Len(s) + 1, a) /\ Ready(r.files, r.wal, s)) \/ Stopped(r.files, r.wal, t),
             w.unsynced /\ ~ r.wal.unsynced => Good(r.files, t, Len(s) + 1, Len(s))
      PROVE  /\ b \in a .. Len(u) /\ Intact(r.files, r.wal, "open", c, u, d, b, y)
             /\ (u = t /\ d = <<>>) \/ (u = s /\ d \in {<<>>, <<rec.id>>})
  <2>1. u = s /\ Steady(r.files)
    BY <1>6, <1>9 DEF Ready, Stopped
  <2>2. Mode # "memory" => r.wal.pending = <<>>
    BY <1>6 DEF Ready, Stopped
  <2>3. b = a \/ (b = Len(s) /\ Good(r.files, t, Len(s) + 1, Len(s)))
    <3>1. CASE w.unsynced /\ ~ r.wal.unsynced
      <4>1. b = Len(s) - Len(r.wal.pending)
        BY <1>6, <1>9, <2>1, <3>1 DEF Told
      <4>2. Len(r.wal.pending) = 0
        BY <1>2, <1>4, <2>2, <3>1
      <4> QED BY <1>0, <1>6, <3>1, <4>1, <4>2
    <3>2. CASE ~ (w.unsynced /\ ~ r.wal.unsynced)
      BY <1>6, <1>9, <3>2 DEF Told
    <3> QED BY <3>1, <3>2
  <2>4. b \in a .. Len(s) /\ b \in 0 .. Len(s) /\ Good(r.files, t, Len(s) + 1, b)
    BY <1>0, <1>6, <2>3
  <2>5. CASE Good(r.files, s, Len(s) + 1, a) /\ Ready(r.files, r.wal, s)
    <3>1. d = <<>>
      BY <1>9, <2>5 DEF Ready
    <3>2. Good(r.files, s, Len(s) + 1, b)
      BY <2>4, <2>5 DEF Good
    <3>3. Len(s) + 0 <= c
      BY <1>0
    <3>4. Intact(r.files, r.wal, "open", c, s, <<>>, b, y)
      BY <1>2, <2>1, <2>4, <2>5, <3>2, <3>3 DEF Intact
    <3> QED BY <2>1, <2>4, <3>1, <3>4
  <2>6. CASE Stopped(r.files, r.wal, t)
    <3>1. d = <<rec.id>>
      BY <1>9, <2>6 DEF Stopped
    <3>2. Intact(r.files, r.wal, "open", c, s, <<rec.id>>, b, y)
      <4>1. Len(s) + Len(<<rec.id>>) <= c
        BY <1>2
      <4>2. Good(r.files, s \o <<rec.id>>, Len(s) + 1, b) /\ Stopped(r.files, r.wal, s \o <<rec.id>>)
        BY <1>2, <2>4, <2>6
      <4>3. <<rec.id>> \in Seq(Nat) /\ Len(<<rec.id>>) <= 1
        BY <1>2
      <4> QED BY <2>4, <4>1, <4>2, <4>3, BrokenIntact
    <3> QED BY <2>1, <2>4, <3>1, <3>2
  <2> QED BY <1>6, <2>5, <2>6
<1> QED BY <1>3, <1>5, <1>6 DEF Appended

(* How a call of append looks from outside. *)
AppendShows ==
    /\ acked' \in acked .. Len(log') /\ doubt = <<>> /\ status = "open" /\ status' = "open"
    /\ calls + 1 \in 1 .. MaxRecords
    /\ \/ log' = Append(log, calls + 1) /\ doubt' = <<>>
       \/ log' = log /\ doubt' \in {<<>>, <<calls + 1>>}

LEMMA RecordIs ==
    ASSUME WalInv, Writable, calls < MaxRecords, NEW size \in Sizes, NEW rec,
           rec = [id |-> calls + 1, lsn |-> wal.nextLsn, size |-> size]
    PROVE  Adds(rec, log, Append(log, calls + 1)) /\ rec.id = calls + 1 /\ calls + 1 \in 1 .. MaxRecords
<1>1. /\ Ready(files, wal, log) /\ log \in Seq(Nat) /\ Len(log) \in Nat /\ calls \in Nat
      /\ Len(log) <= calls
  BY WritableIs
<1>2. wal.nextLsn = Len(log) + 1
  BY <1>1 DEF Ready
<1>3. rec.id = calls + 1 /\ rec.lsn = Len(log) + 1 /\ MaxRecords \in Nat
  BY <1>2, WalConstants
<1>4. rec \in Record
  BY <1>1, <1>2, WalConstants DEF Record
<1> QED BY <1>1, <1>3, <1>4 DEF Adds

LEMMA AppendStep ==
    ASSUME Survivable, WalInv, NEW size \in Sizes, AppendCall(size)
    PROVE  WalInv' /\ AppendShows
<1> DEFINE rec == [id |-> calls + 1, lsn |-> wal.nextLsn, size |-> size]
           t == Append(log, calls + 1)
<1>1. /\ Writable /\ calls < MaxRecords /\ calls' = calls + 1
      /\ setup' = setup /\ status' = status /\ synced' = synced
  BY DEF AppendCall
<1>2. PICK r \in AppendRecord(files, wal, rec, Faults) :
             /\ Take(r)
             /\ log' = IF r.ok THEN Append(log, rec.id) ELSE log
             /\ doubt' = IF r.wal.broken THEN <<rec.id>> ELSE <<>>
             /\ acked' = Promised(r, log')
  BY DEF AppendCall
<1>3. Adds(rec, log, t) /\ rec.id = calls + 1 /\ calls + 1 \in 1 .. MaxRecords
  BY <1>1, RecordIs
<1>4. /\ Good(files, log, Len(log) + 1, acked) /\ Ready(files, wal, log) /\ doubt = <<>>
      /\ log \in Seq(Nat) /\ Len(log) \in Nat /\ acked \in 0 .. Len(log) /\ status = "open"
      /\ calls \in Nat /\ Len(log) <= calls /\ synced \in 0 .. Len(log) /\ acked \in Nat
  BY <1>1, WritableIs
<1>5. Settings /\ (GroupCommit => Durable) /\ "leftover" \notin Faults
  BY Machine DEF WalInv, Settings, Survivable
<1> DEFINE u == IF r.ok THEN t ELSE log
           d == IF r.wal.broken THEN <<rec.id>> ELSE <<>>
           b == Told(r, wal, Len(u), acked)
           c == calls + 1
<1>6. /\ files' = r.files /\ wal' = r.wal /\ log' = u /\ doubt' = d /\ acked' = b
      /\ calls' = c /\ status' = "open"
  BY <1>1, <1>2, <1>3, <1>4 DEF Take, Promised, Told
<1>7. /\ Records(r, wal, log, t, rec, acked, u, d, b)
      /\ c \in 0 .. MaxRecords /\ Len(log) + 1 <= c
  BY <1>3, <1>4 DEF Records
<1>8. r \in AppendRecord(files, wal, rec, Faults)
  BY <1>2
<1> HIDE DEF rec, t, u, d, b, c
<1>9. Appended(r, wal, log, t, Len(log) + 1, acked, Faults)
  BY <1>3, <1>4, <1>5, <1>8, AppendGives
<1>10. /\ b \in acked .. Len(u) /\ Intact(r.files, r.wal, "open", c, u, d, b, synced)
       /\ (u = t /\ d = <<>>) \/ (u = log /\ d \in {<<>>, <<rec.id>>})
  BY <1>3, <1>4, <1>5, <1>7, <1>9, AppendedIntact
<1>11. WalInv'
  BY <1>1, <1>6, <1>10, InvPrimed
<1> QED BY <1>3, <1>4, <1>6, <1>10, <1>11 DEF AppendShows, t

(* A log that has just been opened. *)
LEMMA OpenedReady ==
    ASSUME NEW g, NEW s \in Seq(Nat), NEW k, NEW a, Good(g, s, k, a), Steady(g), Clean(g),
           NEW l \in DOMAIN g, Latest(g, l), End(g, l) = Len(s) + 1, NEW w, w = OpenedLog(g)
    PROVE  Ready(g, w, s)
<1>1. DOMAIN g \in SUBSET Nat /\ \A n \in DOMAIN g : n <= l
  BY DEF Good, Sound, FilesShape, Latest
<1>2. Max(DOMAIN g) = l
  BY <1>1, MaxIs
<1>3. w = Fields(DOMAIN g, Size(g[l].recs), l + Len(g[l].recs))
  BY <1>2 DEF OpenedLog
<1>4. /\ w.segments = DOMAIN g /\ w.pending = <<>> /\ w.nextLsn = l + Len(g[l].recs)
      /\ w.unsynced = FALSE /\ w.broken = FALSE /\ Shape(w)
  BY <1>3 DEF Fields, Shape
<1>5. Active(w) = l
  BY <1>2, <1>4 DEF Active
<1>6. Len(s) \in Nat /\ Len(w.pending) = 0 /\ w.pending \in Seq(Record)
  BY <1>4
<1>7. End(g, l) + Len(w.pending) = Len(s) + 1 /\ w.nextLsn = Len(s) + 1
  BY <1>4, <1>6 DEF End
<1>8. GoesOn(g, l, w.pending, s)
  BY <1>6, <1>7 DEF GoesOn
<1> QED BY <1>4, <1>5, <1>7, <1>8 DEF Ready

(* What recovery returns. *)
LEMMA WalRecovers ==
    ASSUME WalInv
    PROVE  ~ Refuses(files) /\ Recovers(files, log \o doubt, acked, RecoveredLog(files))
<1>1. log \in Seq(Nat) /\ doubt \in Seq(Nat) /\ Good(files, log \o doubt, Len(log) + 1, acked)
  BY DEF WalInv, Intact
<1>2. Len(log) + 1 \in Nat /\ acked \in Nat
  <2>1. Len(log) \in Nat /\ acked \in 0 .. Len(log)
    BY DEF WalInv, Intact
  <2> QED BY <2>1
<1>3. ~ Refuses(files)
  BY <1>1, <1>2, NotRefused DEF Good
<1> QED BY <1>1, <1>2, <1>3, RecoveredIs

(* How open looks from outside. *)
OpenShows ==
    /\ status = "down" /\ status' = "open" /\ doubt' = <<>> /\ acked' = acked
    /\ log' \in Seq(Nat) /\ acked <= Len(log') /\ Len(log') <= Len(log \o doubt)
    /\ \A i \in 1 .. Len(log') : log'[i] = (log \o doubt)[i]

LEMMA OpenStep ==
    ASSUME Survivable, WalInv, Open
    PROVE  WalInv' /\ OpenShows
<1>1. ~ Refuses(files) /\ Recovers(files, log \o doubt, acked, RecoveredLog(files))
  BY WalRecovers
<1>2. /\ status = "down" /\ status' = "open" /\ files' = OpenedFiles(files) /\ wal' = OpenedLog(files')
      /\ log' = RecoveredLog(files) /\ doubt' = <<>>
      /\ setup' = setup /\ calls' = calls /\ acked' = acked /\ synced' = synced
  BY <1>1 DEF Open
<1>3. /\ log \in Seq(Nat) /\ doubt \in Seq(Nat) /\ Len(log) + Len(doubt) <= calls
      /\ acked \in 0 .. Len(log) /\ calls \in 0 .. MaxRecords /\ synced = 0
      /\ Good(files, log \o doubt, Len(log) + 1, acked) /\ Steady(files)
  BY <1>2 DEF WalInv, Intact
<1>4. Len(log) \in Nat /\ Len(doubt) \in Nat /\ Len(log \o doubt) = Len(log) + Len(doubt) /\ acked \in Nat
  <2>1. log \in Seq(Nat) /\ doubt \in Seq(Nat)
    BY <1>3
  <2>2. Len(log) \in Nat /\ Len(doubt) \in Nat /\ Len(log \o doubt) = Len(log) + Len(doubt)
    BY <2>1
  <2> QED BY <1>3, <2>2
<1> DEFINE r == RecoveredLog(files)
           g == OpenedFiles(files)
           w == OpenedLog(g)
<1>5. /\ r \in Seq(Nat) /\ acked <= Len(r) /\ Len(r) <= Len(log \o doubt)
      /\ \A i \in 1 .. Len(r) : r[i] = (log \o doubt)[i]
  BY <1>1 DEF Recovers
<1>6. r = RecoveredLog(files) /\ g = OpenedFiles(files) /\ w = OpenedLog(g)
  OBVIOUS
<1>7. files' = g /\ wal' = w /\ log' = r
  BY <1>2
<1> HIDE DEF r, g, w
<1>8. Power => Durable
  BY Machine DEF WalInv, Settings
<1>9. PICK l \in DOMAIN g : /\ Good(g, r, Len(r) + 1, acked) /\ Steady(g) /\ Clean(g)
                           /\ Latest(g, l) /\ End(g, l) = Len(r) + 1
  <2> DEFINE t == log \o doubt
             k == Len(log) + 1
  <2>1. t = log \o doubt /\ k = Len(log) + 1 /\ k \in Nat /\ Good(files, t, k, acked)
    BY <1>3, <1>4
  <2>2. log \in Seq(Nat) /\ doubt \in Seq(Nat) /\ Steady(files)
    BY <1>3
  <2> HIDE DEF t, k
  <2>3. Resumed(g, r, acked)
    BY <1>4, <1>6, <1>8, <2>1, <2>2, OpenedIs
  <2> QED BY <2>3 DEF Resumed
<1>10. Ready(g, w, r)
  BY <1>5, <1>6, <1>9, OpenedReady
<1>11. Intact(g, w, "open", calls, r, <<>>, acked, 0)
  <2>1. Len(r) \in Nat /\ r \o <<>> = r /\ <<>> \in Seq(Nat) /\ Len(<<>>) = 0
    BY <1>5, NothingAfter
  <2>2. acked \in 0 .. Len(r) /\ 0 \in 0 .. Len(r) /\ Len(r) + 0 <= calls
    <3>1. calls \in Nat
      BY <1>3, WalConstants
    <3>2. Len(log) + Len(doubt) <= calls
      BY <1>3
    <3> QED BY <1>4, <1>5, <2>1, <3>1, <3>2
  <2>3. calls \in 0 .. MaxRecords
    BY <1>3
  <2> QED BY <1>5, <1>9, <1>10, <2>1, <2>2, <2>3 DEF Intact
<1>12. WalInv'
  <2>1. synced' = 0
    BY <1>2, <1>3
  <2> QED BY <1>2, <1>7, <1>11, <2>1, InvPrimed
<1> QED BY <1>2, <1>5, <1>7, <1>12 DEF OpenShows

(* The files in the middle of a call that appends nothing. *)
LEMMA MidCallGood ==
    ASSUME Survivable, WalInv, NEW f \in MidCall
    PROVE  Good(f, log \o doubt, Len(log) + 1, acked)
<1>1. /\ log \in Seq(Nat) /\ doubt \in Seq(Nat) /\ acked \in 0 .. Len(log) /\ status \in {"open", "down"}
      /\ Good(files, log \o doubt, Len(log) + 1, acked)
  BY DEF WalInv, Intact
<1>2. Len(log) \in Nat /\ Len(log) + 1 \in Nat /\ 1 <= Len(log) + 1 /\ acked \in Nat
  <2>1. Len(log) \in Nat
    BY <1>1
  <2> QED BY <1>1, <2>1
<1>3. CASE f = files
  BY <1>1, <1>3
<1>4. CASE status = "down" /\ f \in MidOpen
  <2>1. Kept(files) = {} /\ \E h \in {"ok", "cut"} : f = Put(NoFiles, 1, NewSegment(h, -1, FALSE))
    BY <1>4 DEF MidOpen
  <2>2. PICK h \in {"ok", "cut"} : f = Put(NoFiles, 1, NewSegment(h, -1, FALSE))
    BY <2>1
  <2>3. acked = 0
    BY <1>1, <1>2, <2>1, NoneKept
  <2>4. Blank(NewSegment(h, -1, FALSE))
    BY DEF Blank, NewSegment, Segment
  <2>5. Good(f, log \o doubt, Len(log) + 1, 0)
    BY <1>2, <2>2, <2>4, FirstSegment
  <2> QED BY <2>3, <2>5
<1>5. ASSUME Writable, \/ \E r \in Flush(files, wal, AllFaults) : f = r.files
                       \/ \E n \in 1 .. synced : \E r \in TruncateResults(files, wal, n, AllFaults) : f = r.files
      PROVE  Good(f, log \o doubt, Len(log) + 1, acked)
  <2>1. /\ Good(files, log, Len(log) + 1, acked) /\ Ready(files, wal, log) /\ doubt = <<>>
        /\ synced \in 0 .. Len(log)
    BY <1>5, WritableIs
  <2>2. SUFFICES Good(f, log, Len(log) + 1, acked)
    BY <1>1, <2>1, NothingAfter
  <2>3. ASSUME NEW r \in Flush(files, wal, AllFaults), f = r.files
        PROVE  Good(f, log, Len(log) + 1, acked)
    <3>1. \/ Done(r, log, Len(log) + 1, acked)
          \/ r = Failed(files, wal)
          \/ Halt(r, wal, log, Len(log) + 1, acked)
      BY <1>1, <1>2, <2>1, FlushGives
    <3>2. Failed(files, wal).files = files
      BY DEF Failed
    <3> QED BY <2>1, <2>3, <3>1, <3>2 DEF Done, Halt
  <2>4. ASSUME NEW n \in 1 .. synced, NEW r \in TruncateResults(files, wal, n, AllFaults), f = r.files
        PROVE  Good(f, log, Len(log) + 1, acked)
    <3>1. n \in Nat
      BY <2>1
    <3> QED BY <1>1, <1>2, <2>1, <2>4, <3>1, TruncateGives
  <2> QED BY <1>5, <2>3, <2>4
<1>6. wal.broken \in BOOLEAN \/ status = "down"
  BY DEF WalInv, Intact, Ready, Stopped
<1>7. \/ f = files
      \/ status = "down" /\ f \in MidOpen
      \/ /\ Writable
         /\ \/ \E r \in Flush(files, wal, AllFaults) : f = r.files
            \/ \E n \in 1 .. synced : \E r \in TruncateResults(files, wal, n, AllFaults) : f = r.files
  BY <1>1, <1>6 DEF MidCall, Writable
<1> QED BY <1>3, <1>4, <1>5, <1>7

(* How a crash looks from outside. *)
CrashShows ==
    /\ log' = log /\ acked' = acked /\ status' = "down"
    /\ \/ doubt' = doubt
       \/ doubt = <<>> /\ doubt' = <<calls + 1>> /\ calls + 1 \in 1 .. MaxRecords

LEMMA CrashStep ==
    ASSUME Survivable, WalInv, NEW kind \in Crashes, Crash(kind)
    PROVE  WalInv' /\ CrashShows
<1>1. /\ status' = "down" /\ wal' = Fields({}, 0, 1) /\ synced' = 0
      /\ setup' = setup /\ log' = log /\ acked' = acked
  BY DEF Crash
<1>2. /\ log \in Seq(Nat) /\ doubt \in Seq(Nat) /\ Len(doubt) <= 1 /\ Len(log) + Len(doubt) <= calls
      /\ acked \in 0 .. Len(log) /\ calls \in 0 .. MaxRecords
  BY DEF WalInv, Intact
<1>3. Len(log) \in Nat /\ Len(log) + 1 \in Nat /\ acked \in Nat
  <2>1. Len(log) \in Nat
    BY <1>2
  <2> QED BY <1>2, <2>1
<1>4. Crashes \subseteq {"process", "power"} /\ (Power => Crashes = {"power"}) /\ Settings
  BY Machine DEF WalInv
<1>5. ASSUME NEW f, NEW g, NEW c, NEW d, g \in AfterCrash(kind, f), Good(f, log \o d, Len(log) + 1, acked),
             files' = g, calls' = c, doubt' = d, c \in 0 .. MaxRecords, d \in Seq(Nat), Len(d) <= 1,
             Len(log) + Len(d) <= c
      PROVE  WalInv'
  <2>1. Good(g, log \o d, Len(log) + 1, acked) /\ Steady(g)
    BY <1>3, <1>4, <1>5, CrashKeeps
  <2>2. Intact(g, Fields({}, 0, 1), "down", c, log, d, acked, 0)
    BY <1>2, <1>5, <2>1, DownIntact
  <2> QED BY <1>1, <1>5, <2>2, InvPrimed
<1>6. CASE (\E f \in MidCall : files' \in AfterCrash(kind, f)) /\ UNCHANGED <<calls, doubt>>
  <2>1. PICK f \in MidCall : files' \in AfterCrash(kind, f)
    BY <1>6
  <2>2. Good(f, log \o doubt, Len(log) + 1, acked)
    BY MidCallGood
  <2>3. calls' = calls /\ doubt' = doubt
    BY <1>6
  <2>4. WalInv'
    BY <1>2, <1>5, <2>1, <2>2, <2>3
  <2> QED BY <1>1, <2>3, <2>4 DEF CrashShows
<1>7. CASE /\ Writable /\ calls < MaxRecords
           /\ \E size \in Sizes :
                 LET rec == [id |-> calls + 1, lsn |-> wal.nextLsn, size |-> size]
                 IN  \E f \in MidAppend(rec) : files' \in AfterCrash(kind, f)
           /\ calls' = calls + 1 /\ doubt' = <<calls + 1>>
  <2>1. PICK size \in Sizes :
           \E f \in MidAppend([id |-> calls + 1, lsn |-> wal.nextLsn, size |-> size]) :
              files' \in AfterCrash(kind, f)
    BY <1>7
  <2> DEFINE rec == [id |-> calls + 1, lsn |-> wal.nextLsn, size |-> size]
             t == Append(log, calls + 1)
  <2>2. PICK r \in AppendRecord(files, wal, rec, AllFaults) : files' \in AfterCrash(kind, r.files)
    BY <2>1 DEF MidAppend
  <2>3. Adds(rec, log, t) /\ calls + 1 \in 1 .. MaxRecords
    BY <1>7, RecordIs
  <2>4. Good(files, log, Len(log) + 1, acked) /\ Ready(files, wal, log) /\ doubt = <<>> /\ calls \in Nat
        /\ Len(log) <= calls
    BY <1>7, WritableIs
  <2>5. r \in AppendRecord(files, wal, rec, AllFaults)
    BY <2>2
  <2>6. Appended(r, wal, log, t, Len(log) + 1, acked, AllFaults)
    <3> HIDE DEF rec, t
    <3> QED BY <1>2, <1>3, <1>4, <2>3, <2>4, <2>5, AppendGives
  <2>7. Good(r.files, t, Len(log) + 1, acked)
    <3> HIDE DEF rec, t
    <3> QED BY <2>6 DEF Appended, Done, Left
  <2>8. t = log \o <<calls + 1>> /\ <<calls + 1>> \in Seq(Nat) /\ Len(<<calls + 1>>) = 1
    BY <1>2, <2>4
  <2>9. WalInv'
    <3> DEFINE g == files'
               c == calls + 1
               d == <<calls + 1>>
    <3>1. /\ files' = g /\ calls' = c /\ doubt' = d /\ g \in AfterCrash(kind, r.files)
          /\ Good(r.files, log \o d, Len(log) + 1, acked)
      BY <1>7, <2>2, <2>7, <2>8
    <3>2. c \in 0 .. MaxRecords /\ d \in Seq(Nat) /\ Len(d) <= 1 /\ Len(log) + Len(d) <= c
      BY <1>3, <2>3, <2>4, <2>8
    <3> HIDE DEF g, c, d
    <3> QED BY <1>5, <3>1, <3>2
  <2> QED BY <1>1, <1>7, <2>3, <2>4, <2>9 DEF CrashShows
<1> QED BY <1>6, <1>7 DEF Crash

LEMMA WalInit ==
    ASSUME Init
    PROVE  WalInv /\ Promise!Init
<1>1. /\ setup \in Setups /\ files = NoFiles /\ wal = Fields({}, 0, 1) /\ status = "down" /\ calls = 0
      /\ log = <<>> /\ doubt = <<>> /\ acked = 0 /\ synced = 0
  BY DEF Init
<1>2. DOMAIN files = {} /\ files \in [DOMAIN files -> Segment]
  BY <1>1 DEF NoFiles
<1>3. Good(files, log \o doubt, Len(log) + 1, acked) /\ Steady(files)
  BY <1>1, <1>2, EmptyGood
<1>4. /\ calls \in 0 .. MaxRecords /\ log \in Seq(Nat) /\ doubt \in Seq(Nat) /\ Len(doubt) = 0 /\ Len(log) = 0
  BY <1>1, WalConstants
<1>5. Intact(files, wal, status, calls, log, doubt, acked, synced)
  BY <1>1, <1>3, <1>4 DEF Intact
<1> QED BY <1>1, <1>5 DEF WalInv, Promise!Init

(* Every step keeps the invariant and is a step of DurableLog. *)
LEMMA WalNext ==
    ASSUME Survivable, WalInv, [Next]_walVars
    PROVE  WalInv' /\ [Promise!Next]_(Promise!dlVars)
<1>0. log \in Seq(Nat) /\ doubt \in Seq(Nat) /\ Len(log) \in Nat /\ acked \in 0 .. Len(log)
  BY DEF WalInv, Intact
<1>1. ASSUME NEW size \in Sizes, AppendCall(size) PROVE WalInv' /\ [Promise!Next]_(Promise!dlVars)
  <2>1. WalInv' /\ AppendShows
    BY <1>1, AppendStep
  <2>2. CASE log' = Append(log, calls + 1) /\ doubt' = <<>>
    <3>1. Promise!Accept(calls + 1)
      BY <2>1, <2>2 DEF AppendShows, Promise!Accept
    <3> QED BY <2>1, <3>1 DEF AppendShows, Promise!Next
  <2>3. CASE log' = log /\ doubt' = <<>>
    <3>1. Promise!Acknowledge
      BY <2>1, <2>3 DEF AppendShows, Promise!Acknowledge
    <3> QED BY <2>1, <3>1 DEF Promise!Next
  <2>4. CASE log' = log /\ doubt' = <<calls + 1>>
    <3>1. Promise!Doubt(calls + 1)
      BY <2>1, <2>4 DEF AppendShows, Promise!Doubt
    <3> QED BY <2>1, <3>1 DEF AppendShows, Promise!Next
  <2> QED BY <2>1, <2>2, <2>3, <2>4 DEF AppendShows
<1>2. ASSUME FlushTimer \/ Commit \/ Sync PROVE WalInv' /\ [Promise!Next]_(Promise!dlVars)
  <2>1. WalInv' /\ acked' \in acked .. Len(log)
    BY <1>2, FlushTimerStep, CommitStep, SyncStep
  <2>2. log' = log /\ doubt' = doubt /\ status' = status
    BY <1>2 DEF FlushTimer, Commit, Sync
  <2>3. Promise!Acknowledge
    BY <2>1, <2>2 DEF Promise!Acknowledge
  <2> QED BY <2>1, <2>3 DEF Promise!Next
<1>3. ASSUME NEW lsn \in 1 .. synced, Truncate(lsn) PROVE WalInv' /\ [Promise!Next]_(Promise!dlVars)
  <2>1. WalInv' /\ UNCHANGED <<log, doubt, acked, status>>
    BY <1>3, TruncateStep
  <2> QED BY <2>1 DEF Promise!dlVars
<1>4. ASSUME NEW kind \in Crashes, Crash(kind) PROVE WalInv' /\ [Promise!Next]_(Promise!dlVars)
  <2>1. WalInv' /\ CrashShows
    BY <1>4, CrashStep
  <2>2. acked' \in acked .. Len(log)
    BY <1>0, <2>1 DEF CrashShows
  <2>3. CASE doubt' = doubt
    <3>1. Promise!Down
      BY <2>1, <2>2, <2>3 DEF CrashShows, Promise!Down
    <3> QED BY <2>1, <3>1 DEF Promise!Next
  <2>4. CASE doubt = <<>> /\ doubt' = <<calls + 1>> /\ calls + 1 \in 1 .. MaxRecords
    <3>1. Promise!Doubt(calls + 1)
      BY <2>1, <2>2, <2>4 DEF CrashShows, Promise!Doubt
    <3> QED BY <2>1, <2>4, <3>1 DEF Promise!Next
  <2> QED BY <2>1, <2>3, <2>4 DEF CrashShows
<1>5. ASSUME Close PROVE WalInv' /\ [Promise!Next]_(Promise!dlVars)
  <2>1. WalInv' /\ acked' \in acked .. Len(log)
    BY <1>5, CloseStep
  <2>2. log' = log /\ doubt' = doubt /\ status' = "down"
    BY <1>5 DEF Close
  <2>3. Promise!Down
    BY <2>1, <2>2 DEF Promise!Down
  <2> QED BY <2>1, <2>3 DEF Promise!Next
<1>6. ASSUME Open PROVE WalInv' /\ [Promise!Next]_(Promise!dlVars)
  <2>1. WalInv' /\ OpenShows
    BY <1>6, OpenStep
  <2> DEFINE u == log'
             t == log \o doubt
  <2>2. /\ u \in Seq(Nat) /\ acked <= Len(u) /\ Len(u) <= Len(t) /\ \A i \in 1 .. Len(u) : u[i] = t[i]
        /\ t \in Seq(Nat)
    BY <1>0, <2>1 DEF OpenShows
  <2>3. log' = u /\ t = log \o doubt
    OBVIOUS
  <2> HIDE DEF u, t
  <2>4. Len(u) \in acked .. Len(t) /\ u = SubSeq(t, 1, Len(u)) /\ acked \in acked .. Len(u)
    <3>1. Len(u) \in Nat /\ Len(t) \in Nat /\ acked \in Nat
      BY <1>0, <2>2
    <3>2. u = SubSeq(t, 1, Len(u))
      BY <2>2, <3>1
    <3> QED BY <2>2, <3>1, <3>2
  <2>5. Promise!Open
    BY <2>1, <2>3, <2>4 DEF OpenShows, Promise!Open
  <2> QED BY <2>1, <2>5 DEF Promise!Next
<1>7. ASSUME UNCHANGED walVars PROVE WalInv' /\ [Promise!Next]_(Promise!dlVars)
  <2>1. /\ setup' = setup /\ files' = files /\ wal' = wal /\ status' = status /\ calls' = calls
        /\ log' = log /\ doubt' = doubt /\ acked' = acked /\ synced' = synced
    BY <1>7 DEF walVars
  <2>2. Intact(files, wal, status, calls, log, doubt, acked, synced)
    BY DEF WalInv
  <2>3. WalInv'
    BY <2>1, <2>2, InvPrimed
  <2> QED BY <2>1, <2>3 DEF Promise!dlVars
<1> QED BY <1>1, <1>2, <1>3, <1>4, <1>5, <1>6, <1>7 DEF Next

-----------------------------------------------------------------------------
(* The fields of the object in each of its states. *)
LEMMA FieldsTyped ==
    ASSUME WalInv
    PROVE  /\ wal.segments \subseteq DOMAIN files /\ wal.pending \in Seq(Record)
           /\ wal.nextLsn \in 1 .. MaxRecords + 1 /\ wal.unsynced \in BOOLEAN /\ wal.broken \in BOOLEAN
<1>1. /\ log \in Seq(Nat) /\ doubt \in Seq(Nat) /\ Len(log) + Len(doubt) <= calls
      /\ calls \in 0 .. MaxRecords /\ status \in {"open", "down"}
      /\ status = "open" => (Ready(files, wal, log) /\ doubt = <<>>) \/ Stopped(files, wal, log \o doubt)
      /\ status = "down" => wal = Fields({}, 0, 1)
  BY DEF WalInv, Intact
<1>2. /\ Len(log) \in Nat /\ Len(doubt) \in Nat /\ Len(log \o doubt) = Len(log) + Len(doubt)
      /\ Len(log) + Len(doubt) <= MaxRecords /\ MaxRecords \in Nat
  <2>1. /\ Len(log) \in Nat /\ Len(doubt) \in Nat /\ Len(log \o doubt) = Len(log) + Len(doubt)
    BY <1>1
  <2>2. calls \in Nat /\ calls <= MaxRecords /\ MaxRecords \in Nat
    BY <1>1, WalConstants
  <2> QED BY <1>1, <2>1, <2>2
<1>3. CASE Ready(files, wal, log)
  <2>1. wal.segments = DOMAIN files /\ wal.pending \in Seq(Record) /\ wal.nextLsn = Len(log) + 1
        /\ wal.unsynced \in BOOLEAN /\ wal.broken \in BOOLEAN
    BY <1>3 DEF Ready, GoesOn
  <2> QED BY <1>2, <2>1
<1>4. CASE Stopped(files, wal, log \o doubt)
  <2>1. /\ wal.segments \subseteq DOMAIN files /\ wal.pending \in Seq(Record)
        /\ wal.nextLsn \in 1 .. Len(log \o doubt) + 1 /\ wal.unsynced \in BOOLEAN /\ wal.broken \in BOOLEAN
    BY <1>4 DEF Stopped
  <2>2. wal.nextLsn \in 1 .. MaxRecords + 1
    BY <1>2, <2>1
  <2> QED BY <2>1, <2>2
<1>5. CASE wal = Fields({}, 0, 1)
  <2>1. wal.segments = {} /\ wal.pending = <<>> /\ wal.nextLsn = 1 /\ wal.unsynced = FALSE /\ wal.broken = FALSE
    BY <1>5 DEF Fields
  <2>2. <<>> \in Seq(Record) /\ 1 \in 1 .. MaxRecords + 1
    BY <1>2
  <2> QED BY <2>1, <2>2
<1> QED BY <1>1, <1>3, <1>4, <1>5

LEMMA WalTyped ==
    ASSUME WalInv
    PROVE  TypeOK
<1>1. /\ setup \in Setups /\ status \in {"open", "down"} /\ Len(doubt) <= 1 /\ acked \in 0 .. Len(log)
      /\ synced \in 0 .. Len(log) /\ log \in Seq(Nat) /\ doubt \in Seq(Nat)
      /\ Len(log) + Len(doubt) <= calls /\ calls \in 0 .. MaxRecords
      /\ Sound(files, log \o doubt, Len(log) + 1)
  BY DEF WalInv, Intact, Good
<1>2. Len(log) \in Nat /\ Len(doubt) \in Nat /\ Len(log) <= MaxRecords /\ MaxRecords \in Nat
  <2>1. Len(log) \in Nat /\ Len(doubt) \in Nat
    BY <1>1
  <2>2. calls \in Nat /\ calls <= MaxRecords /\ MaxRecords \in Nat
    BY <1>1, WalConstants
  <2> QED BY <1>1, <2>1, <2>2
<1>3. \A q \in Seq(Record) : Range(q) \subseteq Record
  BY DEF Range
<1>4. ASSUME NEW n \in DOMAIN files
      PROVE  /\ n \in 1 .. MaxRecords + 1
             /\ Range(files[n].recs) \subseteq Record
             /\ files[n].tail \in {"clean", "torn"}
             /\ files[n].header \in {"ok", "cut"}
             /\ files[n].hard \in -1 .. Len(files[n].recs)
             /\ files[n].linked \in BOOLEAN
  <2>1. n \in Nat \ {0} /\ n <= Len(log) + 1 /\ files[n] \in Segment /\ files[n].hard \in -1 .. Len(files[n].recs)
    BY <1>1 DEF Sound, FilesShape
  <2>2. n \in 1 .. MaxRecords + 1
    BY <1>2, <2>1
  <2>3. /\ files[n].recs \in Seq(Record) /\ files[n].tail \in {"clean", "torn"}
        /\ files[n].header \in {"ok", "cut"} /\ files[n].linked \in BOOLEAN
    BY <2>1 DEF Segment
  <2> QED BY <1>3, <2>1, <2>2, <2>3
<1>5. /\ wal.segments \subseteq DOMAIN files /\ Range(wal.pending) \subseteq Record
      /\ wal.nextLsn \in 1 .. MaxRecords + 1 /\ wal.unsynced \in BOOLEAN /\ wal.broken \in BOOLEAN
  BY <1>3, FieldsTyped
<1>6. acked <= Len(log) /\ synced <= Len(log)
  BY <1>1, <1>2
<1> QED BY <1>1, <1>4, <1>5, <1>6 DEF TypeOK

(* In each write concern with the crash that it promises to survive,       *)
(* whatever the order of appends, flushes, syncs, truncations, failures    *)
(* and crashes: the files on the disk are ones that WriteAheadLog.open     *)
(* accepts, and the object's list of segments names files that exist.      *)
THEOREM AlwaysRecoverableHolds ==
    ASSUME Survivable
    PROVE  Spec => []AlwaysRecoverable
<1>1. Init => WalInv
  BY WalInit
<1>2. WalInv /\ [Next]_walVars => WalInv'
  BY WalNext
<1>3. WalInv => AlwaysRecoverable
  BY WalTyped, WalRecovers DEF AlwaysRecoverable
<1> QED BY <1>1, <1>2, <1>3, PTL DEF Spec

(* What recovery would return is at every moment a prefix of the accepted  *)
(* records and the one in doubt, and it has every acknowledged record.     *)
THEOREM AcknowledgedRecoveredHolds ==
    ASSUME Survivable
    PROVE  Spec => []AcknowledgedRecovered
<1>1. Init => WalInv
  BY WalInit
<1>2. WalInv /\ [Next]_walVars => WalInv'
  BY WalNext
<1>3. WalInv => AcknowledgedRecovered
  <2> SUFFICES ASSUME WalInv PROVE AcknowledgedRecovered
    OBVIOUS
  <2> DEFINE r == RecoveredLog(files)
             t == log \o doubt
  <2>1. Recovers(files, t, acked, r)
    BY WalRecovers
  <2>2. t \in Seq(Nat)
    BY DEF WalInv, Intact
  <2>0. acked \in Nat
    <3>1. acked \in 0 .. Len(log) /\ Len(log) \in Nat
      BY DEF WalInv, Intact
    <3> QED BY <3>1
  <2> HIDE DEF r, t
  <2>3. r \in Seq(Nat) /\ acked <= Len(r) /\ Len(r) <= Len(t) /\ \A i \in 1 .. Len(r) : r[i] = t[i]
    BY <2>1 DEF Recovers
  <2>4. Len(r) \in acked .. Len(t) /\ r = SubSeq(t, 1, Len(r))
    <3>1. Len(r) \in Nat /\ Len(t) \in Nat /\ acked \in Nat
      BY <2>0, <2>2, <2>3
    <3>2. r = SubSeq(t, 1, Len(r))
      BY <2>2, <2>3, <3>1
    <3> QED BY <2>3, <3>1, <3>2
  <2>5. r \in {SubSeq(t, 1, n) : n \in acked .. Len(t)}
    BY <2>4
  <2> QED BY <2>5 DEF AcknowledgedRecovered, r, t
<1> QED BY <1>1, <1>2, <1>3, PTL DEF Spec

(* The write-ahead log implements DurableLog.  An append that returns is   *)
(* an Accept, one that breaks the log a Doubt; a crash or close is a Down, *)
(* and open recovers a prefix with every acknowledged record.              *)
THEOREM DurableLogImplemented ==
    ASSUME Survivable
    PROVE  Spec => ImplementsDurableLog
<1>1. Init => WalInv /\ Promise!Init
  BY WalInit
<1>2. WalInv /\ [Next]_walVars => WalInv' /\ [Promise!Next]_(Promise!dlVars)
  BY WalNext
<1> QED BY <1>1, <1>2, PTL DEF Spec, ImplementsDurableLog, Promise!Spec
=============================================================================
