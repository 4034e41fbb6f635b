------------------------- MODULE WriteAheadLogCalls -------------------------
(***************************************************************************)
(* Lemmas about the calls of WriteAheadLog: what each result of append,    *)
(* flush, commit, sync, truncate and close is, for any files and fields,   *)
(* however its system calls fail.                                          *)
(***************************************************************************)
EXTENDS WriteAheadLogFiles

Shape(w) ==
    w = [segments |-> w.segments, pending |-> w.pending, position |-> w.position,
         nextLsn |-> w.nextLsn, unsynced |-> w.unsynced, broken |-> w.broken]

(* The fields of a log that goes on after the log s in the files f. *)
Ready(f, w, s) ==
    /\ Steady(f) /\ Clean(f) /\ Shape(w)
    /\ w.segments = DOMAIN f /\ Latest(f, Active(w))
    /\ w.broken = FALSE /\ w.unsynced \in BOOLEAN /\ w.nextLsn = Len(s) + 1
    /\ GoesOn(f, Active(w), w.pending, s) /\ End(f, Active(w)) + Len(w.pending) = Len(s) + 1
    /\ Mode # "memory" => w.pending = <<>>
    /\ w.unsynced => GroupCommit

(* The fields of a log that a failure has broken. *)
Stopped(f, w, s) ==
    /\ Steady(f) /\ w.broken = TRUE /\ w.unsynced \in BOOLEAN
    /\ w.segments \subseteq DOMAIN f /\ w.nextLsn \in 1 .. Len(s) + 1
    /\ w.pending \in Seq(Record) /\ (Mode # "memory" => w.pending = <<>>)

(* The results of a call: it returned; it failed and broke the log, which  *)
(* w described before; it failed and left a file behind.                   *)
Done(r, s, k, a) == r.ok = TRUE /\ Good(r.files, s, k, a) /\ Ready(r.files, r.wal, s)

Halt(r, w, s, k, a) ==
    r.ok = FALSE /\ Good(r.files, s, k, a) /\ Stopped(r.files, r.wal, s) /\ r.wal.unsynced = w.unsynced

Left(r, s, k, a, faults) == r.ok = FALSE /\ "leftover" \in faults /\ Good(r.files, s, k, a)

Settings == (GroupCommit => Durable) /\ (Power => Durable)

LEMMA Updates ==
    ASSUME NEW w, Shape(w), NEW x
    PROVE  /\ Shape([w EXCEPT !.broken = x]) /\ [w EXCEPT !.broken = x].broken = x
           /\ [w EXCEPT !.broken = x].segments = w.segments /\ [w EXCEPT !.broken = x].pending = w.pending
           /\ [w EXCEPT !.broken = x].nextLsn = w.nextLsn /\ [w EXCEPT !.broken = x].unsynced = w.unsynced
           /\ Shape([w EXCEPT !.unsynced = x]) /\ [w EXCEPT !.unsynced = x].broken = w.broken
           /\ [w EXCEPT !.unsynced = x].segments = w.segments /\ [w EXCEPT !.unsynced = x].pending = w.pending
           /\ [w EXCEPT !.unsynced = x].nextLsn = w.nextLsn /\ [w EXCEPT !.unsynced = x].unsynced = x
           /\ Shape([w EXCEPT !.pending = x]) /\ [w EXCEPT !.pending = x].broken = w.broken
           /\ [w EXCEPT !.pending = x].segments = w.segments /\ [w EXCEPT !.pending = x].pending = x
           /\ [w EXCEPT !.pending = x].nextLsn = w.nextLsn /\ [w EXCEPT !.pending = x].unsynced = w.unsynced
  BY DEF Shape

Queue(w, rec) == [w EXCEPT !.pending = Append(w.pending, rec)]

LEMMA QueueIs ==
    ASSUME NEW w, Shape(w), NEW rec
    PROVE  LET v == Queue(w, rec)
           IN  /\ Shape(v) /\ v.pending = Append(w.pending, rec) /\ v.broken = w.broken
               /\ v.segments = w.segments /\ v.nextLsn = w.nextLsn /\ v.unsynced = w.unsynced
  BY SMTT(30) DEF Shape, Queue

LEMMA MarkSynced ==
    ASSUME NEW w, Shape(w), NEW v, v = [w EXCEPT !.unsynced = FALSE]
    PROVE  /\ Shape(v) /\ v.pending = w.pending /\ v.broken = w.broken /\ v.segments = w.segments
           /\ v.nextLsn = w.nextLsn /\ v.unsynced = FALSE
  BY DEF Shape

LEMMA MarkUnsynced ==
    ASSUME NEW w, Shape(w), NEW v, v = [w EXCEPT !.unsynced = TRUE]
    PROVE  /\ Shape(v) /\ v.pending = w.pending /\ v.broken = w.broken /\ v.segments = w.segments
           /\ v.nextLsn = w.nextLsn /\ v.unsynced = TRUE
  BY DEF Shape

LEMMA Advanced ==
    ASSUME NEW w, Shape(w), NEW rec
    PROVE  LET v == Advance(w, rec)
           IN  /\ Shape(v) /\ v.segments = w.segments /\ v.pending = w.pending
               /\ v.nextLsn = w.nextLsn + 1 /\ v.unsynced = w.unsynced /\ v.broken = w.broken
<1> DEFINE u == [w EXCEPT !.position = w.position + rec.size]
           v == [u EXCEPT !.nextLsn = w.nextLsn + 1]
<1>1. Advance(w, rec) = v
  BY DEF Advance, Shape
<1>2. /\ Shape(u) /\ u.segments = w.segments /\ u.pending = w.pending
      /\ u.nextLsn = w.nextLsn /\ u.unsynced = w.unsynced /\ u.broken = w.broken
  BY DEF Shape
<1> HIDE DEF u
<1>3. /\ Shape(v) /\ v.segments = u.segments /\ v.pending = u.pending
      /\ v.nextLsn = w.nextLsn + 1 /\ v.unsynced = u.unsynced /\ v.broken = u.broken
  BY <1>2 DEF Shape
<1> HIDE DEF v
<1> QED BY <1>1, <1>2, <1>3

LEMMA Switched ==
    ASSUME NEW w, Shape(w)
    PROVE  LET v == [w EXCEPT !.segments = @ \cup {w.nextLsn}, !.position = 0]
           IN  /\ Shape(v) /\ v.segments = w.segments \cup {w.nextLsn} /\ v.pending = w.pending
               /\ v.nextLsn = w.nextLsn /\ v.unsynced = w.unsynced /\ v.broken = w.broken
<1> DEFINE u == [w EXCEPT !.segments = w.segments \cup {w.nextLsn}]
           v == [u EXCEPT !.position = 0]
<1>1. [w EXCEPT !.segments = @ \cup {w.nextLsn}, !.position = 0] = v
  BY DEF Shape
<1>2. /\ Shape(u) /\ u.segments = w.segments \cup {w.nextLsn} /\ u.pending = w.pending
      /\ u.nextLsn = w.nextLsn /\ u.unsynced = w.unsynced /\ u.broken = w.broken
  BY DEF Shape
<1> HIDE DEF u
<1>3. /\ Shape(v) /\ v.segments = u.segments /\ v.pending = u.pending
      /\ v.nextLsn = u.nextLsn /\ v.unsynced = u.unsynced /\ v.broken = u.broken
  BY <1>2 DEF Shape
<1> HIDE DEF v
<1> QED BY <1>1, <1>2, <1>3

LEMMA GoesOnPrefix ==
    ASSUME NEW f, NEW l, NEW recs, NEW t, GoesOn(f, l, recs, t), NEW j \in 0 .. Len(recs),
           End(f, l) \in Nat, Len(t) \in Nat
    PROVE  GoesOn(f, l, SubSeq(recs, 1, j), t)
<1> DEFINE p == SubSeq(recs, 1, j)
<1>0. recs \in Seq(Record) /\ Len(recs) \in Nat /\ j \in Nat /\ j <= Len(recs)
  BY DEF GoesOn
<1>1. p \in Seq(Record) /\ Len(p) = j /\ \A i \in 1 .. j : p[i] = recs[i]
  BY <1>0
<1> HIDE DEF p
<1>2. End(f, l) + Len(p) <= Len(t) + 1
  BY <1>0, <1>1 DEF GoesOn
<1>3. \A i \in 1 .. Len(p) : i \in 1 .. Len(recs) /\ p[i] = recs[i]
  BY <1>0, <1>1
<1> QED BY <1>1, <1>2, <1>3 DEF GoesOn, p

(* Broken results. *)
LEMMA BrokenIs ==
    ASSUME NEW f, NEW g, NEW w, Shape(w), NEW s, NEW k, NEW a, Good(g, s, k, a), Steady(g),
           DOMAIN f \subseteq DOMAIN g, w.segments = DOMAIN f, w.unsynced \in BOOLEAN,
           w.pending \in Seq(Record), Mode # "memory" => w.pending = <<>>,
           Len(s) \in Nat, w.nextLsn \in 1 .. Len(s) + 1, NEW r, r = Broken(g, w)
    PROVE  Halt(r, w, s, k, a)
<1> DEFINE v == [w EXCEPT !.broken = TRUE]
<1>1. r.ok = FALSE /\ r.files = g /\ r.wal = v
  BY DEF Broken, Failed
<1>2. /\ v.broken = TRUE /\ v.segments = w.segments /\ v.pending = w.pending
      /\ v.nextLsn = w.nextLsn /\ v.unsynced = w.unsynced
  BY Updates
<1> HIDE DEF v
<1>3. Stopped(g, v, s)
  BY <1>2 DEF Stopped
<1> QED BY <1>1, <1>2, <1>3 DEF Halt

(* A write of recs at the end of the last segment. *)
Wrote(r, f, w, l, recs, t, k, a) ==
    \/ r = Ok(Write(f, l, recs), w)
    \/ r = Failed(f, w)
    \/ \E g : r = Broken(g, w) /\ Good(g, t, k, a) /\ Steady(g) /\ DOMAIN g = DOMAIN f

(* The last segment, l, has room for recs, the next records of t. *)
Room(f, l, recs, t, k, a) ==
    /\ t \in Seq(Nat) /\ a \in Nat /\ Good(f, t, k, a) /\ Steady(f)
    /\ Latest(f, l) /\ f[l].header = "ok" /\ GoesOn(f, l, recs, t)

Grown(g, f, l, recs, t, k, a) ==
    /\ Good(g, t, k, a) /\ Steady(g) /\ Latest(g, l) /\ DOMAIN g = DOMAIN f
    /\ g[l].header = "ok" /\ End(g, l) = End(f, l) + Len(recs)
    /\ \A n \in DOMAIN f \ {l} : g[n] = f[n]
    /\ g[l].tail = f[l].tail

LEMMA WriteGrows ==
    ASSUME NEW f, NEW l, NEW recs, NEW t, NEW k, NEW a, Room(f, l, recs, t, k, a),
           NEW g, g = Write(f, l, recs)
    PROVE  Grown(g, f, l, recs, t, k, a)
<1>1. Written(g, f, l, recs)
  BY DEF Written
<1>2. t \in Seq(Nat) /\ a \in Nat /\ Good(f, t, k, a) /\ Steady(f) /\ Latest(f, l) /\ f[l].header = "ok"
      /\ GoesOn(f, l, recs, t)
  BY DEF Room
<1>3. /\ Good(g, t, k, a) /\ Steady(g) /\ Latest(g, l) /\ DOMAIN g = DOMAIN f
      /\ g[l].header = "ok" /\ End(g, l) = End(f, l) + Len(recs)
      /\ \A n \in DOMAIN f \ {l} : g[n] = f[n]
      /\ g = Write(f, l, recs) => g[l].tail = f[l].tail
  BY <1>1, <1>2, WriteKeeps
<1> QED BY <1>3 DEF Grown

LEMMA WriteGives ==
    ASSUME NEW f, NEW w, NEW t, NEW k, NEW a, NEW l, l = Active(w), NEW recs, Room(f, l, recs, t, k, a),
           NEW faults, NEW r \in WriteFully(f, w, recs, faults)
    PROVE  Wrote(r, f, w, l, recs, t, k, a)
<1>0. t \in Seq(Nat) /\ a \in Nat /\ Good(f, t, k, a) /\ Steady(f) /\ Latest(f, l) /\ f[l].header = "ok"
      /\ GoesOn(f, l, recs, t)
  BY DEF Room
<1> SUFFICES \/ r = Ok(Write(f, l, recs), w)
             \/ r = Failed(f, w)
             \/ \E g : r = Broken(g, w) /\ Good(g, t, k, a) /\ Steady(g) /\ DOMAIN g = DOMAIN f
  BY DEF Wrote
<1>1. CASE r = Ok(Write(f, l, recs), w) \/ r = Failed(f, w)
  BY <1>1
<1>2. ASSUME NEW g \in Remnants(f, l, recs), r = Broken(g, w)
      PROVE  \E h : r = Broken(h, w) /\ Good(h, t, k, a) /\ Steady(h) /\ DOMAIN h = DOMAIN f
  <2>0. recs \in Seq(Record) /\ Len(recs) \in Nat /\ Len(t) \in Nat
    BY <1>0 DEF GoesOn
  <2>1. End(f, l) \in Nat
    BY <1>0 DEF Latest, Good, Sound, FilesShape, Segment, End
  <2>2. \/ \E j \in 0 .. Len(recs) - 1, y \in {"clean", "torn"} :
             g = [Write(f, l, SubSeq(recs, 1, j)) EXCEPT ![l].tail = y]
        \/ g = Write(f, l, recs)
    BY DEF Remnants
  <2>3. CASE g = Write(f, l, recs)
    <3>0. Written(g, f, l, recs)
      BY <2>3 DEF Written
    <3>1. Good(g, t, k, a) /\ Steady(g) /\ DOMAIN g = DOMAIN f
      BY <1>0, <3>0, WriteKeeps
    <3> QED BY <1>2, <3>1
  <2>4. ASSUME NEW j \in 0 .. Len(recs) - 1, NEW y \in {"clean", "torn"},
               g = [Write(f, l, SubSeq(recs, 1, j)) EXCEPT ![l].tail = y]
        PROVE  Good(g, t, k, a) /\ Steady(g) /\ DOMAIN g = DOMAIN f
    <3> DEFINE p == SubSeq(recs, 1, j)
    <3>1. j \in 0 .. Len(recs)
      BY <2>0
    <3>2. GoesOn(f, l, p, t)
      BY <1>0, <2>0, <2>1, <3>1, GoesOnPrefix
    <3>3. g = [Write(f, l, p) EXCEPT ![l].tail = y]
      BY <2>4
    <3> HIDE DEF p
    <3>4. DOMAIN g = DOMAIN f
      BY <3>3 DEF Write
    <3>5. Written(g, f, l, p)
      BY <3>3 DEF Written
    <3>6. Good(g, t, k, a) /\ Steady(g)
      BY <1>0, <3>2, <3>5, WriteKeeps
    <3> QED BY <3>4, <3>6
  <2> QED BY <1>2, <2>2, <2>3, <2>4
<1>3. \/ r = Ok(Write(f, l, recs), w)
      \/ r = Failed(f, w)
      \/ \E g \in Remnants(f, l, recs) : r = Broken(g, w)
  BY DEF WriteFully
<1> QED BY <1>1, <1>2, <1>3

(* Counting records. *)
LEMMA NoneMore ==
    ASSUME NEW n \in Nat, NEW p, p = <<>>
    PROVE  n + Len(p) = n /\ n - Len(p) = n
  OBVIOUS

LEMMA OneMore ==
    ASSUME NEW n \in Nat, NEW m, m = n + 1
    PROVE  m \in Nat /\ n + 1 \in 1 .. m + 1
  OBVIOUS

LEMMA OneFits ==
    ASSUME NEW n \in Nat, NEW m, m = n + 1, NEW e, e = n + 1, NEW c, c = 1
    PROVE  e + c <= m + 1 /\ e + 1 - 1 = n + 1
  OBVIOUS

(* Where the i-th of n queued records is in a log of m records, which it   *)
(* may make longer, if the queue begins at e.                              *)
Place(e, n, m, i) ==
    /\ i <= n \/ i = n + 1
    /\ i <= n => i \in 1 .. n /\ e + i - 1 \in 1 .. m
    /\ i = n + 1 => e + i - 1 = m + 1

LEMMA InQueue ==
    ASSUME NEW e \in Nat \ {0}, NEW n \in Nat, NEW m \in Nat, e + n = m + 1,
           NEW i \in Nat, 1 <= i, i <= n + 1
    PROVE  Place(e, n, m, i)
  BY DEF Place

(* What is known of a log that is ready. *)
LEMMA ReadyLog ==
    ASSUME NEW f, NEW w, NEW s \in Seq(Nat), NEW k, NEW a \in Nat, Good(f, s, k, a), Ready(f, w, s)
    PROVE  LET l == Active(w)
           IN  /\ Latest(f, l) /\ l \in DOMAIN f /\ l \in Nat \ {0} /\ f[l].header = "ok" /\ f[l].tail = "clean"
               /\ f[l].recs \in Seq(Record) /\ Len(f[l].recs) \in Nat /\ End(f, l) \in Nat \ {0}
               /\ w.pending \in Seq(Record) /\ Len(w.pending) \in Nat /\ Len(s) \in Nat
               /\ w.nextLsn \in 1 .. Len(s) + 1
               /\ a < End(f, l) /\ a <= Len(s) - Len(w.pending)
               /\ Steady(f) /\ Clean(f) /\ Shape(w)
<1> DEFINE l == Active(w)
<1>1. Latest(f, l) /\ Steady(f) /\ Clean(f) /\ Shape(w) /\ w.pending \in Seq(Record)
      /\ w.nextLsn = Len(s) + 1 /\ End(f, l) + Len(w.pending) = Len(s) + 1
  BY DEF Ready, GoesOn
<1> HIDE DEF l
<1>2. l \in DOMAIN f /\ f[l].header = "ok" /\ f[l].tail = "clean"
  BY <1>1 DEF Latest, Clean
<1>3. l \in Nat \ {0} /\ f[l].recs \in Seq(Record)
  BY <1>2 DEF Good, Sound, FilesShape, Segment
<1>4. Len(f[l].recs) \in Nat /\ Len(w.pending) \in Nat /\ Len(s) \in Nat
  BY <1>1, <1>3
<1>5. End(f, l) \in Nat \ {0}
  BY <1>3, <1>4 DEF End
<1>6. a < End(f, l)
  BY <1>1, <1>2, ReachesLast
<1>7. a <= Len(s) - Len(w.pending) /\ w.nextLsn \in 1 .. Len(s) + 1
  BY <1>1, <1>4, <1>5, <1>6
<1> QED BY <1>1, <1>2, <1>3, <1>4, <1>5, <1>6, <1>7 DEF l

(* A broken result of a log that was ready. *)
LEMMA HaltIs ==
    ASSUME NEW f, NEW w, NEW s \in Seq(Nat), NEW k, NEW a \in Nat, Good(f, s, k, a), Ready(f, w, s),
           NEW g, Good(g, s, k, a), Steady(g), DOMAIN g = DOMAIN f, NEW r, r = Broken(g, w)
    PROVE  Halt(r, w, s, k, a)
<1>1. /\ Shape(w) /\ w.pending \in Seq(Record) /\ Len(s) \in Nat /\ w.nextLsn \in 1 .. Len(s) + 1
  BY ReadyLog
<1>2. w.segments = DOMAIN f /\ w.unsynced \in BOOLEAN /\ (Mode # "memory" => w.pending = <<>>)
  BY DEF Ready
<1> QED BY <1>1, <1>2, BrokenIs

(* flush() *)
LEMMA FlushGives ==
    ASSUME NEW f, NEW w, NEW s \in Seq(Nat), NEW k, NEW a \in Nat, Good(f, s, k, a), Ready(f, w, s),
           NEW faults, NEW r \in Flush(f, w, faults)
    PROVE  \/ Done(r, s, k, a) /\ r.wal.pending = <<>> /\ r.wal.unsynced = w.unsynced
           \/ r = Failed(f, w)
           \/ Halt(r, w, s, k, a)
<1> DEFINE l == Active(w)
           g == Write(f, l, w.pending)
           v == [w EXCEPT !.pending = <<>>]
<1>0. /\ Latest(f, l) /\ f[l].header = "ok" /\ Steady(f) /\ Clean(f) /\ Shape(w)
      /\ End(f, l) \in Nat /\ Len(w.pending) \in Nat /\ w.pending \in Seq(Record)
  BY ReadyLog
<1>1. GoesOn(f, l, w.pending, s)
  BY DEF Ready
<1>2. CASE w.pending = <<>>
  <2>1. r = Ok(f, w)
    BY <1>2 DEF Flush
  <2>2. r.ok = TRUE /\ r.files = f /\ r.wal = w
    BY <2>1 DEF Ok
  <2> QED BY <1>2, <2>2 DEF Done
<1>3. CASE w.pending # <<>>
  <2>1. PICK q \in WriteFully(f, w, w.pending, faults) :
           IF q.ok THEN r = Ok(q.files, [q.wal EXCEPT !.pending = <<>>]) ELSE r = q
    BY <1>3 DEF Flush, Then
  <2>2. \/ q = Ok(g, w)
        \/ q = Failed(f, w)
        \/ \E h : q = Broken(h, w) /\ Good(h, s, k, a) /\ Steady(h) /\ DOMAIN h = DOMAIN f
    <3>1. l = Active(w)
      OBVIOUS
    <3> HIDE DEF l
    <3>2. Room(f, l, w.pending, s, k, a)
      BY <1>0, <1>1 DEF Room
    <3>3. Wrote(q, f, w, l, w.pending, s, k, a)
      BY <3>1, <3>2, WriteGives
    <3> QED BY <3>3 DEF Wrote
  <2>3. CASE q = Failed(f, w)
    BY <2>1, <2>3 DEF Failed
  <2>4. ASSUME NEW h, q = Broken(h, w), Good(h, s, k, a), Steady(h), DOMAIN h = DOMAIN f
        PROVE  Halt(r, w, s, k, a)
    <3>1. r = Broken(h, w)
      BY <2>1, <2>4 DEF Broken, Failed
    <3> QED BY <2>4, <3>1, HaltIs
  <2>5. CASE q = Ok(g, w)
    <3>1. r = Ok(g, v)
      <4> HIDE DEF g
      <4> QED BY <2>1, <2>5 DEF Ok
    <3>2. /\ Good(g, s, k, a) /\ Steady(g) /\ Latest(g, l) /\ DOMAIN g = DOMAIN f
          /\ g[l].header = "ok" /\ End(g, l) = End(f, l) + Len(w.pending)
          /\ \A n \in DOMAIN f \ {l} : g[n] = f[n]
          /\ g[l].tail = f[l].tail
      <4> HIDE DEF l
      <4>1. g = Write(f, l, w.pending)
        OBVIOUS
      <4> HIDE DEF g
      <4>2. Room(f, l, w.pending, s, k, a)
        BY <1>0, <1>1 DEF Room
      <4>3. Grown(g, f, l, w.pending, s, k, a)
        BY <4>1, <4>2, WriteGrows
      <4> QED BY <4>3 DEF Grown
    <3> HIDE DEF g
    <3>3. Clean(g)
      BY <1>0, <3>2 DEF Clean, Latest
    <3>4. /\ Shape(v) /\ v.pending = <<>> /\ v.broken = w.broken /\ v.segments = w.segments
          /\ v.nextLsn = w.nextLsn /\ v.unsynced = w.unsynced
      BY <1>0 DEF Shape
    <3> HIDE DEF v
    <3>5. Active(v) = l
      BY <3>4 DEF Active
    <3>6. End(g, l) = Len(s) + 1 /\ Len(s) \in Nat
      BY <3>2 DEF Ready
    <3>7. GoesOn(g, l, <<>>, s) /\ End(g, l) + Len(<<>>) = Len(s) + 1
      BY <3>6 DEF GoesOn
    <3> HIDE DEF l
    <3>8. Ready(g, v, s)
      BY <3>2, <3>3, <3>4, <3>5, <3>7 DEF Ready
    <3>9. r.ok = TRUE /\ r.files = g /\ r.wal = v
      BY <3>1 DEF Ok
    <3> QED BY <3>2, <3>4, <3>8, <3>9 DEF Done
  <2> QED BY <2>2, <2>3, <2>4, <2>5
<1> QED BY <1>2, <1>3

(* Without power loss every record in the files is safe. *)
LEMMA AllSafe ==
    ASSUME NEW f, NEW w, NEW s \in Seq(Nat), NEW k, NEW a \in Nat, Good(f, s, k, a), Ready(f, w, s),
           ~ Power
    PROVE  Good(f, s, k, Len(s) - Len(w.pending))
<1> DEFINE l == Active(w)
<1>1. /\ l \in DOMAIN f /\ f[l].header = "ok" /\ End(f, l) \in Nat
      /\ Len(w.pending) \in Nat /\ Len(s) \in Nat
  BY ReadyLog
<1>2. End(f, l) + Len(w.pending) = Len(s) + 1
  BY DEF Ready
<1> HIDE DEF l
<1>3. Len(s) - Len(w.pending) < End(f, l)
  BY <1>1, <1>2
<1> QED BY <1>1, <1>3 DEF Good, Safe, Reach

(* An fsync of the active segment. *)
LEMMA FsyncGives ==
    ASSUME NEW f, NEW w, NEW s \in Seq(Nat), NEW k, NEW a \in Nat, Good(f, s, k, a), Ready(f, w, s),
           NEW faults, NEW r \in FsyncActive(f, w, faults)
    PROVE  \/ /\ Done(r, s, k, Len(s) - Len(w.pending))
              /\ r.wal.pending = w.pending /\ r.wal.unsynced = FALSE
           \/ Halt(r, w, s, k, a)
<1> DEFINE l == Active(w)
           g == Fsync(f, l)
           v == [w EXCEPT !.unsynced = FALSE]
           b == Len(s) - Len(w.pending)
<1>0. /\ Latest(f, l) /\ f[l].header = "ok" /\ Steady(f) /\ Clean(f) /\ Shape(w)
      /\ End(f, l) \in Nat \ {0} /\ Len(w.pending) \in Nat /\ w.pending \in Seq(Record) /\ Len(s) \in Nat
  BY ReadyLog
<1>1. r = Ok(g, v) \/ r = Broken(f, w)
  BY DEF FsyncActive
<1>2. CASE r = Broken(f, w)
  BY <1>0, <1>2, HaltIs
<1>3. CASE r = Ok(g, v)
  <2>1. GoesOn(f, l, w.pending, s) /\ End(f, l) + Len(w.pending) = Len(s) + 1
    BY DEF Ready
  <2>2. b \in Nat /\ b < End(f, l)
    <3> HIDE DEF l
    <3> QED BY <1>0, <2>1
  <2>3. /\ Good(g, s, k, b) /\ Steady(g) /\ Latest(g, l) /\ DOMAIN g = DOMAIN f
        /\ g[l].header = "ok" /\ g[l].tail = f[l].tail /\ End(g, l) = End(f, l)
        /\ \A n \in DOMAIN f \ {l} : g[n] = f[n]
    <3>1. g = Fsync(f, l)
      OBVIOUS
    <3> HIDE DEF l, b, g
    <3>2. Good(g, s, k, b) /\ Steady(g) /\ Latest(g, l) /\ Flushed(g, f, l)
      BY <1>0, <2>2, <3>1, FsyncKeeps
    <3> QED BY <3>2 DEF Flushed
  <2> HIDE DEF g
  <2>4. Clean(g)
    BY <1>0, <2>3 DEF Clean, Latest
  <2>5. /\ Shape(v) /\ v.pending = w.pending /\ v.broken = w.broken /\ v.segments = w.segments
        /\ v.nextLsn = w.nextLsn /\ v.unsynced = FALSE
    <3>1. v = [w EXCEPT !.unsynced = FALSE]
      OBVIOUS
    <3> HIDE DEF v
    <3> QED BY <1>0, <3>1, MarkSynced
  <2>6. r.ok = TRUE /\ r.files = g /\ r.wal = v
    BY <1>3 DEF Ok
  <2> HIDE DEF v
  <2>7. Active(v) = l
    BY <2>5 DEF Active
  <2>8. GoesOn(g, l, v.pending, s)
    BY <2>1, <2>3, <2>5 DEF GoesOn
  <2> HIDE DEF l
  <2>9. Ready(g, v, s)
    BY <2>1, <2>3, <2>4, <2>5, <2>7, <2>8 DEF Ready
  <2> QED BY <2>3, <2>5, <2>6, <2>9 DEF Done
<1> QED BY <1>1, <1>2, <1>3

(* The first half of rotate(): everything is in the files, and on stable   *)
(* storage in flushed mode.                                                *)
Settle(f, w, faults) ==
    Then(Flush(f, w, faults),
         LAMBDA g, v : IF Durable THEN FsyncActive(g, v, faults) ELSE {Ok(g, v)})

LEMMA SettleGives ==
    ASSUME NEW f, NEW w, NEW s \in Seq(Nat), NEW k, NEW a \in Nat, Good(f, s, k, a), Ready(f, w, s),
           Settings, NEW faults, NEW r \in Settle(f, w, faults)
    PROVE  \/ Done(r, s, k, Len(s)) /\ r.wal.pending = <<>> /\ r.wal.unsynced = FALSE
           \/ r = Failed(f, w)
           \/ Halt(r, w, s, k, a)
<1>1. PICK q \in Flush(f, w, faults) :
         IF q.ok THEN r \in (IF Durable THEN FsyncActive(q.files, q.wal, faults) ELSE {Ok(q.files, q.wal)})
         ELSE r = q
  BY DEF Settle, Then
<1>2. \/ Done(q, s, k, a) /\ q.wal.pending = <<>> /\ q.wal.unsynced = w.unsynced
      \/ q = Failed(f, w)
      \/ Halt(q, w, s, k, a)
  BY FlushGives
<1>3. CASE q = Failed(f, w)
  BY <1>1, <1>3 DEF Failed
<1>4. CASE Halt(q, w, s, k, a)
  BY <1>1, <1>4 DEF Halt
<1>5. CASE Done(q, s, k, a) /\ q.wal.pending = <<>> /\ q.wal.unsynced = w.unsynced
  <2>0. Len(s) - Len(q.wal.pending) = Len(s) /\ Len(s) \in Nat
    BY <1>5
  <2>1. q.ok = TRUE /\ Good(q.files, s, k, a) /\ Ready(q.files, q.wal, s)
    BY <1>5 DEF Done
  <2>2. CASE Durable
    <3>1. r \in FsyncActive(q.files, q.wal, faults)
      BY <1>1, <2>1, <2>2
    <3>2. \/ /\ Done(r, s, k, Len(s) - Len(q.wal.pending))
             /\ r.wal.pending = q.wal.pending /\ r.wal.unsynced = FALSE
          \/ Halt(r, q.wal, s, k, a)
      BY <2>1, <3>1, FsyncGives
    <3>3. Halt(r, q.wal, s, k, a) => Halt(r, w, s, k, a)
      BY <1>5 DEF Halt
    <3> QED BY <1>5, <2>0, <3>2, <3>3
  <2>3. CASE ~ Durable
    <3>1. r = Ok(q.files, q.wal)
      BY <1>1, <2>1, <2>3
    <3>2. r.ok = TRUE /\ r.files = q.files /\ r.wal = q.wal
      BY <3>1 DEF Ok
    <3>3. ~ Power /\ ~ GroupCommit
      BY <2>3 DEF Settings
    <3>4. Good(q.files, s, k, Len(s))
      BY <2>0, <2>1, <3>3, AllSafe
    <3>5. q.wal.unsynced = FALSE
      BY <2>1, <3>3 DEF Ready
    <3> QED BY <1>5, <2>1, <3>2, <3>4, <3>5 DEF Done
  <2> QED BY <2>2, <2>3
<1> QED BY <1>2, <1>3, <1>4, <1>5

(* The second half: the next segment is created and becomes the active     *)
(* one.                                                                    *)
NextSegment(f, w, faults) ==
    Then(CreateSegment(f, w, w.nextLsn, faults), LAMBDA h, u : SwitchSegment(h, u, faults))

LEMMA SwitchGives ==
    ASSUME NEW f, NEW w, NEW s \in Seq(Nat), NEW k, NEW a \in Nat, Ready(f, w, s), w.pending = <<>>,
           NEW n, n = w.nextLsn,
           NEW h, Good(h, s, k, a), Steady(h), Clean(h), Latest(h, n),
           Extended(h, f, n),
           NEW faults, NEW r \in SwitchSegment(h, w, faults)
    PROVE  \/ Done(r, s, k, a) /\ r.wal.pending = <<>> /\ r.wal.unsynced = w.unsynced
           \/ Halt(r, w, s, k, a)
<1> DEFINE v == [w EXCEPT !.segments = @ \cup {w.nextLsn}, !.position = 0]
<1>1. Shape(w) /\ w.segments = DOMAIN f /\ w.broken = FALSE /\ w.unsynced \in BOOLEAN
      /\ n = Len(s) + 1 /\ (w.unsynced => GroupCommit)
  BY DEF Ready
<1>2. /\ Shape(v) /\ v.segments = w.segments \cup {w.nextLsn} /\ v.pending = w.pending
      /\ v.nextLsn = w.nextLsn /\ v.unsynced = w.unsynced /\ v.broken = w.broken
  BY <1>1, Switched
<1>3. r = Ok(h, v) \/ r = Broken(h, v)
  BY DEF SwitchSegment
<1> HIDE DEF v
<1>4. DOMAIN h \in SUBSET Nat /\ n \in DOMAIN h /\ \A m \in DOMAIN h : m <= n
  BY DEF Good, Sound, FilesShape, Latest
<1>5. v.segments = DOMAIN h
  BY <1>1, <1>2 DEF Extended
<1>6. Active(v) = n
  <2>1. Max(DOMAIN h) = n
    BY <1>4, MaxIs
  <2> QED BY <1>5, <2>1 DEF Active
<1>7. End(h, n) = n /\ n = Len(s) + 1 /\ Len(s) \in Nat
  BY <1>1 DEF End, Extended
<1>8. GoesOn(h, n, <<>>, s) /\ End(h, n) + Len(<<>>) = Len(s) + 1
  BY <1>7 DEF GoesOn
<1>9. Ready(h, v, s)
  BY <1>1, <1>2, <1>5, <1>6, <1>8 DEF Ready
<1>10. CASE r = Ok(h, v)
  <2>1. r.ok = TRUE /\ r.files = h /\ r.wal = v
    BY <1>10 DEF Ok
  <2> QED BY <1>2, <1>9, <2>1 DEF Done
<1>11. CASE r = Broken(h, v)
  <2>1. Halt(r, v, s, k, a)
    BY <1>9, <1>11, HaltIs
  <2> QED BY <1>2, <2>1 DEF Halt
<1> QED BY <1>3, <1>10, <1>11

LEMMA NextGives ==
    ASSUME NEW f, NEW w, NEW s \in Seq(Nat), NEW k, k = Len(s) + 1, Good(f, s, k, Len(s)), Ready(f, w, s),
           w.pending = <<>>, Settings, NEW faults, NEW r \in NextSegment(f, w, faults)
    PROVE  \/ Done(r, s, k, Len(s)) /\ r.wal.pending = <<>> /\ r.wal.unsynced = w.unsynced
           \/ r = Failed(f, w)
           \/ Halt(r, w, s, k, Len(s))
           \/ Left(r, s, k, Len(s), faults)
<1> DEFINE l == Active(w)
           n == w.nextLsn
           a == Len(s)
<1>0. a \in Nat
  OBVIOUS
<1>1. /\ Latest(f, l) /\ l \in DOMAIN f /\ l \in Nat /\ f[l].header = "ok" /\ Steady(f) /\ Clean(f) /\ Shape(w)
      /\ End(f, l) \in Nat \ {0}
  BY <1>0, ReadyLog
<1>2. n = Len(s) + 1 /\ End(f, l) + Len(w.pending) = Len(s) + 1
  BY DEF Ready
<1> HIDE DEF l
<1>3. End(f, l) = n /\ n = a + 1
  BY <1>0, <1>1, <1>2
<1>4. PICK q \in CreateSegment(f, w, n, faults) :
         IF q.ok THEN r \in SwitchSegment(q.files, q.wal, faults) ELSE r = q
  BY DEF NextSegment, Then
<1> HIDE DEF n, a
<1>5. CASE n \in DOMAIN f
  <2>1. q = Failed(f, w)
    BY <1>5 DEF CreateSegment
  <2> QED BY <1>4, <2>1 DEF Failed
<1>6. CASE n \notin DOMAIN f
  <2>1. Full(f, s, k, a, l, n)
    <3>1. Power => f[l].hard = Len(f[l].recs)
      <4>1. a < End(f, l) /\ (Power => a < l + f[l].hard)
        BY <1>0, <1>1, ReachesLast DEF a
      <4>2. f[l].hard \in Int /\ Len(f[l].recs) \in Nat /\ f[l].hard <= Len(f[l].recs)
        BY <1>1 DEF Good, Sound, FilesShape, Segment
      <4>3. l + Len(f[l].recs) = a + 1
        BY <1>3 DEF End
      <4> QED BY <1>0, <1>1, <4>1, <4>2, <4>3
    <3>2. n <= k
      BY <1>0, <1>3 DEF a
    <3> QED BY <1>1, <1>3, <1>6, <3>1, <3>2 DEF Full, a
  <2>2. \/ q = Ok(WithSegment(f, n), w)
        \/ q = Failed(f, w)
        \/ "leftover" \in faults /\ \E h \in {"ok", "cut"} : q = Failed(Put(f, n, NewSegment(h, -1, FALSE)), w)
    BY <1>6 DEF CreateSegment
  <2>3. CASE q = Failed(f, w)
    BY <1>4, <2>3 DEF Failed
  <2>4. CASE q = Ok(WithSegment(f, n), w)
    <3> DEFINE h == WithSegment(f, n)
    <3>1. q.ok /\ q.files = h /\ q.wal = w
      <4> HIDE DEF h
      <4>1. q = Ok(h, w)
        BY <2>4 DEF h
      <4> QED BY <4>1 DEF Ok
    <3>2. a < n
      BY <1>0, <1>3
    <3>3. Power => Durable
      BY DEF Settings
    <3>0. h = WithSegment(f, n)
      OBVIOUS
    <3> HIDE DEF h
    <3>4. /\ Good(h, s, k, a) /\ Steady(h) /\ Clean(h) /\ Latest(h, n) /\ Extended(h, f, n)
      BY <1>0, <2>1, <3>0, <3>2, <3>3, CreateKeeps
    <3>5. r \in SwitchSegment(h, w, faults)
      BY <1>4, <3>1
    <3>6. \/ Done(r, s, k, a) /\ r.wal.pending = <<>> /\ r.wal.unsynced = w.unsynced
          \/ Halt(r, w, s, k, a)
      BY <1>0, <3>4, <3>5, SwitchGives DEF n
    <3> QED BY <3>6 DEF a
  <2>5. ASSUME "leftover" \in faults, NEW h \in {"ok", "cut"},
               q = Failed(Put(f, n, NewSegment(h, -1, FALSE)), w)
        PROVE  Left(r, s, k, a, faults)
    <3> DEFINE seg == NewSegment(h, -1, FALSE)
               g == Put(f, n, seg)
    <3>1. Blank(seg)
      BY DEF Blank, NewSegment, Segment
    <3>2. q.ok = FALSE /\ q.files = g
      <4> HIDE DEF g
      <4>1. q = Failed(g, w)
        BY <2>5 DEF g
      <4> QED BY <4>1 DEF Failed
    <3>3. g = Put(f, n, seg)
      OBVIOUS
    <3> HIDE DEF seg, g
    <3>4. Good(g, s, k, a)
      BY <1>0, <2>1, <3>1, <3>3, AddKeeps
    <3>5. r = q
      BY <1>4, <3>2
    <3> QED BY <2>5, <3>2, <3>4, <3>5 DEF Left
  <2> QED BY <2>2, <2>3, <2>4, <2>5 DEF a
<1> QED BY <1>5, <1>6

(* rotate() *)
LEMMA RotateGives ==
    ASSUME NEW f, NEW w, NEW s \in Seq(Nat), NEW k, k = Len(s) + 1, NEW a \in Nat, Good(f, s, k, a),
           Ready(f, w, s), Settings, NEW faults, NEW r \in Rotate(f, w, faults)
    PROVE  \/ Done(r, s, k, Len(s)) /\ r.wal.pending = <<>> /\ r.wal.unsynced = FALSE
           \/ r = Failed(f, w)
           \/ Halt(r, w, s, k, a)
           \/ /\ r.ok = FALSE /\ Good(r.files, s, k, Len(s)) /\ r.wal.unsynced = FALSE
              /\ Ready(r.files, r.wal, s) \/ Stopped(r.files, r.wal, s)
           \/ Left(r, s, k, Len(s), faults)
<1>1. PICK q \in Settle(f, w, faults) :
         IF q.ok THEN r \in NextSegment(q.files, q.wal, faults) ELSE r = q
  BY DEF Rotate, Settle, NextSegment, Then
<1>2. \/ Done(q, s, k, Len(s)) /\ q.wal.pending = <<>> /\ q.wal.unsynced = FALSE
      \/ q = Failed(f, w)
      \/ Halt(q, w, s, k, a)
  BY SettleGives
<1>3. CASE q = Failed(f, w)
  BY <1>1, <1>3 DEF Failed
<1>4. CASE Halt(q, w, s, k, a)
  BY <1>1, <1>4 DEF Halt
<1>5. CASE Done(q, s, k, Len(s)) /\ q.wal.pending = <<>> /\ q.wal.unsynced = FALSE
  <2> DEFINE g == q.files
             v == q.wal
  <2>1. q.ok = TRUE /\ Good(g, s, k, Len(s)) /\ Ready(g, v, s) /\ v.pending = <<>> /\ v.unsynced = FALSE
    BY <1>5 DEF Done
  <2>2. r \in NextSegment(g, v, faults)
    BY <1>1, <2>1
  <2> HIDE DEF g, v
  <2>3. \/ Done(r, s, k, Len(s)) /\ r.wal.pending = <<>> /\ r.wal.unsynced = v.unsynced
        \/ r = Failed(g, v)
        \/ Halt(r, v, s, k, Len(s))
        \/ Left(r, s, k, Len(s), faults)
    BY <2>1, <2>2, NextGives
  <2>4. CASE r = Failed(g, v)
    <3>1. r.ok = FALSE /\ r.files = g /\ r.wal = v
      BY <2>4 DEF Failed
    <3> QED BY <2>1, <3>1
  <2>5. CASE Halt(r, v, s, k, Len(s))
    BY <2>1, <2>5 DEF Halt
  <2> QED BY <2>1, <2>3, <2>4, <2>5
<1> QED BY <1>2, <1>3, <1>4, <1>5

(* The log t is the log s with the record rec, which comes next. *)
Adds(rec, s, t) ==
    rec \in Record /\ t \in Seq(Nat) /\ t = Append(s, rec.id) /\ rec.lsn = Len(s) + 1

LEMMA AddsIs ==
    ASSUME NEW s \in Seq(Nat), NEW rec, NEW t, Adds(rec, s, t)
    PROVE  /\ Len(s) \in Nat /\ Len(t) = Len(s) + 1 /\ t[Len(s) + 1] = rec.id
           /\ \A i \in 1 .. Len(s) : t[i] = s[i]
<1>1. rec.id \in Nat
  BY DEF Adds, Record
<1> QED BY <1>1 DEF Adds

LEMMA AddsGood ==
    ASSUME NEW s \in Seq(Nat), NEW rec, NEW t, Adds(rec, s, t), NEW f, NEW k, NEW a, Good(f, s, k, a)
    PROVE  Good(f, t, k, a)
<1>1. Len(s) <= Len(t) /\ \A i \in 1 .. Len(s) : t[i] = s[i]
  BY AddsIs
<1>2. t \in Seq(Nat)
  BY DEF Adds
<1> QED BY <1>1, <1>2, LongerLog

(* append in memory mode: the record is queued. *)
LEMMA QueuedReady ==
    ASSUME NEW f, NEW w, NEW s \in Seq(Nat), NEW k, NEW a \in Nat, Good(f, s, k, a), Ready(f, w, s),
           Mode = "memory", NEW rec, NEW t, Adds(rec, s, t),
           NEW v, Shape(v), v.segments = w.segments, v.pending = Append(w.pending, rec),
           v.nextLsn = w.nextLsn + 1, v.unsynced = w.unsynced, v.broken = w.broken
    PROVE  Ready(f, v, t)
<1> DEFINE l == Active(w)
           p == Append(w.pending, rec)
<1>1. /\ w.pending \in Seq(Record) /\ Len(w.pending) \in Nat /\ Len(s) \in Nat /\ End(f, l) \in Nat \ {0}
  BY ReadyLog
<1>2. GoesOn(f, l, w.pending, s) /\ End(f, l) + Len(w.pending) = Len(s) + 1 /\ w.nextLsn = Len(s) + 1
  BY DEF Ready
<1> HIDE DEF l
<1>3. Len(t) = Len(s) + 1 /\ t[Len(s) + 1] = rec.id /\ \A i \in 1 .. Len(s) : t[i] = s[i]
  BY AddsIs
<1>4. /\ p \in Seq(Record) /\ Len(p) = Len(w.pending) + 1 /\ p[Len(w.pending) + 1] = rec
      /\ \A i \in 1 .. Len(w.pending) : p[i] = w.pending[i]
  BY <1>1 DEF Adds
<1> HIDE DEF p
<1>5. End(f, l) + Len(p) = Len(t) + 1 /\ End(f, l) + Len(p) <= Len(t) + 1
  <2>1. Len(t) \in Nat /\ Len(t) + 1 <= Len(t) + 1
    BY <1>1, <1>3
  <2>2. End(f, l) + Len(p) = Len(t) + 1
    BY <1>1, <1>2, <1>3, <1>4
  <2> QED BY <2>1, <2>2
<1>6. ASSUME NEW i \in 1 .. Len(p)
      PROVE  p[i].lsn = End(f, l) + i - 1 /\ p[i].id = t[End(f, l) + i - 1]
  <2>0. i \in Nat /\ 1 <= i /\ i <= Len(w.pending) + 1
    BY <1>1, <1>4
  <2>1. /\ i <= Len(w.pending) \/ i = Len(w.pending) + 1
        /\ i <= Len(w.pending) => i \in 1 .. Len(w.pending) /\ End(f, l) + i - 1 \in 1 .. Len(s)
        /\ i = Len(w.pending) + 1 => End(f, l) + i - 1 = Len(s) + 1
    <3>1. Place(End(f, l), Len(w.pending), Len(s), i)
      BY <1>1, <1>2, <2>0, InQueue
    <3> QED BY <3>1 DEF Place
  <2>2. CASE i <= Len(w.pending)
    <3>1. i \in 1 .. Len(w.pending)
      BY <2>2, <2>1
    <3>2. p[i].lsn = End(f, l) + i - 1 /\ p[i].id = s[End(f, l) + i - 1]
      BY <1>2, <1>4, <3>1 DEF GoesOn
    <3>3. End(f, l) + i - 1 \in 1 .. Len(s)
      BY <2>2, <2>1
    <3> QED BY <1>3, <3>2, <3>3
  <2>3. CASE i = Len(w.pending) + 1
    <3>1. End(f, l) + i - 1 = Len(s) + 1
      BY <2>3, <2>1
    <3>2. p[i] = rec /\ rec.lsn = Len(s) + 1
      BY <1>4, <2>3 DEF Adds
    <3> QED BY <1>3, <3>1, <3>2
  <2> QED BY <2>2, <2>3, <2>1
<1>7. GoesOn(f, l, p, t)
  BY <1>4, <1>5, <1>6 DEF GoesOn
<1>8. Active(v) = l
  BY DEF Active, l
<1>9. v.nextLsn = Len(t) + 1
  BY <1>1, <1>2, <1>3
<1>10. /\ Steady(f) /\ Clean(f) /\ v.segments = DOMAIN f /\ Latest(f, l)
       /\ v.broken = FALSE /\ v.unsynced \in BOOLEAN /\ (v.unsynced => GroupCommit)
  BY DEF Ready, l
<1>11. v.pending = p
  BY DEF p
<1> QED BY <1>5, <1>7, <1>8, <1>9, <1>10, <1>11 DEF Ready

LEMMA EnqueueGives ==
    ASSUME NEW f, NEW w, NEW s \in Seq(Nat), NEW k, NEW a \in Nat, Good(f, s, k, a), Ready(f, w, s),
           Mode = "memory", NEW rec, NEW t, Adds(rec, s, t),
           NEW faults, NEW r \in Enqueue(f, w, rec, faults)
    PROVE  Done(r, t, k, a) \/ r = Failed(f, w) \/ Halt(r, w, t, k, a)
<1> DEFINE u == Advance(w, rec)
           v == [u EXCEPT !.pending = Append(u.pending, rec)]
<1>1. Shape(w) /\ w.broken = FALSE
  BY DEF Ready
<1>2. /\ Shape(u) /\ u.segments = w.segments /\ u.pending = w.pending
      /\ u.nextLsn = w.nextLsn + 1 /\ u.unsynced = w.unsynced /\ u.broken = w.broken
  BY <1>1, Advanced
<1>3. v = [Advance(w, rec) EXCEPT !.pending = Append(@, rec)]
  OBVIOUS
<1> HIDE DEF u
<1>4. /\ Shape(v) /\ v.segments = u.segments /\ v.pending = Append(u.pending, rec)
      /\ v.nextLsn = u.nextLsn /\ v.unsynced = u.unsynced /\ v.broken = u.broken
  <2>1. v = Queue(u, rec)
    BY DEF Queue
  <2> HIDE DEF v
  <2> QED BY <1>2, <2>1, QueueIs
<1>5. r = Ok(f, v) \/ \E q \in Flush(f, v, faults) :
                        r = IF q.ok \/ q.wal.broken THEN q ELSE Failed(q.files, w)
  BY <1>3 DEF Enqueue
<1> HIDE DEF v
<1>6. Ready(f, v, t)
  BY <1>2, <1>4, QueuedReady
<1>7. Good(f, t, k, a) /\ t \in Seq(Nat)
  BY AddsGood DEF Adds
<1>8. CASE r = Ok(f, v)
  <2>1. r.ok = TRUE /\ r.files = f /\ r.wal = v
    BY <1>8 DEF Ok
  <2> QED BY <1>6, <1>7, <2>1 DEF Done
<1>9. ASSUME NEW q \in Flush(f, v, faults), r = IF q.ok \/ q.wal.broken THEN q ELSE Failed(q.files, w)
      PROVE  Done(r, t, k, a) \/ r = Failed(f, w) \/ Halt(r, w, t, k, a)
  <2>1. Done(q, t, k, a) \/ q = Failed(f, v) \/ Halt(q, v, t, k, a)
    BY <1>6, <1>7, FlushGives
  <2>2. CASE Done(q, t, k, a)
    BY <1>9, <2>2 DEF Done
  <2>3. CASE q = Failed(f, v)
    <3>1. q.ok = FALSE /\ q.files = f /\ q.wal.broken = FALSE
      BY <1>1, <1>2, <1>4, <2>3 DEF Failed
    <3> QED BY <1>9, <3>1
  <2>4. CASE Halt(q, v, t, k, a)
    <3>1. q.wal.broken = TRUE
      BY <2>4 DEF Halt, Stopped
    <3>2. r = q
      BY <1>9, <3>1
    <3> QED BY <1>2, <1>4, <2>4, <3>2 DEF Halt
  <2> QED BY <2>1, <2>2, <2>3, <2>4
<1> QED BY <1>5, <1>8, <1>9

(* append in the other modes: the record is in the active segment. *)
LEMMA WrittenReady ==
    ASSUME NEW f, NEW w, NEW s \in Seq(Nat), NEW k, NEW a \in Nat, Good(f, s, k, a), Ready(f, w, s),
           NEW rec, NEW t, Adds(rec, s, t),
           NEW l, l = Active(w), NEW g, Steady(g), Clean(g), Latest(g, l), DOMAIN g = DOMAIN f,
           End(g, l) = Len(t) + 1,
           NEW v, Shape(v), v.segments = w.segments, v.pending = <<>>, v.nextLsn = w.nextLsn + 1,
           v.broken = FALSE, v.unsynced \in BOOLEAN, v.unsynced => GroupCommit
    PROVE  Ready(g, v, t)
<1>1. Len(s) \in Nat /\ Len(t) = Len(s) + 1 /\ w.nextLsn = Len(s) + 1 /\ v.segments = DOMAIN g
  BY AddsIs DEF Ready
<1>2. Active(v) = l
  BY DEF Active
<1>3. v.nextLsn = Len(t) + 1 /\ Len(t) \in Nat
  BY <1>1
<1>4. GoesOn(g, l, <<>>, t) /\ End(g, l) + Len(<<>>) = Len(t) + 1
  <2>1. <<>> \in Seq(Record) /\ \A i : i \notin 1 .. Len(<<>>)
    OBVIOUS
  <2>2. End(g, l) \in Nat /\ End(g, l) <= Len(t) + 1
    BY <1>3
  <2>3. End(g, l) + Len(<<>>) = End(g, l)
    BY <2>2, NoneMore
  <2>4. GoesOn(g, l, <<>>, t)
    BY <2>1, <2>2, <2>3 DEF GoesOn
  <2> QED BY <2>3, <2>4
<1> QED BY <1>1, <1>2, <1>3, <1>4 DEF Ready

LEMMA WriteThroughGives ==
    ASSUME NEW f, NEW w, NEW s \in Seq(Nat), NEW k, NEW a \in Nat, Good(f, s, k, a), Ready(f, w, s),
           Mode # "memory", Settings, NEW rec, NEW t, Adds(rec, s, t),
           NEW faults, NEW r \in WriteThrough(f, w, rec, faults)
    PROVE  \/ Done(r, t, k, a) /\ (~ r.wal.unsynced => Good(r.files, t, k, Len(t)))
           \/ r = Failed(f, w)
           \/ Halt(r, w, t, k, a)
<1> DEFINE l == Active(w)
           recs == <<rec>>
           g == Write(f, l, recs)
           v == Advance(w, rec)
<1>0. /\ Latest(f, l) /\ l \in DOMAIN f /\ f[l].header = "ok" /\ Steady(f) /\ Clean(f) /\ Shape(w)
      /\ End(f, l) \in Nat \ {0} /\ w.pending \in Seq(Record) /\ Len(s) \in Nat /\ w.nextLsn \in 1 .. Len(s) + 1
  BY ReadyLog
<1>1. /\ w.pending = <<>> /\ End(f, l) + Len(w.pending) = Len(s) + 1 /\ w.nextLsn = Len(s) + 1
      /\ w.segments = DOMAIN f /\ w.broken = FALSE /\ w.unsynced \in BOOLEAN /\ (w.unsynced => GroupCommit)
  BY DEF Ready
<1>2. Len(t) = Len(s) + 1 /\ t[Len(s) + 1] = rec.id /\ t \in Seq(Nat) /\ rec \in Record /\ rec.lsn = Len(s) + 1
  BY AddsIs DEF Adds
<1>3. Good(f, t, k, a)
  BY AddsGood
<1> HIDE DEF l
<1>4. End(f, l) = Len(s) + 1
  BY <1>0, <1>1, NoneMore
<1>5. recs \in Seq(Record) /\ Len(recs) = 1 /\ recs[1] = rec
  BY <1>2
<1>6. GoesOn(f, l, recs, t)
  <2> HIDE DEF recs
  <2>1. End(f, l) + Len(recs) <= Len(t) + 1
    BY <1>0, <1>2, <1>4, <1>5, OneFits
  <2>2. \A i \in 1 .. Len(recs) : i = 1
    BY <1>5
  <2>3. End(f, l) + 1 - 1 = Len(s) + 1
    BY <1>0, <1>2, <1>4, <1>5, OneFits
  <2>4. recs[1].lsn = End(f, l) + 1 - 1 /\ recs[1].id = t[End(f, l) + 1 - 1]
    BY <1>2, <1>5, <2>3
  <2> QED BY <1>5, <2>1, <2>2, <2>4 DEF GoesOn
<1> HIDE DEF recs
<1>6a. Room(f, l, recs, t, k, a)
  BY <1>0, <1>2, <1>3, <1>6 DEF Room
<1>6b. /\ l = Active(w) /\ Len(s) \in Nat /\ Len(t) = Len(s) + 1 /\ Len(t) \in Nat
       /\ w.nextLsn \in 1 .. Len(t) + 1
  <2>1. l = Active(w)
    BY DEF l
  <2>2. Len(s) \in Nat /\ Len(t) = Len(s) + 1 /\ w.nextLsn = Len(s) + 1
    BY <1>0, <1>1, <1>2
  <2> QED BY <2>1, <2>2, OneMore
<1>7. PICK q \in WriteFully(f, w, recs, faults) :
         IF q.ok
         THEN r \in (IF ~ Durable THEN {Ok(q.files, Advance(q.wal, rec))}
                     ELSE IF GroupCommit THEN {Ok(q.files, [Advance(q.wal, rec) EXCEPT !.unsynced = TRUE])}
                     ELSE Then(FsyncActive(q.files, q.wal, faults), LAMBDA h, u : {Ok(h, Advance(u, rec))}))
         ELSE r = q
  BY DEF WriteThrough, Then, recs
<1>8. \/ q = Ok(g, w)
      \/ q = Failed(f, w)
      \/ \E h : q = Broken(h, w) /\ Good(h, t, k, a) /\ Steady(h) /\ DOMAIN h = DOMAIN f
  <2>1. Wrote(q, f, w, l, recs, t, k, a)
    BY <1>6a, <1>6b, WriteGives
  <2> QED BY <2>1 DEF Wrote
<1>9. \A h : Good(h, t, k, a) /\ Steady(h) /\ DOMAIN h = DOMAIN f => Halt(Broken(h, w), w, t, k, a)
  BY <1>0, <1>1, <1>6b, BrokenIs
<1>10. CASE q = Failed(f, w)
  BY <1>7, <1>10 DEF Failed
<1>11. ASSUME NEW h, q = Broken(h, w), Good(h, t, k, a), Steady(h), DOMAIN h = DOMAIN f
       PROVE  Halt(r, w, t, k, a)
  <2>1. r = Broken(h, w)
    BY <1>7, <1>11 DEF Broken, Failed
  <2> QED BY <1>9, <1>11, <2>1
<1>12. CASE q = Ok(g, w)
  <2>1. q.ok /\ q.files = g /\ q.wal = w
    <3> HIDE DEF g
    <3> QED BY <1>12 DEF Ok
  <2>2. /\ Good(g, t, k, a) /\ Steady(g) /\ Latest(g, l) /\ DOMAIN g = DOMAIN f
        /\ g[l].header = "ok" /\ End(g, l) = End(f, l) + Len(recs)
        /\ \A n \in DOMAIN f \ {l} : g[n] = f[n]
        /\ g[l].tail = f[l].tail
    <3>1. g = Write(f, l, recs)
      OBVIOUS
    <3> HIDE DEF g
    <3>2. Grown(g, f, l, recs, t, k, a)
      BY <1>6a, <3>1, WriteGrows
    <3> QED BY <3>2 DEF Grown
  <2> HIDE DEF g
  <2>3. Clean(g)
    BY <1>0, <2>2 DEF Clean, Latest
  <2>4. End(g, l) = Len(t) + 1
    BY <1>0, <1>2, <1>4, <1>5, <2>2
  <2>5. /\ Shape(v) /\ v.segments = w.segments /\ v.pending = w.pending
        /\ v.nextLsn = w.nextLsn + 1 /\ v.unsynced = w.unsynced /\ v.broken = w.broken
    BY <1>0, Advanced
  <2> HIDE DEF v
  <2>6. CASE ~ Durable
    <3>1. r = Ok(g, v)
      BY <1>7, <2>1, <2>6 DEF v
    <3>2. r.ok = TRUE /\ r.files = g /\ r.wal = v
      BY <3>1 DEF Ok
    <3>3. Ready(g, v, t)
      BY <1>1, <2>2, <2>3, <2>4, <2>5, WrittenReady DEF l
    <3>4. ~ Power /\ Len(t) - Len(v.pending) = Len(t)
      <4>1. ~ Power /\ v.pending = <<>>
        BY <1>1, <2>5, <2>6 DEF Settings
      <4>2. Len(t) - Len(v.pending) = Len(t)
        BY <1>6b, <4>1, NoneMore
      <4> QED BY <4>1, <4>2
    <3>5. Good(g, t, k, Len(t))
      BY <1>2, <2>2, <3>3, <3>4, AllSafe
    <3> QED BY <2>2, <3>2, <3>3, <3>5 DEF Done
  <2>7. CASE Durable /\ GroupCommit
    <3> DEFINE u == [v EXCEPT !.unsynced = TRUE]
    <3>1. r = Ok(g, u)
      BY <1>7, <2>1, <2>7 DEF v
    <3>2. u = [v EXCEPT !.unsynced = TRUE]
      OBVIOUS
    <3> HIDE DEF u
    <3>3. /\ Shape(u) /\ u.pending = v.pending /\ u.broken = v.broken /\ u.segments = v.segments
          /\ u.nextLsn = v.nextLsn /\ u.unsynced = TRUE
      BY <2>5, <3>2, MarkUnsynced
    <3>4. r.ok = TRUE /\ r.files = g /\ r.wal = u
      BY <3>1 DEF Ok
    <3>5. Ready(g, u, t)
      BY <1>1, <2>2, <2>3, <2>4, <2>5, <2>7, <3>3, WrittenReady DEF l
    <3> QED BY <2>2, <3>3, <3>4, <3>5 DEF Done
  <2>8. CASE Durable /\ ~ GroupCommit
    <3>1. PICK p \in FsyncActive(g, w, faults) :
             IF p.ok THEN r = Ok(p.files, Advance(p.wal, rec)) ELSE r = p
      BY <1>7, <2>1, <2>8 DEF Then
    <3> DEFINE h == Fsync(g, l)
               u == [w EXCEPT !.unsynced = FALSE]
               x == Advance(u, rec)
    <3>2. p = Ok(h, u) \/ p = Broken(g, w)
      BY DEF FsyncActive, l
    <3>3. CASE p = Broken(g, w)
      <4>1. r = Broken(g, w)
        BY <3>1, <3>3 DEF Broken, Failed
      <4> QED BY <1>9, <2>2, <4>1
    <3>4. CASE p = Ok(h, u)
      <4>1. Len(t) \in Nat /\ Len(t) < End(g, l)
        BY <1>6b, <2>4
      <4>2. /\ Good(h, t, k, Len(t)) /\ Steady(h) /\ Latest(h, l) /\ DOMAIN h = DOMAIN g
            /\ h[l].header = "ok" /\ h[l].tail = g[l].tail /\ End(h, l) = End(g, l)
            /\ \A n \in DOMAIN g \ {l} : h[n] = g[n]
        <5>1. h = Fsync(g, l)
          OBVIOUS
        <5> HIDE DEF h
        <5>2. Good(h, t, k, Len(t)) /\ Steady(h) /\ Latest(h, l) /\ Flushed(h, g, l)
          BY <2>2, <4>1, <5>1, FsyncKeeps
        <5> QED BY <5>2 DEF Flushed
      <4>3. Good(h, t, k, a)
        <5>1. h = Fsync(g, l)
          OBVIOUS
        <5> HIDE DEF h
        <5> QED BY <1>0, <2>2, <2>4, <5>1, FsyncKeeps, ReachesLast
      <4>4. u = [w EXCEPT !.unsynced = FALSE]
        OBVIOUS
      <4> HIDE DEF h, u
      <4>5. Clean(h)
        BY <2>2, <2>3, <4>2 DEF Clean, Latest
      <4>6. /\ Shape(u) /\ u.pending = w.pending /\ u.broken = w.broken /\ u.segments = w.segments
            /\ u.nextLsn = w.nextLsn /\ u.unsynced = FALSE
        BY <1>0, <4>4, MarkSynced
      <4>7. /\ Shape(x) /\ x.segments = u.segments /\ x.pending = u.pending
            /\ x.nextLsn = u.nextLsn + 1 /\ x.unsynced = u.unsynced /\ x.broken = u.broken
        BY <4>6, Advanced
      <4>8. p.ok /\ p.files = h /\ p.wal = u
        BY <3>4 DEF Ok
      <4>9. r = Ok(h, x)
        BY <3>1, <4>8
      <4> HIDE DEF x
      <4>10. r.ok = TRUE /\ r.files = h /\ r.wal = x
        BY <4>9 DEF Ok
      <4>11. Ready(h, x, t)
        <5>1. /\ x.segments = w.segments /\ x.pending = <<>> /\ x.nextLsn = w.nextLsn + 1
              /\ x.broken = FALSE /\ x.unsynced = FALSE
          BY <1>1, <4>6, <4>7
        <5>2. DOMAIN h = DOMAIN f /\ End(h, l) = Len(t) + 1
          BY <2>2, <2>4, <4>2
        <5>3. x.unsynced \in BOOLEAN /\ (x.unsynced => GroupCommit)
          BY <5>1
        <5> QED BY <4>2, <4>5, <4>7, <5>1, <5>2, <5>3, WrittenReady DEF l
      <4> QED BY <4>2, <4>3, <4>10, <4>11 DEF Done
    <3> QED BY <3>2, <3>3, <3>4
  <2> QED BY <2>6, <2>7, <2>8
<1> QED BY <1>8, <1>10, <1>11, <1>12

(* append: what it left, and what its callers may be told.                 *)
Appended(r, w, s, t, k, a, faults) ==
    \/ Done(r, t, k, a) /\ (~ r.wal.unsynced => Good(r.files, t, k, Len(t) - Len(r.wal.pending)))
    \/ /\ r.ok = FALSE /\ Good(r.files, t, k, a)
       /\ (Good(r.files, s, k, a) /\ Ready(r.files, r.wal, s)) \/ Stopped(r.files, r.wal, t)
       /\ w.unsynced /\ ~ r.wal.unsynced => Good(r.files, t, k, Len(s))
    \/ Left(r, t, k, a, faults)

LEMMA WeakerGood ==
    ASSUME NEW f, NEW t, NEW k, NEW b \in Nat, Good(f, t, k, b), NEW a \in Nat, a <= b
    PROVE  Good(f, t, k, a)
<1>1. \A n \in DOMAIN f : n \in Nat /\ Len(f[n].recs) \in Nat /\ f[n].hard \in Int
  BY DEF Good, Sound, FilesShape, Segment
<1>2. Reach(f, b) => Reach(f, a)
  BY <1>1 DEF Reach, End
<1>3. Stable(f, b) => Stable(f, a)
  BY <1>1 DEF Stable
<1> QED BY <1>2, <1>3 DEF Good, Safe

(* A step of append that begins with a log that is ready, before or after  *)
(* the rotation.                                                           *)
LEMMA AddGives ==
    ASSUME NEW f, NEW w, NEW s \in Seq(Nat), NEW k, NEW a \in Nat, Good(f, s, k, a), Ready(f, w, s),
           Settings, NEW rec, NEW t, Adds(rec, s, t), NEW faults,
           NEW r \in (IF Mode = "memory" THEN Enqueue(f, w, rec, faults) ELSE WriteThrough(f, w, rec, faults))
    PROVE  \/ Done(r, t, k, a) /\ (~ r.wal.unsynced => Good(r.files, t, k, Len(t) - Len(r.wal.pending)))
           \/ r = Failed(f, w)
           \/ Halt(r, w, t, k, a)
<1>0. t \in Seq(Nat) /\ Len(t) \in Nat
  BY DEF Adds
<1>1. CASE Mode = "memory"
  <2>1. Done(r, t, k, a) \/ r = Failed(f, w) \/ Halt(r, w, t, k, a)
    BY <1>1, EnqueueGives
  <2>2. ASSUME Done(r, t, k, a) PROVE Good(r.files, t, k, Len(t) - Len(r.wal.pending))
    <3>1. ~ Power
      BY <1>1 DEF Settings, Durable
    <3>2. Good(r.files, t, k, a) /\ Ready(r.files, r.wal, t)
      BY <2>2 DEF Done
    <3> QED BY <1>0, <3>1, <3>2, AllSafe
  <2> QED BY <2>1, <2>2
<1>2. CASE Mode # "memory"
  <2>1. \/ Done(r, t, k, a) /\ (~ r.wal.unsynced => Good(r.files, t, k, Len(t)))
        \/ r = Failed(f, w)
        \/ Halt(r, w, t, k, a)
    BY <1>2, WriteThroughGives
  <2>2. ASSUME Done(r, t, k, a) PROVE Len(t) - Len(r.wal.pending) = Len(t)
    <3>1. r.wal.pending = <<>>
      BY <1>2, <2>2 DEF Done, Ready
    <3> QED BY <1>0, <3>1, NoneMore
  <2> QED BY <2>1, <2>2
<1> QED BY <1>1, <1>2

LEMMA AppendGives ==
    ASSUME NEW f, NEW w, NEW s \in Seq(Nat), NEW k, k = Len(s) + 1, NEW a \in Nat, Good(f, s, k, a),
           Ready(f, w, s), Settings, NEW rec, NEW t, Adds(rec, s, t), NEW faults,
           NEW r \in AppendRecord(f, w, rec, faults)
    PROVE  Appended(r, w, s, t, k, a, faults)
<1> DEFINE Rest(g, v) ==
             IF Mode = "memory" THEN Enqueue(g, v, rec, faults) ELSE WriteThrough(g, v, rec, faults)
           first == IF w.position > 0 /\ w.position + rec.size > SegmentSize
                    THEN Rotate(f, w, faults) ELSE {Ok(f, w)}
<1>0. Len(s) \in Nat /\ a <= Len(s) /\ w.unsynced \in BOOLEAN
  <2>1. Len(s) \in Nat /\ a <= Len(s) - Len(w.pending) /\ Len(w.pending) \in Nat
    BY ReadyLog
  <2>2. a <= Len(s)
    BY <2>1
  <2> QED BY <2>1, <2>2 DEF Ready
<1>1. PICK q \in first : IF q.ok THEN r \in Rest(q.files, q.wal) ELSE r = q
  BY DEF AppendRecord, Then
<1>2. q = Ok(f, w) \/ q \in Rotate(f, w, faults)
  OBVIOUS
<1> HIDE DEF first
<1>3. CASE q = Ok(f, w)
  <2>1. q.ok /\ q.files = f /\ q.wal = w
    BY <1>3 DEF Ok
  <2>2. r \in Rest(f, w)
    BY <1>1, <2>1
  <2>3. \/ Done(r, t, k, a) /\ (~ r.wal.unsynced => Good(r.files, t, k, Len(t) - Len(r.wal.pending)))
        \/ r = Failed(f, w)
        \/ Halt(r, w, t, k, a)
    BY <2>2, AddGives
  <2>4. CASE r = Failed(f, w)
    <3>1. r.ok = FALSE /\ r.files = f /\ r.wal = w
      BY <2>4 DEF Failed
    <3>2. Good(f, t, k, a)
      BY AddsGood
    <3> QED BY <3>1, <3>2 DEF Appended
  <2>5. CASE Halt(r, w, t, k, a)
    BY <2>5 DEF Halt, Appended
  <2> QED BY <2>3, <2>4, <2>5 DEF Appended
<1>4. CASE q \in Rotate(f, w, faults)
  <2>1. \/ Done(q, s, k, Len(s)) /\ q.wal.pending = <<>> /\ q.wal.unsynced = FALSE
        \/ q = Failed(f, w)
        \/ Halt(q, w, s, k, a)
        \/ /\ q.ok = FALSE /\ Good(q.files, s, k, Len(s)) /\ q.wal.unsynced = FALSE
           /\ Ready(q.files, q.wal, s) \/ Stopped(q.files, q.wal, s)
        \/ Left(q, s, k, Len(s), faults)
    BY <1>4, RotateGives
  <2>2. \A g, b : Good(g, s, k, b) => Good(g, t, k, b)
    BY AddsGood
  <2>3. \A g, v : Stopped(g, v, s) => Stopped(g, v, t)
    <3>1. Len(t) = Len(s) + 1
      BY AddsIs
    <3> QED BY <1>0, <3>1 DEF Stopped
  <2>4. \A g : Good(g, s, k, Len(s)) => Good(g, s, k, a)
    BY <1>0, WeakerGood
  <2>5. CASE q = Failed(f, w)
    <3>1. q.ok = FALSE /\ q.files = f /\ q.wal = w /\ r = q
      BY <1>1, <2>5 DEF Failed
    <3> QED BY <2>2, <3>1 DEF Appended
  <2>6. CASE Halt(q, w, s, k, a)
    <3>1. r = q
      BY <1>1, <2>6 DEF Halt
    <3>2. r.ok = FALSE /\ Good(r.files, s, k, a) /\ Stopped(r.files, r.wal, s) /\ r.wal.unsynced = w.unsynced
      BY <2>6, <3>1 DEF Halt
    <3> QED BY <2>2, <2>3, <3>2 DEF Appended
  <2>7. CASE /\ q.ok = FALSE /\ Good(q.files, s, k, Len(s)) /\ q.wal.unsynced = FALSE
             /\ Ready(q.files, q.wal, s) \/ Stopped(q.files, q.wal, s)
    <3>1. r = q
      BY <1>1, <2>7
    <3>2. Good(r.files, s, k, a) /\ Good(r.files, t, k, a) /\ Good(r.files, t, k, Len(s))
      BY <2>2, <2>4, <2>7, <3>1
    <3> QED BY <2>3, <2>7, <3>1, <3>2 DEF Appended
  <2>8. CASE Left(q, s, k, Len(s), faults)
    <3>1. r = q
      BY <1>1, <2>8 DEF Left
    <3>2. Left(r, t, k, a, faults)
      BY <2>2, <2>4, <2>8, <3>1 DEF Left
    <3> QED BY <3>2 DEF Appended
  <2>9. CASE Done(q, s, k, Len(s)) /\ q.wal.pending = <<>> /\ q.wal.unsynced = FALSE
    <3> DEFINE g == q.files
               v == q.wal
               b == Len(s)
    <3>1. q.ok = TRUE /\ Good(g, s, k, b) /\ Ready(g, v, s) /\ v.unsynced = FALSE /\ b \in Nat
      BY <1>0, <2>9 DEF Done
    <3>2. r \in Rest(g, v)
      BY <1>1, <3>1
    <3> HIDE DEF g, v, b
    <3>3. \/ Done(r, t, k, b) /\ (~ r.wal.unsynced => Good(r.files, t, k, Len(t) - Len(r.wal.pending)))
          \/ r = Failed(g, v)
          \/ Halt(r, v, t, k, b)
      BY <3>1, <3>2, AddGives
    <3>4. \A h : Good(h, t, k, b) => Good(h, t, k, a)
      BY <1>0, <3>1, WeakerGood DEF b
    <3>5. CASE Done(r, t, k, b) /\ (~ r.wal.unsynced => Good(r.files, t, k, Len(t) - Len(r.wal.pending)))
      <4>1. Done(r, t, k, a)
        BY <3>4, <3>5 DEF Done
      <4> QED BY <3>5, <4>1 DEF Appended
    <3>6. CASE r = Failed(g, v)
      <4>1. r.ok = FALSE /\ r.files = g /\ r.wal = v
        BY <3>6 DEF Failed
      <4>2. Good(g, s, k, a) /\ Good(g, t, k, a) /\ Good(g, t, k, Len(s))
        BY <2>2, <2>4, <3>1 DEF b
      <4> QED BY <3>1, <4>1, <4>2 DEF Appended
    <3>7. CASE Halt(r, v, t, k, b)
      <4>1. r.ok = FALSE /\ Good(r.files, t, k, b) /\ Stopped(r.files, r.wal, t)
        BY <3>7 DEF Halt
      <4>2. Good(r.files, t, k, a) /\ Good(r.files, t, k, Len(s))
        BY <3>4, <4>1 DEF b
      <4> QED BY <4>1, <4>2 DEF Appended
    <3> QED BY <3>3, <3>5, <3>6, <3>7
  <2> QED BY <2>1, <2>5, <2>6, <2>7, <2>8, <2>9
<1> QED BY <1>2, <1>3, <1>4

(* The results of the calls that append nothing.                           *)
Called(r, f, w, s, k, a) ==
    \/ Done(r, s, k, a) /\ (~ r.wal.unsynced => Good(r.files, s, k, Len(s) - Len(r.wal.pending)))
    \/ r = Failed(f, w)
    \/ Halt(r, w, s, k, a)

LEMMA TimerGives ==
    ASSUME NEW f, NEW w, NEW s \in Seq(Nat), NEW k, NEW a \in Nat, Good(f, s, k, a), Ready(f, w, s),
           Settings, w.pending # <<>>, NEW faults, NEW r \in Flush(f, w, faults)
    PROVE  Called(r, f, w, s, k, a)
<1>1. \/ Done(r, s, k, a) /\ r.wal.pending = <<>> /\ r.wal.unsynced = w.unsynced
      \/ r = Failed(f, w)
      \/ Halt(r, w, s, k, a)
  BY FlushGives
<1>2. ~ Power
  BY DEF Ready, Settings, Durable
<1>3. Done(r, s, k, a) => Good(r.files, s, k, Len(s) - Len(r.wal.pending))
  BY <1>2, AllSafe DEF Done
<1> QED BY <1>1, <1>3 DEF Called

(* An fsync that follows nothing or a flush. *)
LEMMA FsyncDone ==
    ASSUME NEW f, NEW w, NEW s \in Seq(Nat), NEW k, NEW a \in Nat, Good(f, s, k, a), Ready(f, w, s),
           NEW faults, NEW r \in FsyncActive(f, w, faults)
    PROVE  /\ \/ Done(r, s, k, a) /\ Good(r.files, s, k, Len(s) - Len(r.wal.pending))
              \/ Halt(r, w, s, k, a)
           /\ r.ok = TRUE => r.wal.nextLsn = Len(s) + 1
<1>1. \/ /\ Done(r, s, k, Len(s) - Len(w.pending))
         /\ r.wal.pending = w.pending /\ r.wal.unsynced = FALSE
      \/ Halt(r, w, s, k, a)
  BY FsyncGives
<1>2. CASE Halt(r, w, s, k, a)
  BY <1>2 DEF Halt
<1>3. CASE Done(r, s, k, Len(s) - Len(w.pending)) /\ r.wal.pending = w.pending
  <2> DEFINE b == Len(s) - Len(w.pending)
  <2>1. a <= b /\ b \in Nat
    <3>1. Len(s) \in Nat /\ Len(w.pending) \in Nat /\ a <= b
      BY ReadyLog
    <3> QED BY <3>1
  <2>2. Good(r.files, s, k, b) /\ r.wal.nextLsn = Len(s) + 1
    BY <1>3 DEF Done, Ready
  <2> HIDE DEF b
  <2>3. Good(r.files, s, k, a)
    BY <2>1, <2>2, WeakerGood
  <2>4. Done(r, s, k, a)
    BY <1>3, <2>3 DEF Done
  <2> QED BY <1>3, <2>2, <2>4 DEF b
<1> QED BY <1>1, <1>2, <1>3

LEMMA CommitGives ==
    ASSUME NEW f, NEW w, NEW s \in Seq(Nat), NEW k, NEW a \in Nat, Good(f, s, k, a), Ready(f, w, s),
           w.unsynced, NEW faults, NEW r \in CommitResults(f, w, faults)
    PROVE  Called(r, f, w, s, k, a)
<1>1. r \in FsyncActive(f, w, faults)
  BY DEF CommitResults
<1> QED BY <1>1, FsyncDone DEF Called

LEMMA SyncGives ==
    ASSUME NEW f, NEW w, NEW s \in Seq(Nat), NEW k, NEW a \in Nat, Good(f, s, k, a), Ready(f, w, s),
           NEW faults, NEW r \in SyncResults(f, w, faults)
    PROVE  Called(r, f, w, s, k, a) /\ (r.ok = TRUE => r.wal.nextLsn = Len(s) + 1)
<1>1. PICK q \in Flush(f, w, faults) :
         IF q.ok THEN r \in FsyncActive(q.files, q.wal, faults) ELSE r = q
  BY DEF SyncResults, Then
<1>2. \/ Done(q, s, k, a) /\ q.wal.pending = <<>> /\ q.wal.unsynced = w.unsynced
      \/ q = Failed(f, w)
      \/ Halt(q, w, s, k, a)
  BY FlushGives
<1>3. CASE q = Failed(f, w)
  <2>1. r = q /\ r.ok = FALSE
    BY <1>1, <1>3 DEF Failed
  <2> QED BY <1>3, <2>1 DEF Called
<1>4. CASE Halt(q, w, s, k, a)
  <2>1. r = q /\ r.ok = FALSE
    BY <1>1, <1>4 DEF Halt
  <2> QED BY <1>4, <2>1 DEF Called
<1>5. CASE Done(q, s, k, a) /\ q.wal.unsynced = w.unsynced
  <2> DEFINE g == q.files
             v == q.wal
  <2>1. q.ok = TRUE /\ Good(g, s, k, a) /\ Ready(g, v, s) /\ v.unsynced = w.unsynced
    BY <1>5 DEF Done
  <2>2. r \in FsyncActive(g, v, faults)
    BY <1>1, <2>1
  <2> HIDE DEF g, v
  <2>3. /\ \/ Done(r, s, k, a) /\ Good(r.files, s, k, Len(s) - Len(r.wal.pending))
           \/ Halt(r, v, s, k, a)
        /\ r.ok = TRUE => r.wal.nextLsn = Len(s) + 1
    BY <2>1, <2>2, FsyncDone
  <2>4. Halt(r, v, s, k, a) => Halt(r, w, s, k, a)
    BY <2>1 DEF Halt
  <2> QED BY <2>3, <2>4 DEF Called
<1> QED BY <1>2, <1>3, <1>4, <1>5

(* close: whatever fails, and what the callers that waited are told. *)
LEMMA CloseGives ==
    ASSUME NEW f, NEW w, NEW s \in Seq(Nat), NEW k, NEW a \in Nat, Good(f, s, k, a), Ready(f, w, s),
           Settings, NEW faults, NEW r,
           \E q \in Flush(f, w, faults) :
              IF q.ok THEN r \in CommitResults(q.files, q.wal, faults) ELSE r = q
    PROVE  /\ Good(r.files, s, k, a) /\ Steady(r.files)
           /\ w.unsynced \/ w.pending # <<>> => Called(r, f, w, s, k, a)
<1>0. \A x : Called(x, f, w, s, k, a) => Good(x.files, s, k, a) /\ Steady(x.files)
  <2> SUFFICES ASSUME NEW x, Called(x, f, w, s, k, a)
               PROVE  Good(x.files, s, k, a) /\ Steady(x.files)
    OBVIOUS
  <2>1. CASE Done(x, s, k, a)
    BY <2>1 DEF Done, Ready
  <2>2. CASE x = Failed(f, w)
    <3>1. x.files = f /\ Steady(f)
      BY <2>2 DEF Failed, Ready
    <3> QED BY <3>1
  <2>3. CASE Halt(x, w, s, k, a)
    BY <2>3 DEF Halt, Stopped
  <2> QED BY <2>1, <2>2, <2>3 DEF Called
<1>1. PICK q \in Flush(f, w, faults) :
         IF q.ok THEN r \in CommitResults(q.files, q.wal, faults) ELSE r = q
  OBVIOUS
<1>2. \/ Done(q, s, k, a) /\ q.wal.pending = <<>> /\ q.wal.unsynced = w.unsynced
      \/ q = Failed(f, w)
      \/ Halt(q, w, s, k, a)
  BY FlushGives
<1>3. CASE q = Failed(f, w)
  <2>1. r = q
    BY <1>1, <1>3 DEF Failed
  <2>2. Called(r, f, w, s, k, a)
    BY <1>3, <2>1 DEF Called
  <2> QED BY <1>0, <2>2
<1>4. CASE Halt(q, w, s, k, a)
  <2>1. r = q
    BY <1>1, <1>4 DEF Halt
  <2>2. Called(r, f, w, s, k, a)
    BY <1>4, <2>1 DEF Called
  <2> QED BY <1>0, <2>2
<1>5. CASE Done(q, s, k, a) /\ q.wal.unsynced = w.unsynced
  <2> DEFINE g == q.files
             v == q.wal
  <2>1. q.ok = TRUE /\ Good(g, s, k, a) /\ Ready(g, v, s) /\ v.unsynced = w.unsynced /\ v.unsynced \in BOOLEAN
    BY <1>5 DEF Done, Ready
  <2>2. r \in CommitResults(g, v, faults)
    BY <1>1, <2>1
  <2> HIDE DEF g, v
  <2>3. CASE v.unsynced
    <3>1. Called(r, g, v, s, k, a)
      BY <2>1, <2>2, <2>3, CommitGives
    <3>2. r \in FsyncActive(g, v, faults)
      BY <2>2, <2>3 DEF CommitResults
    <3>3. \/ Done(r, s, k, a) /\ Good(r.files, s, k, Len(s) - Len(r.wal.pending))
          \/ Halt(r, v, s, k, a)
      BY <2>1, <3>2, FsyncDone
    <3>4. Called(r, f, w, s, k, a)
      BY <2>1, <3>3 DEF Called, Halt
    <3> QED BY <1>0, <3>4
  <2>4. CASE ~ v.unsynced
    <3>1. r = Ok(g, v)
      BY <2>2, <2>4 DEF CommitResults
    <3>2. r.ok = TRUE /\ r.files = g /\ r.wal = v
      BY <3>1 DEF Ok
    <3>3. Done(r, s, k, a) /\ Steady(r.files)
      BY <2>1, <3>2 DEF Done, Ready
    <3>4. ASSUME w.unsynced \/ w.pending # <<>> PROVE Called(r, f, w, s, k, a)
      <4>1. ~ Power
        BY <2>1, <2>4, <3>4 DEF Ready, Settings, Durable
      <4>2. Good(g, s, k, Len(s) - Len(v.pending))
        BY <2>1, <4>1, AllSafe
      <4> QED BY <3>2, <3>3, <4>2 DEF Called
    <3> QED BY <2>1, <3>2, <3>3, <3>4
  <2> QED BY <2>1, <2>3, <2>4
<1> QED BY <1>2, <1>3, <1>4, <1>5

(* A ready log that forgets old segments it has removed. *)
LEMMA ForgetKeeps ==
    ASSUME NEW f, NEW w, NEW s \in Seq(Nat), NEW k \in Nat, NEW a \in Nat, Good(f, s, k, a), Ready(f, w, s),
           NEW S, S \subseteq DOMAIN f, Active(w) \notin S,
           \A m \in DOMAIN f, n \in S : m < n => m \in S,
           NEW g, g = Restrict(f, DOMAIN f \ S), NEW v, v = [w EXCEPT !.segments = @ \ S]
    PROVE  Good(g, s, k, a) /\ Ready(g, v, s)
<1> DEFINE l == Active(w)
<1>1. /\ Steady(f) /\ Clean(f) /\ Shape(w) /\ w.segments = DOMAIN f /\ Latest(f, l)
      /\ w.broken = FALSE /\ w.unsynced \in BOOLEAN /\ w.nextLsn = Len(s) + 1
      /\ GoesOn(f, l, w.pending, s) /\ End(f, l) + Len(w.pending) = Len(s) + 1
      /\ (Mode # "memory" => w.pending = <<>>) /\ (w.unsynced => GroupCommit)
  BY DEF Ready
<1>2. Good(g, s, k, a) /\ Steady(g) /\ Clean(g) /\ Latest(g, l)
  <2> HIDE DEF l
  <2>1. l \notin S
    BY DEF l
  <2> QED BY <1>1, <2>1, RemoveKeeps
<1>3. DOMAIN g = DOMAIN f \ S /\ \A n \in DOMAIN g : g[n] = f[n]
  BY DEF Restrict
<1>4. /\ v.segments = DOMAIN g /\ v.pending = w.pending /\ v.nextLsn = w.nextLsn
      /\ v.position = w.position
  <2>1. v.segments = w.segments \ S /\ v.pending = w.pending /\ v.nextLsn = w.nextLsn /\ v.position = w.position
    BY <1>1 DEF Shape
  <2> QED BY <1>1, <1>3, <2>1
<1>5. Shape(v) /\ v.broken = w.broken /\ v.unsynced = w.unsynced
  BY <1>1 DEF Shape
<1>6. Active(v) = l
  <2>1. DOMAIN g \subseteq Nat
    BY <1>2 DEF Good, Sound, FilesShape
  <2>2. l \in DOMAIN g /\ \A n \in DOMAIN g : n <= l
    BY <1>2 DEF Latest
  <2> HIDE DEF l
  <2>3. Max(DOMAIN g) = l
    BY <2>1, <2>2, MaxIs
  <2> QED BY <1>4, <2>3 DEF Active
<1>7. GoesOn(g, l, v.pending, s) /\ End(g, l) = End(f, l)
  <2>1. l \in DOMAIN g /\ g[l] = f[l]
    BY <1>2, <1>3 DEF Latest
  <2> HIDE DEF l
  <2> QED BY <1>1, <1>4, <2>1 DEF GoesOn, End
<1> HIDE DEF l
<1> QED BY <1>1, <1>2, <1>4, <1>5, <1>6, <1>7 DEF Ready

LEMMA LinkedReady ==
    ASSUME NEW f, NEW w, NEW s \in Seq(Nat), NEW k \in Nat, NEW a \in Nat, Good(f, s, k, a), Ready(f, w, s),
           NEW g, g = SyncDirectory(f)
    PROVE  Good(g, s, k, a) /\ Ready(g, w, s)
<1>1. /\ Good(g, s, k, a) /\ DOMAIN g = DOMAIN f /\ (Steady(f) => Steady(g))
      /\ \A n \in DOMAIN f : /\ g[n].recs = f[n].recs /\ g[n].header = f[n].header
                            /\ g[n].tail = f[n].tail
  <2>1. Good(g, s, k, a) /\ (Steady(f) => Steady(g)) /\ Linked(g, f)
    BY LinkKeeps
  <2> QED BY <2>1 DEF Linked
<1>2. Clean(f) => Clean(g)
  BY <1>1 DEF Clean
<1>3. \A l : Latest(f, l) => Latest(g, l) /\ l \in DOMAIN f
  BY <1>1 DEF Latest
<1>4. \A p : \A l \in DOMAIN f : End(g, l) = End(f, l) /\ (GoesOn(f, l, p, s) => GoesOn(g, l, p, s))
  BY <1>1 DEF End, GoesOn
<1> QED BY <1>1, <1>2, <1>3, <1>4 DEF Ready

LEMMA TruncateGives ==
    ASSUME NEW f, NEW w, NEW s \in Seq(Nat), NEW k \in Nat, NEW a \in Nat, Good(f, s, k, a), Ready(f, w, s),
           NEW lsn \in Nat, NEW faults, NEW r \in TruncateResults(f, w, lsn, faults)
    PROVE  Good(r.files, s, k, a) /\ Ready(r.files, r.wal, s)
<1> DEFINE all == Removable(w, lsn)
           Rest(S) == Restrict(f, DOMAIN f \ S)
           Forget(S) == [w EXCEPT !.segments = @ \ S]
           Oldest(n) == {m \in all : m < n}
<1>0. DOMAIN f \subseteq Nat /\ w.segments = DOMAIN f /\ Latest(f, Active(w))
  BY DEF Ready, Good, Sound, FilesShape
<1>1. /\ all \subseteq DOMAIN f /\ Active(w) \notin all
      /\ \A m \in DOMAIN f, n \in all : m < n => m \in all
  BY <1>0 DEF Removable, Latest
<1>2. ASSUME NEW S, S \subseteq all, \A m \in all, n \in S : m < n => m \in S
      PROVE  Good(Rest(S), s, k, a) /\ Ready(Rest(S), Forget(S), s)
  <2> DEFINE g == Rest(S)
             v == Forget(S)
  <2>1. /\ S \subseteq DOMAIN f /\ Active(w) \notin S
        /\ \A m \in DOMAIN f, n \in S : m < n => m \in S
    BY <1>1, <1>2
  <2>2. g = Restrict(f, DOMAIN f \ S) /\ v = [w EXCEPT !.segments = @ \ S]
    OBVIOUS
  <2> HIDE DEF g, v
  <2>3. Good(g, s, k, a) /\ Ready(g, v, s)
    BY <2>1, <2>2, ForgetKeeps
  <2> QED BY <2>3 DEF g, v
<1>3. /\ \A m \in all, n \in all : m < n => m \in all
      /\ \A x \in all : /\ Oldest(x) \subseteq all
                        /\ \A m \in all, n \in Oldest(x) : m < n => m \in Oldest(x)
  <2>1. ASSUME NEW x \in all, NEW m \in all, NEW n \in Oldest(x), m < n
        PROVE  m \in Oldest(x)
    <3>1. n \in all /\ n < x
      OBVIOUS
    <3>2. m \in Nat /\ n \in Nat /\ x \in Nat
      BY <1>0, <1>1, <3>1
    <3>3. m < x
      BY <2>1, <3>1, <3>2
    <3> QED BY <3>3
  <2> QED BY <1>1, <2>1
<1>4. \/ r = Ok(IF all # {} /\ Durable THEN SyncDirectory(Rest(all)) ELSE Rest(all), Forget(all))
      \/ \E n \in all : r = Failed(Rest(Oldest(n)), Forget(Oldest(n)))
  BY DEF TruncateResults
<1> HIDE DEF all, Rest, Forget, Oldest
<1>5. CASE r = Ok(IF all # {} /\ Durable THEN SyncDirectory(Rest(all)) ELSE Rest(all), Forget(all))
  <2> DEFINE g == Rest(all)
             v == Forget(all)
  <2>1. Good(g, s, k, a) /\ Ready(g, v, s)
    BY <1>2, <1>3
  <2>2. r.wal = v /\ (r.files = SyncDirectory(g) \/ r.files = g)
    BY <1>5 DEF Ok
  <2> HIDE DEF g, v
  <2>3. Good(SyncDirectory(g), s, k, a) /\ Ready(SyncDirectory(g), v, s)
    BY <2>1, LinkedReady
  <2> QED BY <2>1, <2>2, <2>3
<1>6. ASSUME NEW n \in all, r = Failed(Rest(Oldest(n)), Forget(Oldest(n)))
      PROVE  Good(r.files, s, k, a) /\ Ready(r.files, r.wal, s)
  <2> DEFINE S == Oldest(n)
             g == Rest(S)
             v == Forget(S)
  <2>1. Good(g, s, k, a) /\ Ready(g, v, s)
    BY <1>2, <1>3
  <2>2. r.files = g /\ r.wal = v
    BY <1>6 DEF Failed
  <2> HIDE DEF g, v
  <2> QED BY <2>1, <2>2
<1> QED BY <1>4, <1>5, <1>6
=============================================================================
