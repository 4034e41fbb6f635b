------------------------- MODULE WriteAheadLogFiles -------------------------
(***************************************************************************)
(* Lemmas about the segment files of WriteAheadLog: which files hold a log, *)
(* how writes, flushes, new and removed segments and crashes change them,  *)
(* and what recovery makes of them.                                        *)
(***************************************************************************)
EXTENDS WriteAheadLog, WellFoundedInduction, TLAPS

-----------------------------------------------------------------------------
(* Least and greatest elements of sets of numbers.  What would be shown by *)
(* induction on numbers is shown of the least counterexample (Least).      *)

(* A nonempty set of numbers has a least element. *)
LEMMA Least ==
    ASSUME NEW S \in SUBSET Nat, S # {}
    PROVE  \E m \in S : \A n \in S : m <= n
<1> DEFINE less == OpToRel(<, Nat)
<1>1. IsWellFoundedOn(less, Nat)
  BY NatLessThanWellFounded
<1>2. PICK m \in S : \A n \in S : ~ (<<n, m>> \in less)
  <2> HIDE DEF less
  <2> QED BY <1>1, WFMin
<1>3. ASSUME NEW n \in S PROVE m <= n
  <2>1. n < m => <<n, m>> \in less
    BY DEF OpToRel
  <2>2. ~ (n < m)
    <3> HIDE DEF less
    <3> QED BY <1>2, <2>1
  <2> HIDE DEF less
  <2>3. m \in Nat /\ n \in Nat
    OBVIOUS
  <2> QED BY <2>2, <2>3
<1> HIDE DEF less
<1> QED BY <1>3

(* A bounded set of numbers has a greatest element. *)
LEMMA Greatest ==
    ASSUME NEW S \in SUBSET Nat, S # {}, NEW h \in Nat, \A n \in S : n <= h
    PROVE  \E m \in S : \A n \in S : n <= m
<1> DEFINE T == {x \in Nat : \E n \in S : x = h - n}
<1>1. PICK s \in S : TRUE
  OBVIOUS
<1>2. s \in Nat /\ s <= h
  OBVIOUS
<1>3. h - s \in T
  BY <1>2
<1>4. T \in SUBSET Nat /\ T # {}
  BY <1>3
<1>5. PICK t \in T : \A u \in T : t <= u
  <2> HIDE DEF T
  <2> QED BY <1>4, Least
<1>6. PICK m \in S : t = h - m
  OBVIOUS
<1>7. ASSUME NEW n \in S PROVE n <= m
  <2>1. n \in Nat /\ n <= h /\ m \in Nat
    OBVIOUS
  <2>2. h - n \in T
    BY <2>1
  <2> QED BY <1>5, <1>6, <2>1, <2>2
<1> QED BY <1>7

(* Max and Min are what they should be. *)
LEMMA MaxIsGreatest ==
    ASSUME NEW S \in SUBSET Nat, S # {}, NEW h \in Nat, \A n \in S : n <= h
    PROVE  Max(S) \in S /\ \A n \in S : n <= Max(S)
<1>1. \E m \in S : \A n \in S : n <= m
  BY Greatest
<1>2. \E m \in S : \A n \in S : m >= n
  BY <1>1
<1>3. Max(S) \in S /\ \A n \in S : Max(S) >= n
  BY <1>2 DEF Max
<1> QED BY <1>3

LEMMA MinIsLeast ==
    ASSUME NEW S \in SUBSET Nat, S # {}
    PROVE  Min(S) \in S /\ \A n \in S : Min(S) <= n
<1>1. \E m \in S : \A n \in S : m <= n
  BY Least
<1> QED BY <1>1 DEF Min

(* The greatest element of a set that has one. *)
LEMMA MaxIs ==
    ASSUME NEW S \in SUBSET Nat, NEW m \in S, \A n \in S : n <= m
    PROVE  Max(S) = m
<1>1. Max(S) \in S /\ \A n \in S : n <= Max(S)
  BY MaxIsGreatest
<1>2. m \in Nat /\ Max(S) \in Nat /\ m <= Max(S) /\ Max(S) <= m
  BY <1>1
<1> QED BY <1>2

-----------------------------------------------------------------------------
(* Files that hold a log.                                                  *)

Power == "power" \in Crashes

Segment ==
    [recs : Seq(Record), tail : {"clean", "torn"}, header : {"ok", "cut"}, hard : Int, linked : BOOLEAN]

FilesShape(f) ==
    /\ f \in [DOMAIN f -> Segment] /\ DOMAIN f \subseteq Nat \ {0}
    /\ \A n \in DOMAIN f : f[n].hard \in -1 .. Len(f[n].recs)

(* The LSN after those of segment n. *)
End(f, n) == n + Len(f[n].recs)

Latest(f, n) == n \in DOMAIN f /\ \A m \in DOMAIN f : m <= n

(* Each segment but the last is whole, and the next begins where it ends.  *)
Chain(f) ==
    \A m, n \in DOMAIN f : m < n =>
        /\ m < End(f, m) /\ End(f, m) <= n /\ End(f, m) \in DOMAIN f
        /\ f[m].header = "ok" /\ f[m].tail = "clean"

(* A segment that recovery may drop is not the only trace of a log that    *)
(* has begun.                                                              *)
NotAlone(f, n) == n = 1 \/ \E m \in DOMAIN f : m < n

CutOnes(f) == \A n \in DOMAIN f : f[n].header = "cut" => f[n].recs = <<>> /\ NotAlone(f, n)

(* The records in the files are those of the log t, each at its LSN. *)
Hold(f, t) ==
    \A n \in DOMAIN f : \A i \in 1 .. Len(f[n].recs) :
        /\ n + i - 1 <= Len(t)
        /\ f[n].recs[i].lsn = n + i - 1 /\ f[n].recs[i].id = t[n + i - 1]

Sound(f, t, k) ==
    /\ FilesShape(f) /\ Chain(f) /\ CutOnes(f) /\ Hold(f, t) /\ \A n \in DOMAIN f : n <= k

(* The first a records outlive a crash of the process. *)
Reach(f, a) == a = 0 \/ \E n \in DOMAIN f : f[n].header = "ok" /\ a < End(f, n)

(* They outlive a power loss: every segment but the last is on stable      *)
(* storage, and of the last one as much as they need.  A file that is      *)
(* being created may disappear.                                            *)
OnDisk(f, n) == f[n].linked /\ f[n].hard >= 0

Firm(f) ==
    /\ \A n \in DOMAIN f : OnDisk(f, n) \/ (f[n].recs = <<>> /\ NotAlone(f, n))
    /\ \A m, n \in DOMAIN f : m < n => f[m].hard = Len(f[m].recs)

Stable(f, a) == a = 0 \/ \E n \in DOMAIN f : f[n].header = "ok" /\ a < n + f[n].hard

Safe(f, a) == IF Power THEN Firm(f) /\ Stable(f, a) ELSE Reach(f, a)

Good(f, t, k, a) == Sound(f, t, k) /\ Safe(f, a)

(* No file is half created, and no segment is cut. *)
Steady(f) == Power => \A n \in DOMAIN f : OnDisk(f, n)

Clean(f) == \A n \in DOMAIN f : f[n].header = "ok" /\ f[n].tail = "clean"

-----------------------------------------------------------------------------
(* Files.                                                                  *)

(* A log that goes on holds what it held. *)
LEMMA LongerLog ==
    ASSUME NEW f, NEW s \in Seq(Nat), NEW t \in Seq(Nat), NEW k, NEW a, Good(f, s, k, a),
           Len(s) <= Len(t), \A i \in 1 .. Len(s) : t[i] = s[i]
    PROVE  Good(f, t, k, a)
<1> SUFFICES Hold(f, t)
  BY DEF Good, Sound
<1> SUFFICES ASSUME NEW n \in DOMAIN f, NEW i \in 1 .. Len(f[n].recs)
             PROVE  /\ n + i - 1 <= Len(t)
                    /\ f[n].recs[i].lsn = n + i - 1 /\ f[n].recs[i].id = t[n + i - 1]
  BY DEF Hold
<1>1. /\ n + i - 1 <= Len(s)
      /\ f[n].recs[i].lsn = n + i - 1 /\ f[n].recs[i].id = s[n + i - 1]
  BY DEF Good, Sound, Hold
<1>2. n \in Nat \ {0} /\ i \in Nat \ {0}
  BY DEF Good, Sound, FilesShape, Segment
<1>3. Len(s) \in Nat /\ Len(t) \in Nat
  OBVIOUS
<1>4. n + i - 1 \in 1 .. Len(s)
  <2> HIDE DEF Hold
  <2> QED BY <1>1, <1>2, <1>3
<1>5. t[n + i - 1] = s[n + i - 1]
  BY <1>4
<1>6. n + i - 1 <= Len(t)
  BY <1>1, <1>2, <1>3
<1> QED BY <1>1, <1>5, <1>6

LEMMA HoldSame ==
    ASSUME NEW f, NEW t, Hold(f, t), NEW g, DOMAIN g \subseteq DOMAIN f,
           \A n \in DOMAIN g : g[n].recs = f[n].recs
    PROVE  Hold(g, t)
<1> SUFFICES ASSUME NEW n \in DOMAIN g, NEW i \in 1 .. Len(g[n].recs)
             PROVE  /\ n + i - 1 <= Len(t)
                    /\ g[n].recs[i].lsn = n + i - 1 /\ g[n].recs[i].id = t[n + i - 1]
  BY DEF Hold
<1>1. n \in DOMAIN f /\ g[n].recs = f[n].recs
  OBVIOUS
<1> QED BY <1>1 DEF Hold

(* What a crash leaves reaches to the last segment. *)
LEMMA ReachesLast ==
    ASSUME NEW f, NEW t, NEW k, NEW a \in Nat, Good(f, t, k, a), Steady(f),
           NEW l, Latest(f, l), f[l].header = "ok"
    PROVE  a < End(f, l) /\ (Power => a < l + f[l].hard)
<1>1. \A n \in DOMAIN f : n \in Nat \ {0} /\ f[n].hard \in Int /\ f[n].hard <= Len(f[n].recs) /\ Len(f[n].recs) \in Nat
  BY DEF Good, Sound, FilesShape, Segment
<1>3. l \in Nat \ {0} /\ l \in DOMAIN f
  BY <1>1 DEF Latest
<1>2. \A n \in DOMAIN f : n = l \/ (n < l /\ End(f, n) <= l)
  <2> SUFFICES ASSUME NEW n \in DOMAIN f, n # l PROVE n < l /\ End(f, n) <= l
    OBVIOUS
  <2>1. n < l
    BY <1>1, <1>3 DEF Latest
  <2> QED BY <1>3, <2>1 DEF Good, Sound, Chain
<1>4. CASE ~ Power
  <2>1. Reach(f, a)
    BY <1>4 DEF Good, Safe
  <2>2. CASE a = 0
    BY <1>1, <1>3, <1>4, <2>2 DEF End
  <2>3. ASSUME NEW n \in DOMAIN f, a < End(f, n) PROVE a < End(f, l)
    BY <1>1, <1>2, <1>3, <2>3 DEF End
  <2> QED BY <1>4, <2>1, <2>2, <2>3 DEF Reach
<1>5. CASE Power
  <2>1. Firm(f) /\ Stable(f, a)
    BY <1>5 DEF Good, Safe
  <2>2. a = 0 => a < l + f[l].hard
    <3>1. f[l].hard >= 0 /\ f[l].hard \in Int
      BY <1>1, <1>3, <1>5 DEF Steady, OnDisk
    <3> QED BY <1>3, <3>1
  <2>3. ASSUME NEW n \in DOMAIN f, a < n + f[n].hard PROVE a < l + f[l].hard
    <3>1. CASE n = l
      BY <2>3, <3>1
    <3>2. CASE n < l
      <4>1. f[n].hard = Len(f[n].recs)
        BY <1>3, <2>1, <3>2 DEF Firm
      <4>2. n + f[n].hard <= l /\ f[l].hard >= 0
        BY <1>2, <1>3, <1>5, <3>2, <4>1 DEF End, Steady, OnDisk
      <4> QED BY <1>1, <1>3, <2>3, <4>2
    <3> QED BY <1>2, <3>1, <3>2
  <2>4. a < l + f[l].hard
    BY <2>1, <2>2, <2>3 DEF Stable
  <2> QED BY <1>1, <1>3, <2>4 DEF End
<1> QED BY <1>4, <1>5

(* Segment n of f holds records of the log t. *)
HoldsAt(f, t, n) ==
    \A i \in 1 .. Len(f[n].recs) :
        /\ n + i - 1 <= Len(t)
        /\ f[n].recs[i].lsn = n + i - 1 /\ f[n].recs[i].id = t[n + i - 1]

(* The last segment may grow. *)
LEMMA LastGrows ==
    ASSUME NEW f, NEW t, NEW k, NEW a \in Nat, Good(f, t, k, a), Steady(f),
           NEW l, Latest(f, l), f[l].header = "ok",
           NEW g, g \in [DOMAIN f -> Segment], \A n \in DOMAIN f \ {l} : g[n] = f[n],
           g[l].header = "ok", Len(f[l].recs) <= Len(g[l].recs), HoldsAt(g, t, l),
           f[l].hard <= g[l].hard, g[l].hard <= Len(g[l].recs), f[l].linked => g[l].linked
    PROVE  Good(g, t, k, a) /\ Steady(g) /\ Latest(g, l)
<1>0. DOMAIN g = DOMAIN f /\ l \in DOMAIN f
  BY DEF Latest
<1>1. \A n \in DOMAIN f : n \in Nat \ {0} /\ f[n].hard \in -1 .. Len(f[n].recs) /\ Len(f[n].recs) \in Nat
  BY DEF Good, Sound, FilesShape, Segment
<1>2. \A n \in DOMAIN f : g[n].hard \in Int /\ Len(g[n].recs) \in Nat
  BY DEF Segment
<1>3. \A m, n \in DOMAIN f : m < n => m # l /\ g[m] = f[m]
  BY <1>0, <1>1 DEF Latest
<1>4. FilesShape(g)
  <2>1. \A n \in DOMAIN f : g[n].hard \in -1 .. Len(g[n].recs)
    BY <1>0, <1>1, <1>2
  <2> QED BY <1>0, <1>1, <2>1 DEF FilesShape
<1>5. Chain(g)
  BY <1>0, <1>3 DEF Good, Sound, Chain, End
<1>6. CutOnes(g)
  BY <1>0 DEF Good, Sound, CutOnes, NotAlone
<1>7. Hold(g, t)
  BY <1>0 DEF Good, Sound, Hold, HoldsAt
<1>8. Sound(g, t, k)
  BY <1>0, <1>4, <1>5, <1>6, <1>7 DEF Good, Sound
<1>9. a < End(f, l) /\ (Power => a < l + f[l].hard)
  BY ReachesLast
<1>10. CASE ~ Power
  <2>1. a < End(g, l)
    BY <1>0, <1>1, <1>2, <1>9 DEF End
  <2> QED BY <1>0, <1>8, <1>10, <2>1 DEF Good, Safe, Reach, Steady, Latest
<1>11. CASE Power
  <2>1. a < l + g[l].hard
    BY <1>0, <1>1, <1>2, <1>9, <1>11
  <2>2. Firm(f)
    BY <1>11 DEF Good, Safe
  <2>3. \A n \in DOMAIN g : OnDisk(g, n)
    BY <1>0, <1>1, <1>2, <1>11 DEF Steady, OnDisk
  <2>4. Firm(g)
    BY <1>0, <1>3, <2>2, <2>3 DEF Firm
  <2> QED BY <1>0, <1>8, <1>11, <2>1, <2>3, <2>4 DEF Good, Safe, Stable, Steady, Latest
<1> QED BY <1>10, <1>11

(* Records that go on where the last segment of f ends. *)
GoesOn(f, l, recs, t) ==
    /\ recs \in Seq(Record) /\ End(f, l) + Len(recs) <= Len(t) + 1
    /\ \A i \in 1 .. Len(recs) :
          recs[i].lsn = End(f, l) + i - 1 /\ recs[i].id = t[End(f, l) + i - 1]

(* The files after recs were written to segment l, or after a write of     *)
(* more than recs was cut.                                                 *)
Written(g, f, l, recs) ==
    \E y \in {"clean", "torn"} : g = Write(f, l, recs) \/ g = [Write(f, l, recs) EXCEPT ![l].tail = y]

LEMMA WriteKeeps ==
    ASSUME NEW f, NEW t \in Seq(Nat), NEW k, NEW a \in Nat, Good(f, t, k, a), Steady(f),
           NEW l, Latest(f, l), f[l].header = "ok", NEW recs, GoesOn(f, l, recs, t),
           NEW g, Written(g, f, l, recs)
    PROVE  /\ Good(g, t, k, a) /\ Steady(g) /\ Latest(g, l) /\ DOMAIN g = DOMAIN f
           /\ g[l].recs = f[l].recs \o recs /\ g[l].header = "ok" /\ g[l].hard = f[l].hard
           /\ End(g, l) = End(f, l) + Len(recs)
           /\ \A n \in DOMAIN f \ {l} : g[n] = f[n]
           /\ g = Write(f, l, recs) => g[l].tail = f[l].tail
<1>0. l \in DOMAIN f /\ f \in [DOMAIN f -> Segment] /\ f[l] \in Segment /\ l \in Nat \ {0}
  BY DEF Latest, Good, Sound, FilesShape
<1>1. f[l].recs \in Seq(Record) /\ recs \in Seq(Record) /\ f[l].hard \in Int
  BY <1>0 DEF Segment, GoesOn
<1>2. f[l].recs \o recs \in Seq(Record) /\ Len(f[l].recs \o recs) = Len(f[l].recs) + Len(recs)
  BY <1>1
<1>3. PICK y \in {"clean", "torn"} :
         \/ g = [f EXCEPT ![l].recs = @ \o recs]
         \/ g = [[f EXCEPT ![l].recs = @ \o recs] EXCEPT ![l].tail = y]
  BY DEF Write, Written
<1>4. /\ g \in [DOMAIN f -> Segment] /\ DOMAIN g = DOMAIN f /\ \A n \in DOMAIN f \ {l} : g[n] = f[n]
      /\ g[l].recs = f[l].recs \o recs /\ g[l].header = "ok" /\ g[l].hard = f[l].hard
      /\ g[l].linked = f[l].linked
      /\ g = Write(f, l, recs) => g[l].tail = f[l].tail
  <2> DEFINE w == [f EXCEPT ![l].recs = @ \o recs]
             seg == [f[l] EXCEPT !.recs = @ \o recs]
  <2>1. w = Write(f, l, recs)
    BY DEF Write
  <2>2. seg \in Segment /\ seg.recs = f[l].recs \o recs /\ seg.header = "ok" /\ seg.hard = f[l].hard
        /\ seg.linked = f[l].linked /\ seg.tail = f[l].tail
    BY <1>0, <1>2 DEF Segment
  <2>3. DOMAIN w = DOMAIN f /\ w[l] = seg /\ \A n \in DOMAIN f \ {l} : w[n] = f[n]
    BY <1>0
  <2>4. w \in [DOMAIN f -> Segment]
    BY <1>0, <2>2, <2>3
  <2> HIDE DEF seg
  <2>5. CASE g = w
    <3> HIDE DEF w
    <3> QED BY <2>1, <2>2, <2>3, <2>4, <2>5
  <2>6. CASE g = [w EXCEPT ![l].tail = y]
    <3> DEFINE cut == [seg EXCEPT !.tail = y]
    <3> HIDE DEF w
    <3>1. cut \in Segment /\ cut.recs = seg.recs /\ cut.header = "ok" /\ cut.hard = seg.hard
          /\ cut.linked = seg.linked
      BY <2>2 DEF Segment
    <3>2. DOMAIN g = DOMAIN f /\ g[l] = cut /\ \A n \in DOMAIN f \ {l} : g[n] = f[n]
      BY <1>0, <2>3, <2>4, <2>6
    <3>3. g \in [DOMAIN f -> Segment]
      BY <1>0, <2>3, <2>4, <2>6, <3>1, <3>2
    <3>4. g = w => g[l].tail = f[l].tail
      BY <2>2, <2>3
    <3> HIDE DEF cut
    <3> QED BY <2>1, <2>2, <3>1, <3>2, <3>3, <3>4
  <2> QED BY <1>3, <2>5, <2>6
<1>5. HoldsAt(g, t, l)
  <2> SUFFICES ASSUME NEW i \in 1 .. Len(g[l].recs)
               PROVE  /\ l + i - 1 <= Len(t)
                      /\ g[l].recs[i].lsn = l + i - 1 /\ g[l].recs[i].id = t[l + i - 1]
    BY DEF HoldsAt
  <2>0. Len(f[l].recs) \in Nat /\ Len(recs) \in Nat /\ Len(t) \in Nat /\ i \in Nat
    BY <1>1, <1>2, <1>4
  <2>1. CASE i <= Len(f[l].recs)
    <3>1. g[l].recs[i] = f[l].recs[i]
      BY <1>1, <1>4, <2>0, <2>1
    <3>2. i \in 1 .. Len(f[l].recs)
      BY <2>0, <2>1
    <3> QED BY <1>0, <3>1, <3>2 DEF Good, Sound, Hold
  <2>2. CASE i > Len(f[l].recs)
    <3> DEFINE j == i - Len(f[l].recs)
    <3>1. j \in 1 .. Len(recs)
      <4>1. i <= Len(f[l].recs) + Len(recs)
        BY <1>2, <1>4
      <4> QED BY <2>0, <2>2, <4>1
    <3>2. g[l].recs[i] = recs[j]
      BY <1>1, <1>2, <1>4, <2>0, <2>2
    <3>3. recs[j].lsn = End(f, l) + j - 1 /\ recs[j].id = t[End(f, l) + j - 1]
      BY <3>1 DEF GoesOn
    <3>4. End(f, l) + j - 1 = l + i - 1
      BY <1>0, <2>0 DEF End
    <3>5. l + i - 1 <= Len(t)
      <4>1. End(f, l) + Len(recs) <= Len(t) + 1 /\ End(f, l) = l + Len(f[l].recs)
        BY DEF GoesOn, End
      <4>2. i <= Len(f[l].recs) + Len(recs)
        BY <1>2, <1>4
      <4> QED BY <1>0, <2>0, <4>1, <4>2
    <3> QED BY <3>2, <3>3, <3>4, <3>5
  <2> QED BY <2>0, <2>1, <2>2
<1>6. Len(f[l].recs) <= Len(g[l].recs) /\ f[l].hard <= g[l].hard /\ g[l].hard <= Len(g[l].recs)
  <2>1. f[l].hard <= Len(f[l].recs)
    BY <1>0 DEF Good, Sound, FilesShape
  <2>2. Len(f[l].recs) \in Nat /\ Len(recs) \in Nat
    BY <1>1
  <2> QED BY <1>1, <1>2, <1>4, <2>1, <2>2
<1>7. Good(g, t, k, a) /\ Steady(g) /\ Latest(g, l)
  BY <1>4, <1>5, <1>6, LastGrows
<1>8. End(g, l) = End(f, l) + Len(recs)
  BY <1>0, <1>1, <1>2, <1>4 DEF End
<1> QED BY <1>4, <1>7, <1>8

(* Fsync: the last segment, and with it every record, is stable. *)
Flushed(g, f, l) ==
    /\ DOMAIN g = DOMAIN f /\ g[l].recs = f[l].recs /\ g[l].header = "ok" /\ g[l].tail = f[l].tail
    /\ g[l].hard = Len(g[l].recs) /\ End(g, l) = End(f, l)
    /\ \A n \in DOMAIN f \ {l} : g[n] = f[n]

LEMMA FsyncKeeps ==
    ASSUME NEW f, NEW t, NEW k, NEW a \in Nat, Good(f, t, k, a), Steady(f),
           NEW l, Latest(f, l), f[l].header = "ok", NEW b \in Nat, b < End(f, l),
           NEW g, g = Fsync(f, l)
    PROVE  Good(g, t, k, b) /\ Steady(g) /\ Latest(g, l) /\ Flushed(g, f, l)
<1> DEFINE seg == [f[l] EXCEPT !.hard = Len(f[l].recs)]
<1>0. l \in DOMAIN f /\ f \in [DOMAIN f -> Segment] /\ f[l] \in Segment /\ l \in Nat \ {0}
  BY DEF Latest, Good, Sound, FilesShape
<1>1. Len(f[l].recs) \in Nat /\ f[l].hard \in Int /\ f[l].hard <= Len(f[l].recs)
  BY <1>0 DEF Segment, Good, Sound, FilesShape
<1>2. /\ seg \in Segment /\ seg.recs = f[l].recs /\ seg.header = "ok" /\ seg.tail = f[l].tail
      /\ seg.hard = Len(f[l].recs) /\ seg.linked = f[l].linked
  <2> DEFINE x == Len(f[l].recs)
  <2>1. x \in Int
    BY <1>1
  <2> HIDE DEF x
  <2>2. /\ [f[l] EXCEPT !.hard = x] \in Segment /\ [f[l] EXCEPT !.hard = x].recs = f[l].recs
        /\ [f[l] EXCEPT !.hard = x].header = "ok" /\ [f[l] EXCEPT !.hard = x].tail = f[l].tail
        /\ [f[l] EXCEPT !.hard = x].hard = x /\ [f[l] EXCEPT !.hard = x].linked = f[l].linked
    BY <1>0, <2>1 DEF Segment
  <2> QED BY <2>2 DEF x
<1>3. DOMAIN g = DOMAIN f /\ g[l] = seg /\ \A n \in DOMAIN f \ {l} : g[n] = f[n]
  BY <1>0 DEF Fsync
<1>4. g \in [DOMAIN f -> Segment]
  BY <1>0, <1>2, <1>3 DEF Fsync
<1> HIDE DEF seg
<1>5. HoldsAt(g, t, l)
  <2>1. HoldsAt(f, t, l)
    BY <1>0 DEF HoldsAt, Good, Sound, Hold
  <2>2. g[l].recs = f[l].recs
    BY <1>2, <1>3
  <2> QED BY <2>1, <2>2 DEF HoldsAt
<1>6. Good(g, t, k, a) /\ Steady(g) /\ Latest(g, l)
  BY <1>0, <1>1, <1>2, <1>3, <1>4, <1>5, LastGrows
<1>7. Safe(g, b)
  <2>1. b < l + g[l].hard /\ b < End(g, l)
    BY <1>2, <1>3 DEF End
  <2> QED BY <1>0, <1>2, <1>3, <1>6, <2>1 DEF Good, Safe, Stable, Reach
<1>8. Good(g, t, k, b)
  BY <1>6, <1>7 DEF Good
<1>9. End(g, l) = End(f, l)
  BY <1>2, <1>3 DEF End
<1> QED BY <1>2, <1>3, <1>6, <1>8, <1>9 DEF Flushed

(* Segment l is full, and segment n may follow it. *)
Full(f, t, k, a, l, n) ==
    /\ Good(f, t, k, a) /\ Steady(f) /\ Clean(f) /\ Latest(f, l)
    /\ n = End(f, l) /\ n \notin DOMAIN f /\ n <= k
    /\ Power => f[l].hard = Len(f[l].recs)

Blank(seg) == seg \in Segment /\ seg.recs = <<>> /\ seg.tail = "clean" /\ seg.hard \in {-1, 0}

(* A new segment after the last one. *)
LEMMA AddKeeps ==
    ASSUME NEW f, NEW t, NEW k, NEW a \in Nat, NEW l, NEW n, Full(f, t, k, a, l, n), NEW seg, Blank(seg),
           NEW g, g = Put(f, n, seg)
    PROVE  /\ Good(g, t, k, a) /\ Latest(g, n) /\ DOMAIN g = DOMAIN f \cup {n}
           /\ g[n] = seg /\ \A m \in DOMAIN f : g[m] = f[m]
<1> USE DEF Full, Blank
<1>0. /\ l \in DOMAIN f /\ f \in [DOMAIN f -> Segment] /\ f[l] \in Segment /\ l \in Nat \ {0}
      /\ f[l].header = "ok"
  BY DEF Latest, Good, Sound, FilesShape, Clean
<1>1. \A m \in DOMAIN f : /\ m \in Nat \ {0} /\ Len(f[m].recs) \in Nat
                           /\ f[m].hard \in -1 .. Len(f[m].recs)
  BY DEF Segment, Good, Sound, FilesShape
<1>2. n \in Nat \ {0} /\ l < n /\ \A m \in DOMAIN f : m < n
  <2>1. n \in Nat /\ l <= n /\ n # l
    BY <1>0, <1>1 DEF End
  <2> QED BY <1>0, <1>1, <2>1 DEF Latest
<1>3. Len(seg.recs) = 0
  OBVIOUS
<1>4. DOMAIN g = DOMAIN f \cup {n} /\ g[n] = seg /\ \A m \in DOMAIN f : g[m] = f[m]
  BY DEF Put
<1>5. g \in [DOMAIN g -> Segment]
  BY <1>0, <1>4 DEF Put
<1>6. FilesShape(g)
  BY <1>1, <1>2, <1>3, <1>4, <1>5 DEF FilesShape
<1>7. \A m \in DOMAIN f : End(g, m) = End(f, m) /\ m < End(f, m) /\ End(f, m) <= n
                         /\ End(f, m) \in DOMAIN g
  <2> SUFFICES ASSUME NEW m \in DOMAIN f
               PROVE  m < End(f, m) /\ End(f, m) <= n /\ End(f, m) \in DOMAIN g
    BY <1>4 DEF End
  <2>1. CASE m = l
    BY <1>0, <1>1, <1>2, <1>4, <2>1 DEF End
  <2>2. CASE m # l
    <3>1. m < l
      BY <1>0, <1>1, <2>2 DEF Latest
    <3>2. m < End(f, m) /\ End(f, m) <= l /\ End(f, m) \in DOMAIN f
      BY <1>0, <3>1 DEF Good, Sound, Chain
    <3>3. End(f, m) \in Nat
      BY <1>1 DEF End
    <3> QED BY <1>0, <1>2, <1>4, <3>2, <3>3
  <2> QED BY <2>1, <2>2
<1>8. Chain(g)
  <2> SUFFICES ASSUME NEW m \in DOMAIN g, NEW o \in DOMAIN g, m < o
               PROVE  /\ m < End(g, m) /\ End(g, m) <= o /\ End(g, m) \in DOMAIN g
                      /\ g[m].header = "ok" /\ g[m].tail = "clean"
    BY DEF Chain
  <2>1. m \in DOMAIN f
    <3>1. m # n
      BY <1>1, <1>2, <1>4
    <3> QED BY <1>4, <3>1
  <2>2. End(g, m) <= o
    <3>1. CASE o = n
      BY <1>7, <2>1, <3>1
    <3>2. CASE o \in DOMAIN f
      BY <1>7, <2>1, <3>2 DEF Good, Sound, Chain
    <3> QED BY <1>4, <3>1, <3>2
  <2> QED BY <1>4, <1>7, <2>1, <2>2 DEF Clean
<1>9. NotAlone(g, n)
  BY <1>0, <1>2, <1>4 DEF NotAlone
<1>10. CutOnes(g)
  BY <1>4, <1>9 DEF CutOnes, Clean
<1>11. Hold(g, t)
  <2>1. \A i \in 1 .. Len(g[n].recs) : FALSE
    BY <1>3, <1>4
  <2>2. \A m \in DOMAIN g : m = n \/ (m \in DOMAIN f /\ g[m] = f[m])
    BY <1>4
  <2> QED BY <2>1, <2>2 DEF Hold, Good, Sound
<1>12. Latest(g, n)
  BY <1>1, <1>2, <1>4 DEF Latest
<1>13. Sound(g, t, k)
  BY <1>4, <1>6, <1>8, <1>10, <1>11 DEF Sound, Good
<1>14. ASSUME ~ Power PROVE Good(g, t, k, a)
  <2>1. Reach(g, a)
    BY <1>4, <1>7, <1>14 DEF Good, Safe, Reach
  <2> QED BY <1>13, <1>14, <2>1 DEF Good, Safe
<1>15. ASSUME Power PROVE Good(g, t, k, a)
  <2>1. Firm(f) /\ Stable(f, a) /\ \A m \in DOMAIN f : OnDisk(f, m)
    BY <1>15 DEF Good, Safe, Steady
  <2>2. Stable(g, a)
    BY <1>4, <2>1 DEF Stable
  <2>3. \A m \in DOMAIN g : OnDisk(g, m) \/ (g[m].recs = <<>> /\ NotAlone(g, m))
    BY <1>3, <1>4, <1>9, <2>1 DEF OnDisk
  <2>4. \A m \in DOMAIN f : f[m].hard = Len(f[m].recs)
    <3> SUFFICES ASSUME NEW m \in DOMAIN f, m # l PROVE f[m].hard = Len(f[m].recs)
      BY <1>15
    <3>1. m < l
      BY <1>0, <1>1 DEF Latest
    <3> QED BY <1>0, <2>1, <3>1 DEF Firm
  <2>5. Firm(g)
    <3> SUFFICES ASSUME NEW m \in DOMAIN g, NEW o \in DOMAIN g, m < o
                 PROVE  g[m].hard = Len(g[m].recs)
      BY <2>3 DEF Firm
    <3>1. m # n
      BY <1>1, <1>2, <1>4
    <3> QED BY <1>4, <2>4, <3>1
  <2> QED BY <1>13, <1>15, <2>2, <2>5 DEF Good, Safe
<1>16. Good(g, t, k, a)
  BY <1>14, <1>15
<1> QED BY <1>4, <1>12, <1>16

Linked(g, f) ==
    /\ DOMAIN g = DOMAIN f
    /\ \A n \in DOMAIN f : /\ g[n].recs = f[n].recs /\ g[n].header = f[n].header
                          /\ g[n].tail = f[n].tail /\ g[n].hard = f[n].hard
                          /\ g[n].linked = TRUE

LEMMA LinkKeeps ==
    ASSUME NEW f, NEW t, NEW k, NEW a \in Nat, Good(f, t, k, a), NEW g, g = SyncDirectory(f)
    PROVE  Good(g, t, k, a) /\ (Steady(f) => Steady(g)) /\ Linked(g, f)
<1>1. f \in [DOMAIN f -> Segment]
  BY DEF Good, Sound, FilesShape
<1>2. DOMAIN g = DOMAIN f /\ \A n \in DOMAIN f : g[n] = [f[n] EXCEPT !.linked = TRUE]
  BY DEF SyncDirectory
<1>3. ASSUME NEW n \in DOMAIN f
      PROVE  /\ g[n] \in Segment /\ g[n].recs = f[n].recs /\ g[n].header = f[n].header
             /\ g[n].tail = f[n].tail /\ g[n].hard = f[n].hard /\ g[n].linked = TRUE
  <2>1. f[n] \in Segment
    BY <1>1
  <2> QED BY <1>2, <2>1 DEF Segment
<1>4. g \in [DOMAIN f -> Segment]
  BY <1>2, <1>3 DEF SyncDirectory
<1>5. FilesShape(g)
  BY <1>2, <1>3, <1>4 DEF FilesShape, Good, Sound
<1>6. Chain(g)
  BY <1>2, <1>3 DEF Chain, End, Good, Sound
<1>7. CutOnes(g)
  BY <1>2, <1>3 DEF CutOnes, NotAlone, Good, Sound
<1>8. Hold(g, t)
  <2> SUFFICES ASSUME NEW n \in DOMAIN f, NEW i \in 1 .. Len(f[n].recs)
               PROVE  /\ n + i - 1 <= Len(t)
                      /\ f[n].recs[i].lsn = n + i - 1 /\ f[n].recs[i].id = t[n + i - 1]
    <3>1. \A n \in DOMAIN f : g[n].recs = f[n].recs
      BY <1>3
    <3> QED BY <1>2, <3>1 DEF Hold
  <2> QED BY DEF Hold, Good, Sound
<1>9. Safe(g, a)
  <2>1. CASE ~ Power
    BY <1>2, <1>3, <2>1 DEF Good, Safe, Reach, End
  <2>2. CASE Power
    <3>1. Firm(f) /\ Stable(f, a)
      BY <2>2 DEF Good, Safe
    <3>2. Firm(g)
      BY <1>2, <1>3, <3>1 DEF Firm, OnDisk, NotAlone
    <3>3. Stable(g, a)
      BY <1>2, <1>3, <3>1 DEF Stable
    <3> QED BY <2>2, <3>2, <3>3 DEF Safe
  <2> QED BY <2>1, <2>2
<1>10. Good(g, t, k, a)
  BY <1>2, <1>5, <1>6, <1>7, <1>8, <1>9 DEF Good, Sound
<1>11. Steady(f) => Steady(g)
  BY <1>2, <1>3 DEF Steady, OnDisk
<1> QED BY <1>2, <1>3, <1>10, <1>11 DEF Linked

(* g has a new segment n besides those of f. *)
Extended(g, f, n) == DOMAIN g = DOMAIN f \cup {n} /\ g[n].recs = <<>>

LEMMA CreateKeeps ==
    ASSUME NEW f, NEW t, NEW k, NEW a \in Nat, NEW l, NEW n, Full(f, t, k, a, l, n),
           Power => Durable, NEW b \in Nat, b < n, NEW g, g = WithSegment(f, n)
    PROVE  Good(g, t, k, b) /\ Steady(g) /\ Clean(g) /\ Latest(g, n) /\ Extended(g, f, n)
<1> DEFINE hard == IF Durable THEN 0 ELSE -1
           seg == IF Durable THEN NewSegment("ok", 0, TRUE) ELSE NewSegment("ok", -1, FALSE)
           p == Put(f, n, seg)
<1>2. /\ seg.recs = <<>> /\ seg.header = "ok" /\ seg.tail = "clean" /\ seg.hard = hard
      /\ seg \in Segment /\ hard \in {-1, 0}
  BY DEF NewSegment, Segment
<1>1. /\ Good(p, t, k, a) /\ Latest(p, n) /\ DOMAIN p = DOMAIN f \cup {n} /\ p[n] = seg
      /\ \A m \in DOMAIN f : p[m] = f[m]
  <2>1. Blank(seg)
    <3> HIDE DEF seg
    <3> QED BY <1>2 DEF Blank
  <2> HIDE DEF seg
  <2>2. p = Put(f, n, seg)
    OBVIOUS
  <2> HIDE DEF p
  <2>3. Good(p, t, k, a) /\ Latest(p, n)
    BY <2>1, <2>2, AddKeeps
  <2>4. n \notin DOMAIN f
    BY DEF Full
  <2>5. DOMAIN p = DOMAIN f \cup {n} /\ p[n] = seg /\ \A m \in DOMAIN f : p[m] = f[m]
    BY <2>2, <2>4 DEF Put
  <2> QED BY <2>3, <2>5
<1> HIDE DEF seg, p
<1>3. /\ g = (IF Durable THEN SyncDirectory(p) ELSE p)
  BY DEF WithSegment, p, seg
<1> HIDE DEF hard
<1>4. /\ Good(g, t, k, a) /\ DOMAIN g = DOMAIN p
      /\ \A m \in DOMAIN p : /\ g[m].recs = p[m].recs /\ g[m].header = p[m].header
                            /\ g[m].tail = p[m].tail /\ g[m].hard = p[m].hard
      /\ Durable => \A m \in DOMAIN p : g[m].linked
  <2>1. CASE Durable
    <3> DEFINE e == SyncDirectory(p)
    <3>1. /\ Good(e, t, k, a) /\ DOMAIN e = DOMAIN p
          /\ \A m \in DOMAIN p : /\ e[m].recs = p[m].recs /\ e[m].header = p[m].header
                                /\ e[m].tail = p[m].tail /\ e[m].hard = p[m].hard
                                /\ e[m].linked = TRUE
      <4>1. e = SyncDirectory(p)
        OBVIOUS
      <4> HIDE DEF e, p
      <4>2. Good(e, t, k, a) /\ Linked(e, p)
        BY <1>1, <4>1, LinkKeeps
      <4> QED BY <4>2 DEF Linked
    <3>2. g = e
      BY <1>3, <2>1
    <3> HIDE DEF e
    <3> QED BY <3>1, <3>2
  <2>2. CASE ~ Durable
    BY <1>1, <1>3, <2>2
  <2> QED BY <2>1, <2>2
<1>5. Clean(g)
  BY <1>1, <1>2, <1>4 DEF Full, Clean
<1>6. Latest(g, n)
  BY <1>1, <1>4 DEF Latest
<1>7. n \in DOMAIN g /\ g[n].recs = <<>> /\ g[n].header = "ok" /\ g[n].hard = hard
  BY <1>1, <1>2, <1>4
<1>8. Power => hard = 0
  BY DEF hard
<1>9. Steady(g)
  <2> SUFFICES ASSUME Power, NEW m \in DOMAIN g PROVE OnDisk(g, m)
    BY DEF Steady
  <2>1. g[m].linked
    BY <1>4
  <2>2. CASE m = n
    BY <1>7, <1>8, <2>1, <2>2 DEF OnDisk
  <2>3. CASE m \in DOMAIN f
    <3>1. f[m].hard >= 0
      BY <2>3 DEF Full, Steady, OnDisk
    <3>2. g[m].hard = f[m].hard
      BY <1>1, <1>4, <2>3
    <3> QED BY <2>1, <3>1, <3>2 DEF OnDisk
  <2> QED BY <1>1, <1>4, <2>2, <2>3
<1>10. n \in Nat
  BY <1>4, <1>7 DEF Good, Sound, FilesShape
<1>11. End(g, n) = n
  BY <1>7, <1>10 DEF End
<1>12. Safe(g, b)
  <2>1. CASE ~ Power
    BY <1>7, <1>11, <2>1 DEF Safe, Reach
  <2>2. CASE Power
    <3>1. b < n + g[n].hard
      BY <1>7, <1>8, <1>10, <2>2
    <3> QED BY <1>4, <1>7, <2>2, <3>1 DEF Good, Safe, Stable
  <2> QED BY <2>1, <2>2
<1>13. Good(g, t, k, b)
  BY <1>4, <1>12 DEF Good
<1> QED BY <1>1, <1>4, <1>5, <1>6, <1>7, <1>9, <1>13 DEF Extended

(* The oldest segments may go. *)
LEMMA RemoveKeeps ==
    ASSUME NEW f, NEW t, NEW k, NEW a \in Nat, Good(f, t, k, a), Steady(f), Clean(f),
           NEW l, Latest(f, l), NEW S, l \notin S,
           \A m \in DOMAIN f, n \in S : m < n => m \in S,
           NEW g, g = Restrict(f, DOMAIN f \ S)
    PROVE  Good(g, t, k, a) /\ Steady(g) /\ Clean(g) /\ Latest(g, l)
<1>1. DOMAIN g = DOMAIN f \ S /\ \A n \in DOMAIN g : n \in DOMAIN f /\ g[n] = f[n]
  BY DEF Restrict
<1>2. g \in [DOMAIN g -> Segment]
  BY <1>1 DEF Restrict, Good, Sound, FilesShape
<1>3. FilesShape(g)
  BY <1>1, <1>2 DEF Good, Sound, FilesShape
<1>4. Chain(g)
  <2> SUFFICES ASSUME NEW m \in DOMAIN g, NEW n \in DOMAIN g, m < n
               PROVE  /\ m < End(g, m) /\ End(g, m) <= n /\ End(g, m) \in DOMAIN g
                      /\ g[m].header = "ok" /\ g[m].tail = "clean"
    BY DEF Chain
  <2>1. /\ m < End(f, m) /\ End(f, m) <= n /\ End(f, m) \in DOMAIN f
        /\ f[m].header = "ok" /\ f[m].tail = "clean"
    BY <1>1 DEF Good, Sound, Chain
  <2>2. End(g, m) = End(f, m)
    BY <1>1 DEF End
  <2>3. End(f, m) \notin S
    BY <1>1, <2>1
  <2> QED BY <1>1, <2>1, <2>2, <2>3
<1>5. Clean(g)
  BY <1>1 DEF Clean
<1>6. CutOnes(g)
  BY <1>5 DEF Clean, CutOnes
<1>7. Hold(g, t)
  BY <1>1, HoldSame DEF Good, Sound
<1>8. Sound(g, t, k)
  BY <1>1, <1>3, <1>4, <1>6, <1>7 DEF Good, Sound
<1>9. Steady(g)
  BY <1>1 DEF Steady, OnDisk
<1>10. Latest(g, l)
  BY <1>1 DEF Latest
<1>11. l \in DOMAIN g /\ g[l] = f[l] /\ f[l].header = "ok"
  BY <1>1, <1>10 DEF Latest, Clean
<1>12. a < End(f, l) /\ (Power => a < l + f[l].hard)
  BY <1>11, ReachesLast
<1>13. Safe(g, a)
  <2>1. CASE ~ Power
    BY <1>11, <1>12, <2>1 DEF Safe, Reach, End
  <2>2. CASE Power
    <3>1. Stable(g, a)
      BY <1>11, <1>12, <2>2 DEF Stable
    <3>2. Firm(g)
      BY <1>1, <1>9, <2>2 DEF Steady, Good, Safe, Firm
    <3> QED BY <2>2, <3>1, <3>2 DEF Safe
  <2> QED BY <2>1, <2>2
<1> QED BY <1>5, <1>8, <1>9, <1>10, <1>13 DEF Good

(* The segment below n that n follows. *)
LEMMA Before ==
    ASSUME NEW f, NEW t, NEW k, Sound(f, t, k), NEW n \in DOMAIN f, NEW o \in DOMAIN f, o < n
    PROVE  \E m \in DOMAIN f : m < n /\ End(f, m) = n /\ \A x \in DOMAIN f : x < n => x <= m
<1> DEFINE S == {m \in DOMAIN f : m < n}
<1>0. \A m \in DOMAIN f : m \in Nat \ {0} /\ Len(f[m].recs) \in Nat
  BY DEF Sound, FilesShape, Segment
<1>1. S \in SUBSET Nat /\ S # {} /\ \A m \in S : m <= n
  BY <1>0
<1>2. n \in Nat
  BY <1>0
<1>3. PICK m \in S : \A x \in S : x <= m
  <2> HIDE DEF S
  <2> QED BY <1>1, <1>2, Greatest
<1>4. m < End(f, m) /\ End(f, m) <= n /\ End(f, m) \in DOMAIN f
  BY DEF Sound, Chain
<1>5. End(f, m) = n
  <2>1. ~ (End(f, m) < n)
    BY <1>0, <1>3, <1>4
  <2>2. End(f, m) \in Nat
    BY <1>0, <1>4
  <2> QED BY <1>2, <1>4, <2>1, <2>2
<1> QED BY <1>3, <1>5

(* What power loss may leave of a segment. *)
CutOf(c, seg) ==
    /\ c \in Segment /\ c.linked /\ c.hard = Len(c.recs)
    /\ Len(c.recs) <= Len(seg.recs) /\ seg.hard <= Len(c.recs)
    /\ \A i \in 1 .. Len(c.recs) : c.recs[i] = seg.recs[i]
    /\ c.header = seg.header \/ (c.header = "cut" /\ seg.hard = -1 /\ c.recs = <<>>)
    /\ Len(c.recs) = Len(seg.recs) /\ seg.tail = "clean" => c.tail = "clean"

LEMMA CutsAre ==
    ASSUME NEW seg \in Segment, seg.hard \in -1 .. Len(seg.recs), NEW c \in Cuts(seg)
    PROVE  CutOf(c, seg)
<1>0. seg.recs \in Seq(Record) /\ Len(seg.recs) \in Nat
  BY DEF Segment
<1>1. ASSUME NEW j \in 0 .. Len(seg.recs), j >= seg.hard, NEW y \in CutTails(seg, j),
             c = CutAt(seg, j, y)
      PROVE  CutOf(c, seg)
  <2> DEFINE r == SubSeq(seg.recs, 1, j)
  <2>0. j \in Nat /\ j \in Int /\ j <= Len(seg.recs)
    BY <1>0
  <2>1. r \in Seq(Record) /\ Len(r) = j /\ \A i \in 1 .. j : r[i] = seg.recs[i]
    BY <1>0, <2>0
  <2>2. y \in {"clean", "torn"} /\ (j = Len(seg.recs) /\ seg.tail = "clean" => y = "clean")
    BY DEF CutTails, Segment
  <2>3. c = [seg EXCEPT !.recs = r, !.tail = y, !.hard = j, !.linked = TRUE]
    BY <1>1 DEF CutAt
  <2> HIDE DEF r
  <2>4. /\ c \in Segment /\ c.linked = TRUE /\ c.hard = j /\ c.recs = r /\ c.tail = y
        /\ c.header = seg.header
    BY <2>0, <2>1, <2>2, <2>3 DEF Segment
  <2> QED BY <1>1, <2>0, <2>1, <2>2, <2>4 DEF CutOf
<1>2. ASSUME seg.hard = -1, c = NewSegment("cut", 0, TRUE)
      PROVE  CutOf(c, seg)
  <2>1. /\ c \in Segment /\ c.linked = TRUE /\ c.hard = 0 /\ c.recs = <<>> /\ c.tail = "clean"
        /\ c.header = "cut"
    BY <1>2 DEF Segment, NewSegment
  <2>2. Len(c.recs) = 0
    BY <2>1
  <2>3. \A i \in 1 .. Len(c.recs) : c.recs[i] = seg.recs[i]
    BY <2>2
  <2>4. Len(c.recs) <= Len(seg.recs) /\ seg.hard <= Len(c.recs)
    <3>1. 0 <= Len(seg.recs) /\ -1 <= 0
      BY <1>0
    <3> QED BY <1>2, <2>2, <3>1
  <2> QED BY <1>2, <2>1, <2>2, <2>3, <2>4 DEF CutOf
<1>3. \/ \E j \in {i \in 0 .. Len(seg.recs) : i >= seg.hard} : \E y \in CutTails(seg, j) : c = CutAt(seg, j, y)
      \/ c \in (IF seg.hard = -1 THEN {NewSegment("cut", 0, TRUE)} ELSE {})
  BY DEF Cuts
<1>4. CASE c \in (IF seg.hard = -1 THEN {NewSegment("cut", 0, TRUE)} ELSE {})
  BY <1>2, <1>4
<1> QED BY <1>1, <1>3, <1>4

(* Files of which the power may have taken what was not stable. *)
LEMMA PowerLoss ==
    ASSUME NEW f, NEW t, NEW k, NEW a \in Nat, Good(f, t, k, a), Power, NEW l, Latest(f, l),
           NEW g, DOMAIN g \subseteq DOMAIN f, \A n \in DOMAIN f : f[n].linked => n \in DOMAIN g,
           g \in [DOMAIN g -> Segment], \A n \in DOMAIN g : CutOf(g[n], f[n])
    PROVE  Good(g, t, k, a) /\ Steady(g)
<1>0. l \in DOMAIN f /\ \A n \in DOMAIN f : n <= l
  BY DEF Latest
<1>1. \A n \in DOMAIN f : /\ n \in Nat \ {0} /\ f[n].recs \in Seq(Record) /\ Len(f[n].recs) \in Nat
                           /\ f[n].hard \in -1 .. Len(f[n].recs)
  BY DEF Segment, Good, Sound, FilesShape
<1>2. Firm(f) /\ Stable(f, a) /\ Sound(f, t, k)
  BY DEF Good, Safe
<1>3. \A n \in DOMAIN g : /\ g[n].recs \in Seq(Record) /\ Len(g[n].recs) \in Nat
                           /\ g[n].hard = Len(g[n].recs) /\ g[n].linked
                           /\ Len(g[n].recs) <= Len(f[n].recs)
  BY DEF CutOf, Segment
<1>4. ASSUME NEW n \in DOMAIN f, n < l
      PROVE  /\ n \in DOMAIN g /\ g[n].header = "ok" /\ g[n].tail = "clean" /\ End(g, n) = End(f, n)
             /\ n < End(f, n) /\ End(f, n) <= l /\ End(f, n) \in DOMAIN f
  <2>1. /\ n < End(f, n) /\ End(f, n) <= l /\ End(f, n) \in DOMAIN f
        /\ f[n].header = "ok" /\ f[n].tail = "clean"
    BY <1>0, <1>2, <1>4 DEF Sound, Chain
  <2>2. f[n].hard = Len(f[n].recs)
    BY <1>0, <1>2, <1>4 DEF Firm
  <2>3. f[n].recs # <<>>
    <3>1. Len(f[n].recs) # 0
      BY <1>1, <2>1 DEF End
    <3> QED BY <3>1
  <2>4. n \in DOMAIN g
    BY <1>2, <2>3 DEF Firm, OnDisk
  <2>5. CutOf(g[n], f[n])
    BY <2>4
  <2>6. Len(g[n].recs) = Len(f[n].recs)
    BY <1>1, <1>3, <2>2, <2>4, <2>5 DEF CutOf
  <2>7. g[n].header = "ok" /\ g[n].tail = "clean"
    BY <1>1, <2>1, <2>2, <2>5, <2>6 DEF CutOf
  <2> QED BY <2>1, <2>4, <2>6, <2>7 DEF End
<1>5. \A n \in DOMAIN f : n = l \/ n < l
  BY <1>0, <1>1
<1>6. FilesShape(g)
  BY <1>1, <1>3 DEF FilesShape
<1>7. Chain(g)
  <2> SUFFICES ASSUME NEW m \in DOMAIN g, NEW n \in DOMAIN g, m < n
               PROVE  /\ m < End(g, m) /\ End(g, m) <= n /\ End(g, m) \in DOMAIN g
                      /\ g[m].header = "ok" /\ g[m].tail = "clean"
    BY DEF Chain
  <2>0. m \in Nat /\ n \in Nat /\ l \in Nat
    BY <1>0, <1>1
  <2>1. m < l
    BY <1>0, <2>0
  <2>2. End(f, m) <= n /\ End(f, m) \in DOMAIN f
    BY <1>2 DEF Sound, Chain
  <2>3. End(f, m) \in DOMAIN g
    <3>1. CASE End(f, m) = l
      <4>1. n = l
        BY <1>0, <2>0, <2>2, <3>1
      <4> QED BY <3>1, <4>1
    <3>2. CASE End(f, m) < l
      BY <1>4, <2>2, <3>2
    <3> QED BY <1>5, <2>2, <3>1, <3>2
  <2>4. /\ g[m].header = "ok" /\ g[m].tail = "clean" /\ End(g, m) = End(f, m) /\ m < End(f, m)
    BY <1>4, <2>1
  <2> QED BY <2>2, <2>3, <2>4
<1>8. CutOnes(g)
  <2> SUFFICES ASSUME NEW n \in DOMAIN g, g[n].header = "cut"
               PROVE  g[n].recs = <<>> /\ NotAlone(g, n)
    BY DEF CutOnes
  <2>1. n = l
    BY <1>4, <1>5
  <2>2. f[n].recs = <<>> /\ NotAlone(f, n)
    <3>1. CASE f[n].header = "cut"
      BY <1>2, <3>1 DEF Sound, CutOnes
    <3>2. CASE f[n].hard = -1
      <4>1. ~ OnDisk(f, n)
        BY <3>2 DEF OnDisk
      <4> QED BY <1>2, <4>1 DEF Firm
    <3> QED BY <3>1, <3>2 DEF CutOf
  <2>3. Len(f[n].recs) = 0
    BY <2>2
  <2>4. Len(g[n].recs) = 0
    BY <1>3, <2>3
  <2>5. g[n].recs = <<>>
    BY <1>3, <2>4
  <2> QED BY <1>4, <2>1, <2>2, <2>5 DEF NotAlone
<1>9. Hold(g, t)
  <2> SUFFICES ASSUME NEW n \in DOMAIN g, NEW i \in 1 .. Len(g[n].recs)
               PROVE  /\ n + i - 1 <= Len(t)
                      /\ g[n].recs[i].lsn = n + i - 1 /\ g[n].recs[i].id = t[n + i - 1]
    BY DEF Hold
  <2>1. i \in 1 .. Len(f[n].recs)
    BY <1>1, <1>3
  <2>2. g[n].recs[i] = f[n].recs[i]
    BY DEF CutOf
  <2> QED BY <1>2, <2>1, <2>2 DEF Sound, Hold
<1>10. Sound(g, t, k)
  BY <1>2, <1>6, <1>7, <1>8, <1>9 DEF Sound
<1>11. \A n \in DOMAIN g : OnDisk(g, n)
  BY <1>3 DEF OnDisk
<1>12. Firm(g)
  BY <1>3, <1>11 DEF Firm
<1>13. Stable(g, a)
  <2>0. a = 0 \/ \E n \in DOMAIN f : f[n].header = "ok" /\ a < n + f[n].hard
    BY <1>2 DEF Stable
  <2>1. CASE a = 0
    BY <2>1 DEF Stable
  <2>2. ASSUME NEW n \in DOMAIN g, g[n].header = "ok", a < n + f[n].hard
        PROVE  Stable(g, a)
    <3>1. f[n].hard <= Len(g[n].recs)
      BY DEF CutOf
    <3>2. a < n + g[n].hard
      BY <1>1, <1>3, <2>2, <3>1
    <3> QED BY <2>2, <3>2 DEF Stable
  <2>3. ASSUME NEW n \in DOMAIN f, f[n].header = "ok", a < n + f[n].hard, a # 0,
               n \notin DOMAIN g \/ g[n].header # "ok"
        PROVE  Stable(g, a)
    <3>1. n = l
      BY <1>4, <1>5, <2>3
    <3>2. ~ OnDisk(f, n)
      <4>1. CASE n \notin DOMAIN g
        BY <4>1 DEF OnDisk
      <4>2. CASE n \in DOMAIN g
        <5>1. f[n].hard = -1
          BY <2>3, <4>2 DEF CutOf
        <5> QED BY <5>1 DEF OnDisk
      <4> QED BY <4>1, <4>2
    <3>3. f[n].recs = <<>> /\ NotAlone(f, n)
      BY <1>2, <3>2 DEF Firm
    <3>4. Len(f[n].recs) = 0
      BY <3>3
    <3>5. f[n].hard <= 0 /\ f[n].hard \in Int
      BY <1>1, <3>4
    <3>6. n # 1
      BY <1>1, <2>3, <3>5
    <3>7. PICK o \in DOMAIN f : o < n
      BY <3>3, <3>6 DEF NotAlone
    <3>8. PICK m \in DOMAIN f : m < n /\ End(f, m) = n
      BY <1>2, <3>7, Before
    <3>9. m \in DOMAIN g /\ g[m].header = "ok" /\ End(g, m) = n
      BY <1>4, <3>1, <3>8
    <3>10. m + g[m].hard = n
      BY <1>3, <3>9 DEF End
    <3>11. a < m + g[m].hard
      BY <1>1, <2>3, <3>5, <3>10
    <3> QED BY <3>9, <3>11 DEF Stable
  <2> QED BY <2>0, <2>1, <2>2, <2>3
<1> QED BY <1>10, <1>11, <1>12, <1>13 DEF Good, Safe, Steady

LEMMA HasLatest ==
    ASSUME NEW f, NEW t, NEW k \in Nat, Sound(f, t, k), DOMAIN f # {}
    PROVE  Latest(f, Max(DOMAIN f))
<1>1. DOMAIN f \in SUBSET Nat /\ \A n \in DOMAIN f : n <= k
  BY DEF Sound, FilesShape
<1>2. Max(DOMAIN f) \in DOMAIN f /\ \A n \in DOMAIN f : n <= Max(DOMAIN f)
  BY <1>1, MaxIsGreatest
<1> QED BY <1>2 DEF Latest

(* An empty directory. *)
LEMMA EmptyGood ==
    ASSUME NEW g, DOMAIN g = {}, g \in [DOMAIN g -> Segment], NEW t, NEW k
    PROVE  Good(g, t, k, 0) /\ Steady(g) /\ Clean(g)
<1>1. FilesShape(g) /\ Chain(g) /\ CutOnes(g) /\ Hold(g, t)
  BY DEF FilesShape, Chain, CutOnes, Hold
<1>2. Safe(g, 0)
  BY DEF Safe, Firm, Stable, Reach
<1> QED BY <1>1, <1>2 DEF Good, Sound, Steady, Clean

(* What a crash of a kind that the setup has leaves. *)
LEMMA CrashKeeps ==
    ASSUME NEW f, NEW t, NEW k \in Nat, NEW a \in Nat, Good(f, t, k, a),
           Crashes \subseteq {"process", "power"}, Power => Crashes = {"power"},
           NEW kind \in Crashes, NEW g \in AfterCrash(kind, f)
    PROVE  Good(g, t, k, a) /\ Steady(g)
<1>1. CASE kind = "process"
  <2>1. g = f /\ ~ Power
    BY <1>1 DEF AfterCrash
  <2> QED BY <2>1 DEF Steady
<1>2. CASE kind = "power"
  <2>0. Power
    BY <1>2 DEF Power
  <2> DEFINE entries == {S \in SUBSET DOMAIN f : \A n \in DOMAIN f : f[n].linked => n \in S}
  <2>1. PICK S \in entries : g \in {h \in [S -> UNION {Cuts(f[n]) : n \in S}] :
                                    \A n \in S : h[n] \in Cuts(f[n])}
    BY <1>2 DEF AfterCrash
  <2>2. DOMAIN g = S /\ \A n \in DOMAIN g : n \in DOMAIN f /\ g[n] \in Cuts(f[n])
    BY <2>1
  <2>3. \A n \in DOMAIN g : CutOf(g[n], f[n])
    <3> SUFFICES ASSUME NEW n \in DOMAIN g PROVE CutOf(g[n], f[n])
      OBVIOUS
    <3>1. f[n] \in Segment /\ f[n].hard \in -1 .. Len(f[n].recs)
      BY <2>2 DEF Good, Sound, FilesShape
    <3> QED BY <2>2, <3>1, CutsAre
  <2>4. g \in [DOMAIN g -> Segment]
    <3>1. \A n \in DOMAIN g : g[n] \in Segment
      BY <2>3 DEF CutOf
    <3> QED BY <2>1, <2>2, <3>1
  <2>5. CASE DOMAIN f = {}
    <3>1. a = 0
      BY <2>0, <2>5 DEF Good, Safe, Stable
    <3>2. DOMAIN g = {}
      BY <2>2, <2>5
    <3> QED BY <2>4, <3>1, <3>2, EmptyGood
  <2>6. CASE DOMAIN f # {}
    <3>1. Latest(f, Max(DOMAIN f))
      BY <2>6, HasLatest DEF Good
    <3>2. DOMAIN g \subseteq DOMAIN f /\ \A n \in DOMAIN f : f[n].linked => n \in DOMAIN g
      BY <2>1, <2>2
    <3> QED BY <2>0, <2>3, <2>4, <3>1, <3>2, PowerLoss
  <2> QED BY <2>5, <2>6
<1> QED BY <1>1, <1>2

-----------------------------------------------------------------------------
(* Recovery.                                                               *)

(* Recovery accepts sound files. *)
LEMMA NotRefused ==
    ASSUME NEW f, NEW t, NEW k \in Nat, Sound(f, t, k)
    PROVE  ~ Refuses(f)
<1> SUFFICES ASSUME NEW n \in DOMAIN f, Unusable(f, n) PROVE FALSE
  BY DEF Refuses
<1> DEFINE last == Max(DOMAIN f)
           before == {m \in DOMAIN f : m < n}
<1>0. \A m \in DOMAIN f : m \in Nat /\ f[m].recs \in Seq(Record) /\ Len(f[m].recs) \in Nat
  BY DEF Sound, FilesShape, Segment
<1>1. Latest(f, last)
  BY HasLatest
<1>2. n # last => f[n].header = "ok" /\ f[n].tail = "clean"
  <2> SUFFICES ASSUME n # last PROVE f[n].header = "ok" /\ f[n].tail = "clean"
    OBVIOUS
  <2> HIDE DEF last
  <2>1. last \in DOMAIN f /\ n < last
    BY <1>0, <1>1 DEF Latest
  <2> QED BY <2>1 DEF Sound, Chain
<1>3. before # {} => n = Max(before) + Len(f[Max(before)].recs)
  <2> SUFFICES ASSUME NEW o \in DOMAIN f, o < n
               PROVE  n = Max(before) + Len(f[Max(before)].recs)
    OBVIOUS
  <2>1. PICK m \in DOMAIN f : m < n /\ End(f, m) = n /\ \A x \in DOMAIN f : x < n => x <= m
    BY Before
  <2>2. m \in before /\ (\A x \in before : x <= m) /\ before \in SUBSET Nat
    BY <1>0, <2>1
  <2>3. Max(before) = m
    <3> HIDE DEF before
    <3> QED BY <2>2, MaxIs
  <2> HIDE DEF before
  <2> QED BY <2>1, <2>3 DEF End
<1>4. \A i \in DOMAIN f[n].recs : f[n].recs[i].lsn = n + i - 1
  <2>1. DOMAIN f[n].recs = 1 .. Len(f[n].recs)
    BY <1>0
  <2> QED BY <2>1 DEF Sound, Hold
<1>5. f[n].header = "ok"
  <2> HIDE DEF last, before
  <2>1. f[n].header \in {"ok", "cut"}
    BY DEF Sound, FilesShape, Segment
  <2>2. Unusable(f, n) /\ f[n].header = "cut" => n # last
    BY DEF Unusable, last
  <2> QED BY <1>2, <2>1, <2>2
<1>6. \/ before # {} /\ n # Max(before) + Len(f[Max(before)].recs)
      \/ f[n].tail = "torn" /\ n # last
      \/ \E i \in DOMAIN f[n].recs : f[n].recs[i].lsn # n + i - 1
  BY <1>5 DEF Unusable
<1> HIDE DEF last, before
<1> QED BY <1>2, <1>3, <1>4, <1>6

(* The segments that recovery keeps: all but perhaps the last one, and the *)
(* last of them holds or follows everything that must be recovered.        *)
LEMMA KeptOnes ==
    ASSUME NEW f, NEW t, NEW k \in Nat, NEW a \in Nat, Good(f, t, k, a), Kept(f) # {}
    PROVE  LET l == Max(Kept(f))
           IN  /\ l \in Kept(f) /\ \A n \in Kept(f) : n <= l
               /\ Min(Kept(f)) \in Kept(f) /\ \A n \in Kept(f) : Min(Kept(f)) <= n
               /\ \A n \in DOMAIN f : n < l => n \in Kept(f)
               /\ \A n \in DOMAIN f : n > l => n \notin Kept(f) /\ Latest(f, n) /\ n = End(f, l)
               /\ a < End(f, l)
<1> DEFINE l == Max(Kept(f))
<1>0. \A m \in DOMAIN f : m \in Nat /\ Len(f[m].recs) \in Nat /\ m <= k
                         /\ f[m].header \in {"ok", "cut"} /\ f[m].hard <= Len(f[m].recs) /\ f[m].hard \in Int
  BY DEF Good, Sound, FilesShape, Segment
<1>1. Kept(f) \in SUBSET Nat /\ Kept(f) \subseteq DOMAIN f /\ \A n \in Kept(f) : n <= k
  BY <1>0 DEF Kept
<1>2. l \in Kept(f) /\ \A n \in Kept(f) : n <= l
  BY <1>1, MaxIsGreatest
<1>3. Min(Kept(f)) \in Kept(f) /\ \A n \in Kept(f) : Min(Kept(f)) <= n
  BY <1>1, MinIsLeast
<1> HIDE DEF l
<1>4. \A n \in DOMAIN f : n < l => n \in Kept(f)
  BY <1>1, <1>2 DEF Kept, Good, Sound, Chain
<1>5. ASSUME NEW n \in DOMAIN f, n > l
      PROVE  n \notin Kept(f) /\ Latest(f, n) /\ n = End(f, l)
  <2>1. n \notin Kept(f)
    BY <1>0, <1>1, <1>2, <1>5
  <2>2. Latest(f, n)
    <3> SUFFICES ASSUME NEW m \in DOMAIN f, n < m PROVE FALSE
      BY <1>0 DEF Latest
    <3>1. f[n].header = "ok"
      BY DEF Good, Sound, Chain
    <3> QED BY <2>1, <3>1 DEF Kept
  <2>3. l < n /\ l \in DOMAIN f
    BY <1>0, <1>1, <1>2, <1>5
  <2>4. PICK m \in DOMAIN f : m < n /\ End(f, m) = n /\ \A x \in DOMAIN f : x < n => x <= m
    BY <2>3, Before DEF Good
  <2>5. m \in Kept(f)
    BY <2>4 DEF Kept, Good, Sound, Chain
  <2>6. m = l
    BY <1>0, <1>1, <1>2, <2>3, <2>4, <2>5
  <2> QED BY <2>1, <2>2, <2>4, <2>6
<1>6. a < End(f, l)
  <2>1. ASSUME NEW n \in DOMAIN f, f[n].header = "ok", a < End(f, n) PROVE a < End(f, l)
    <3>1. n \in Kept(f) /\ n <= l /\ l \in DOMAIN f
      BY <1>1, <1>2, <2>1 DEF Kept
    <3>2. CASE n = l
      BY <2>1, <3>2
    <3>3. CASE n < l
      <4>1. End(f, n) <= l
        BY <3>1, <3>3 DEF Good, Sound, Chain
      <4> QED BY <1>0, <2>1, <3>1, <4>1 DEF End
    <3> QED BY <1>0, <3>1, <3>2, <3>3
  <2>2. CASE a = 0
    <3>1. l \in Nat \ {0} /\ l \in DOMAIN f
      BY <1>1, <1>2 DEF Good, Sound, FilesShape
    <3> QED BY <1>0, <2>2, <3>1 DEF End
  <2>3. CASE ~ Power /\ a # 0
    BY <2>1, <2>3 DEF Good, Safe, Reach
  <2>4. CASE Power /\ a # 0
    <3>1. PICK n \in DOMAIN f : f[n].header = "ok" /\ a < n + f[n].hard
      BY <2>4 DEF Good, Safe, Stable
    <3>2. a < End(f, n)
      BY <1>0, <3>1 DEF End
    <3> QED BY <2>1, <3>1, <3>2
  <2> QED BY <2>2, <2>3, <2>4
<1> QED BY <1>2, <1>3, <1>4, <1>5, <1>6 DEF l

(* Without a segment to keep nothing was promised. *)
LEMMA NoneKept ==
    ASSUME NEW f, NEW t, NEW k, NEW a \in Nat, Good(f, t, k, a), Kept(f) = {}
    PROVE  a = 0
  BY DEF Kept, Good, Safe, Reach, Stable

(* r is the beginning of the log t that the files f reach. *)
Recovers(f, t, a, r) ==
    /\ r \in Seq(Nat) /\ a <= Len(r) /\ Len(r) <= Len(t)
    /\ \A i \in 1 .. Len(r) : r[i] = t[i]
    /\ Kept(f) = {} => r = <<>>
    /\ Kept(f) # {} => Len(r) + 1 = End(f, Max(Kept(f)))

(* That is what recovery returns. *)
LEMMA RecoveredIs ==
    ASSUME NEW f, NEW t, NEW k \in Nat, NEW a \in Nat, Good(f, t, k, a),
           log \in Seq(Nat), doubt \in Seq(Nat), t = log \o doubt, k = Len(log) + 1,
           NEW r, r = RecoveredLog(f)
    PROVE  Recovers(f, t, a, r)
<1>0. /\ t \in Seq(Nat) /\ Len(t) \in Nat /\ Len(log) \in Nat /\ Len(log) <= Len(t)
      /\ \A i \in 1 .. Len(log) : t[i] = log[i]
  OBVIOUS
<1>1. CASE Kept(f) = {}
  <2>1. r = <<>>
    BY <1>1 DEF RecoveredLog
  <2>2. a = 0
    BY <1>1, NoneKept
  <2> QED BY <1>0, <1>1, <2>1, <2>2 DEF Recovers
<1>2. CASE Kept(f) # {}
  <2> DEFINE K == Kept(f)
             l == Max(K)
             N == End(f, l) - 1
             e(i) == IF i < Min(K) THEN log[i] ELSE f[SegmentOf(f, i)].recs[i - SegmentOf(f, i) + 1].id
  <2>1. /\ l \in K /\ \A n \in K : n <= l
        /\ Min(K) \in K /\ \A n \in K : Min(K) <= n
        /\ \A n \in DOMAIN f : n < l => n \in K
        /\ a < End(f, l)
    BY <1>2, KeptOnes
  <2>2. \A m \in DOMAIN f : m \in Nat \ {0} /\ Len(f[m].recs) \in Nat /\ m <= k
    BY DEF Good, Sound, FilesShape, Segment
  <2>3. K \subseteq DOMAIN f
    BY DEF Kept
  <2>4. l \in Nat \ {0} /\ Min(K) \in Nat \ {0} /\ Min(K) <= Len(log) + 1 /\ l <= Len(log) + 1
        /\ Len(f[l].recs) \in Nat /\ l \in DOMAIN f
    <3> HIDE DEF K, l
    <3> QED BY <2>1, <2>2, <2>3
  <2>5. N \in Nat /\ a <= N
    <3> HIDE DEF K, l
    <3> QED BY <2>1, <2>4 DEF End
  <2>6. N <= Len(t)
    <3> HIDE DEF K, l
    <3>1. CASE Len(f[l].recs) = 0
      BY <1>0, <2>4, <3>1 DEF End
    <3>2. CASE Len(f[l].recs) # 0
      <4>1. Len(f[l].recs) \in 1 .. Len(f[l].recs)
        BY <2>4, <3>2
      <4>2. l + Len(f[l].recs) - 1 <= Len(t)
        BY <2>4, <4>1 DEF Good, Sound, Hold
      <4>3. End(f, l) = l + Len(f[l].recs)
        BY DEF End
      <4> QED BY <1>0, <2>4, <4>2, <4>3
    <3> QED BY <3>1, <3>2
  <2>7. r = [i \in 1 .. N |-> e(i)]
    <3>1. r = [i \in 1 .. Max(Kept(f)) + Len(f[Max(Kept(f))].recs) - 1 |-> e(i)]
      BY <1>2 DEF RecoveredLog
    <3>2. Max(Kept(f)) + Len(f[Max(Kept(f))].recs) - 1 = N
      BY <2>4 DEF End
    <3> HIDE DEF e, N
    <3> QED BY <3>1, <3>2
  <2>8. ASSUME NEW i \in 1 .. N PROVE e(i) = t[i]
    <3> HIDE DEF K, l, N
    <3>0. i \in Nat \ {0} /\ i <= N
      BY <2>5
    <3>1. CASE i < Min(K)
      <4>1. i \in 1 .. Len(log)
        BY <1>0, <2>4, <3>0, <3>1
      <4> QED BY <1>0, <3>1, <4>1
    <3>2. CASE ~ (i < Min(K))
      <4> DEFINE S == {n \in K : n <= i}
                 n == Max(S)
      <4>0. Min(K) <= i
        BY <2>4, <3>0, <3>2
      <4>1. S \in SUBSET Nat /\ S # {} /\ \A m \in S : m <= i
        BY <2>1, <2>2, <2>3, <4>0
      <4>2. n \in S /\ \A m \in S : m <= n
        <5> HIDE DEF S
        <5> QED BY <3>0, <4>1, MaxIsGreatest
      <4>3. n = SegmentOf(f, i)
        BY DEF SegmentOf, K
      <4>4. n \in K /\ n <= i /\ n \in DOMAIN f /\ n \in Nat /\ Len(f[n].recs) \in Nat
        <5>1. n \in K /\ n <= i
          <6> HIDE DEF n
          <6> QED BY <4>2
        <5> HIDE DEF n
        <5> QED BY <2>2, <2>3, <5>1
      <4>5. \A m \in K : m <= i => m <= n
        <5> HIDE DEF n
        <5> QED BY <4>2
      <4> HIDE DEF n, S
      <4>6. i < End(f, n)
        <5>1. CASE n = l
          BY <2>4, <3>0, <5>1 DEF N, End
        <5>2. CASE n < l
          <6>1. n < End(f, n) /\ End(f, n) <= l /\ End(f, n) \in DOMAIN f
            BY <2>4, <4>4, <5>2 DEF Good, Sound, Chain
          <6>2. End(f, n) \in K
            <7>1. End(f, n) = l \/ End(f, n) < l
              BY <2>2, <2>4, <6>1
            <7> QED BY <2>1, <6>1, <7>1
          <6>3. ~ (End(f, n) <= i)
            BY <2>2, <4>4, <4>5, <6>1, <6>2
          <6> QED BY <2>2, <3>0, <6>1, <6>3
        <5> QED BY <2>1, <2>4, <4>4, <5>1, <5>2
      <4>7. i - n + 1 \in 1 .. Len(f[n].recs)
        BY <3>0, <4>4, <4>6 DEF End
      <4>8. f[n].recs[i - n + 1].id = t[n + (i - n + 1) - 1]
        BY <4>4, <4>7 DEF Good, Sound, Hold
      <4>9. n + (i - n + 1) - 1 = i
        BY <3>0, <4>4
      <4> QED BY <3>2, <4>3, <4>8, <4>9
    <3> QED BY <3>1, <3>2
  <2> HIDE DEF e
  <2>9. \A i \in 1 .. N : e(i) \in Nat
    <3> HIDE DEF N
    <3> SUFFICES ASSUME NEW i \in 1 .. N PROVE e(i) \in Nat
      OBVIOUS
    <3>1. i \in 1 .. Len(t)
      BY <1>0, <2>5, <2>6
    <3>2. t[i] \in Nat
      BY <1>0, <3>1
    <3> QED BY <2>8, <3>2
  <2>10. N + 1 = End(f, l)
    <3> HIDE DEF l
    <3> QED BY <2>4 DEF End
  <2> HIDE DEF N
  <2>11. r \in Seq(Nat) /\ Len(r) = N /\ \A i \in 1 .. N : r[i] = e(i)
    BY <2>5, <2>7, <2>9
  <2> QED BY <1>2, <2>5, <2>6, <2>8, <2>10, <2>11 DEF Recovers
<1> QED BY <1>1, <1>2

(* Files that end where a log ends are good for that log. *)
LEMMA ShorterLog ==
    ASSUME NEW f, NEW t, NEW k, NEW a \in Nat, Good(f, t, k, a), NEW l, Latest(f, l),
           NEW r \in Seq(Nat), Len(r) + 1 = End(f, l), \A i \in 1 .. Len(r) : r[i] = t[i]
    PROVE  Good(f, r, Len(r) + 1, a)
<1>0. \A m \in DOMAIN f : m \in Nat \ {0} /\ Len(f[m].recs) \in Nat
  BY DEF Good, Sound, FilesShape, Segment
<1>1. Len(r) \in Nat /\ l \in DOMAIN f
  BY DEF Latest
<1>2. ASSUME NEW n \in DOMAIN f PROVE End(f, n) <= Len(r) + 1 /\ n <= Len(r) + 1
  <2>1. CASE n = l
    BY <1>0, <1>1, <2>1 DEF End
  <2>2. CASE n < l
    <3>1. n < End(f, n) /\ End(f, n) <= l /\ End(f, n) \in Nat
      BY <1>0, <1>1, <2>2 DEF Good, Sound, Chain
    <3> QED BY <1>0, <1>1, <3>1 DEF End
  <2> QED BY <1>0, <2>1, <2>2 DEF Latest
<1>3. Hold(f, r)
  <2> SUFFICES ASSUME NEW n \in DOMAIN f, NEW i \in 1 .. Len(f[n].recs)
               PROVE  /\ n + i - 1 <= Len(r)
                      /\ f[n].recs[i].lsn = n + i - 1 /\ f[n].recs[i].id = r[n + i - 1]
    BY DEF Hold
  <2>1. f[n].recs[i].lsn = n + i - 1 /\ f[n].recs[i].id = t[n + i - 1]
    BY DEF Good, Sound, Hold
  <2>2. n + i - 1 \in 1 .. Len(r)
    <3>1. n + Len(f[n].recs) <= Len(r) + 1 /\ n \in Nat \ {0} /\ Len(f[n].recs) \in Nat
      BY <1>0, <1>2 DEF End
    <3>2. i \in Nat \ {0} /\ i <= Len(f[n].recs)
      BY <3>1
    <3> QED BY <1>1, <3>1, <3>2
  <2> QED BY <1>1, <2>1, <2>2
<1> QED BY <1>2, <1>3 DEF Good, Sound

(* The first segment of a new directory. *)
LEMMA FirstSegment ==
    ASSUME NEW seg, Blank(seg), NEW t, NEW k \in Nat, 1 <= k, NEW g, g = Put(NoFiles, 1, seg)
    PROVE  Good(g, t, k, 0) /\ Latest(g, 1)
<1>1. DOMAIN g = {1} /\ g[1] = seg
  BY DEF Put, NoFiles
<1>2. g \in [DOMAIN g -> Segment]
  BY <1>1 DEF Put, Blank
<1>3. Len(seg.recs) = 0 /\ seg.recs = <<>> /\ seg.hard \in {-1, 0}
  BY DEF Blank
<1>4. FilesShape(g)
  BY <1>1, <1>2, <1>3 DEF FilesShape
<1>5. Chain(g) /\ Latest(g, 1)
  BY <1>1 DEF Chain, Latest
<1>6. CutOnes(g) /\ NotAlone(g, 1)
  BY <1>1, <1>3 DEF CutOnes, NotAlone
<1>7. Hold(g, t)
  <2>1. \A i \in 1 .. Len(g[1].recs) : FALSE
    BY <1>1, <1>3
  <2> QED BY <1>1, <2>1 DEF Hold
<1>8. Safe(g, 0)
  <2>1. Firm(g)
    BY <1>1, <1>3, <1>6 DEF Firm
  <2> QED BY <2>1 DEF Safe, Stable, Reach
<1> QED BY <1>1, <1>4, <1>5, <1>6, <1>7, <1>8 DEF Good, Sound

LEMMA OpenedNew ==
    ASSUME Power => Durable, NEW g, g = WithSegment(NoFiles, 1), NEW t
    PROVE  /\ Good(g, t, 1, 0) /\ Steady(g) /\ Clean(g) /\ Latest(g, 1) /\ g[1].recs = <<>>
<1> DEFINE s == NewSegment("ok", 0, TRUE)
           v == NewSegment("ok", -1, FALSE)
<1>1. Blank(s) /\ s.recs = <<>> /\ s.header = "ok" /\ s.tail = "clean" /\ s.hard = 0
  BY DEF Blank, NewSegment, Segment
<1>2. Blank(v) /\ v.recs = <<>> /\ v.header = "ok" /\ v.tail = "clean"
  BY DEF Blank, NewSegment, Segment
<1>3. CASE Durable
  <2> DEFINE p == Put(NoFiles, 1, s)
  <2>0. g = SyncDirectory(p)
    BY <1>3 DEF WithSegment
  <2>1. DOMAIN p = {1} /\ p[1] = s
    BY DEF Put, NoFiles
  <2> HIDE DEF p, s
  <2>2. Good(p, t, 1, 0) /\ Latest(p, 1)
    BY <1>1, FirstSegment DEF p
  <2>3. /\ Good(g, t, 1, 0) /\ DOMAIN g = DOMAIN p
        /\ \A n \in DOMAIN p : /\ g[n].recs = p[n].recs /\ g[n].header = p[n].header
                              /\ g[n].tail = p[n].tail /\ g[n].hard = p[n].hard /\ g[n].linked = TRUE
    <3>1. Good(p, t, 1, 0) /\ 0 \in Nat
      BY <2>2
    <3>2. Good(g, t, 1, 0) /\ Linked(g, p)
      BY <2>0, <3>1, LinkKeeps
    <3> QED BY <3>2 DEF Linked
  <2>4. Clean(g) /\ Steady(g) /\ Latest(g, 1)
    BY <1>1, <2>1, <2>2, <2>3 DEF Clean, Steady, OnDisk, Latest
  <2> QED BY <1>1, <2>1, <2>3, <2>4
<1>4. CASE ~ Durable
  <2>0. g = Put(NoFiles, 1, v)
    BY <1>4 DEF WithSegment
  <2>1. DOMAIN g = {1} /\ g[1] = v
    BY <2>0 DEF Put, NoFiles
  <2> HIDE DEF v
  <2>2. Good(g, t, 1, 0) /\ Latest(g, 1)
    BY <1>2, <2>0, FirstSegment
  <2>3. Clean(g) /\ Steady(g)
    BY <1>2, <1>4, <2>1 DEF Clean, Steady
  <2> QED BY <1>2, <2>1, <2>2, <2>3
<1> QED BY <1>3, <1>4

(* A last segment whose header is cut goes. *)
LEMMA DropKeeps ==
    ASSUME NEW f, NEW t, NEW k \in Nat, NEW a \in Nat, Good(f, t, k, a), Steady(f), Kept(f) # {},
           NEW g, g = Restrict(f, Kept(f))
    PROVE  Good(g, t, k, a) /\ Steady(g) /\ Latest(g, Max(Kept(f)))
<1> DEFINE l == Max(Kept(f))
<1>1. DOMAIN g = Kept(f) /\ \A n \in DOMAIN g : n \in DOMAIN f /\ g[n] = f[n] /\ f[n].header = "ok"
  BY DEF Restrict, Kept
<1>2. /\ l \in Kept(f) /\ \A n \in Kept(f) : n <= l
      /\ \A n \in DOMAIN f : n < l => n \in Kept(f)
  BY KeptOnes
<1> HIDE DEF l
<1>3. g \in [DOMAIN g -> Segment]
  BY <1>1 DEF Restrict, Good, Sound, FilesShape
<1>4. FilesShape(g)
  BY <1>1, <1>3 DEF Good, Sound, FilesShape
<1>5. Chain(g)
  <2> SUFFICES ASSUME NEW m \in DOMAIN g, NEW n \in DOMAIN g, m < n
               PROVE  /\ m < End(g, m) /\ End(g, m) <= n /\ End(g, m) \in DOMAIN g
                      /\ g[m].header = "ok" /\ g[m].tail = "clean"
    BY DEF Chain
  <2>1. /\ m < End(f, m) /\ End(f, m) <= n /\ End(f, m) \in DOMAIN f
        /\ f[m].header = "ok" /\ f[m].tail = "clean"
    BY <1>1 DEF Good, Sound, Chain
  <2>2. End(g, m) = End(f, m)
    BY <1>1 DEF End
  <2>3. n \in Nat /\ l \in Nat /\ End(f, m) \in Nat /\ n <= l
    BY <1>1, <1>2, <2>1 DEF Good, Sound, FilesShape
  <2>4. End(f, m) = n \/ End(f, m) < l
    BY <2>1, <2>3
  <2>5. End(f, m) \in DOMAIN g
    BY <1>1, <1>2, <2>1, <2>4
  <2> QED BY <1>1, <2>1, <2>2, <2>5
<1>6. CutOnes(g)
  BY <1>1 DEF CutOnes
<1>7. Hold(g, t)
  BY <1>1, HoldSame DEF Good, Sound
<1>8. Sound(g, t, k)
  BY <1>1, <1>4, <1>5, <1>6, <1>7 DEF Good, Sound
<1>9. Steady(g)
  BY <1>1 DEF Steady, OnDisk
<1>10. Safe(g, a)
  <2>1. \A n \in DOMAIN f : f[n].header = "ok" => n \in DOMAIN g /\ g[n] = f[n] /\ g[n].header = "ok"
    BY <1>1 DEF Kept
  <2>2. CASE ~ Power
    BY <2>1, <2>2 DEF Good, Safe, Reach, End
  <2>3. CASE Power
    <3>1. Stable(g, a)
      BY <2>1, <2>3 DEF Good, Safe, Stable
    <3>2. Firm(g)
      BY <1>1, <1>9, <2>3 DEF Steady, Good, Safe, Firm
    <3> QED BY <2>3, <3>1, <3>2 DEF Safe
  <2> QED BY <2>2, <2>3
<1>11. Latest(g, l)
  BY <1>1, <1>2 DEF Latest
<1> QED BY <1>8, <1>9, <1>10, <1>11 DEF Good, l

(* Recovery cuts a torn tail off the last segment. *)
WithoutTail(b, l) == [b EXCEPT ![l].tail = "clean"]

OnlyLastTorn(b, l) == \A n \in DOMAIN b : b[n].header = "ok" /\ (n # l => b[n].tail = "clean")

Trimmed(g, b, l, r, k, a) ==
    /\ Good(g, r, k, a) /\ Steady(g) /\ Clean(g)
    /\ l \in DOMAIN g /\ Latest(g, l) /\ End(g, l) = End(b, l)

LEMMA TailCut ==
    ASSUME NEW b, NEW r, NEW k, NEW a \in Nat, Good(b, r, k, a), Steady(b), NEW l, Latest(b, l),
           OnlyLastTorn(b, l), a < End(b, l), NEW g, g = Fsync(WithoutTail(b, l), l)
    PROVE  Trimmed(g, b, l, r, k, a)
<1>0. \A n \in DOMAIN b : b[n].header = "ok" /\ (n # l => b[n].tail = "clean")
  BY DEF OnlyLastTorn
<1> DEFINE c == WithoutTail(b, l)
           seg == [b[l] EXCEPT !.tail = "clean"]
<1>1. l \in DOMAIN b /\ b \in [DOMAIN b -> Segment] /\ b[l] \in Segment
  BY DEF Latest, Good, Sound, FilesShape
<1>2. /\ seg \in Segment /\ seg.recs = b[l].recs /\ seg.header = "ok" /\ seg.tail = "clean"
      /\ seg.hard = b[l].hard /\ seg.linked = b[l].linked
  BY <1>0, <1>1 DEF Segment
<1>3. DOMAIN c = DOMAIN b /\ c[l] = seg /\ \A n \in DOMAIN b \ {l} : c[n] = b[n]
  BY <1>1 DEF WithoutTail
<1> HIDE DEF seg
<1>4. c \in [DOMAIN b -> Segment]
  BY <1>1, <1>2, <1>3 DEF WithoutTail
<1>5. g = Fsync(c, l)
  OBVIOUS
<1> HIDE DEF c
<1>6. HoldsAt(c, r, l)
  <2>1. HoldsAt(b, r, l)
    BY <1>1 DEF HoldsAt, Good, Sound, Hold
  <2>2. c[l].recs = b[l].recs
    BY <1>2, <1>3
  <2> QED BY <2>1, <2>2 DEF HoldsAt
<1>7. b[l].hard \in Int /\ Len(b[l].recs) \in Nat /\ b[l].hard <= Len(b[l].recs) /\ b[l].header = "ok"
  BY <1>0, <1>1 DEF Good, Sound, FilesShape, Segment
<1>8. /\ c[l].header = "ok" /\ c[l].recs = b[l].recs /\ c[l].hard = b[l].hard
      /\ c[l].linked = b[l].linked /\ c[l].tail = "clean"
  BY <1>2, <1>3
<1>9. /\ Len(b[l].recs) <= Len(c[l].recs) /\ b[l].hard <= c[l].hard
      /\ c[l].hard <= Len(c[l].recs) /\ (b[l].linked => c[l].linked)
  <2>1. Len(b[l].recs) <= Len(b[l].recs) /\ b[l].hard <= b[l].hard
    BY <1>7
  <2> QED BY <1>7, <1>8, <2>1
<1>10. Good(c, r, k, a) /\ Steady(c) /\ Latest(c, l)
  BY <1>3, <1>4, <1>6, <1>7, <1>8, <1>9, LastGrows
<1>11. End(c, l) = End(b, l) /\ a < End(c, l)
  BY <1>8 DEF End
<1>12. Good(g, r, k, a) /\ Steady(g) /\ Latest(g, l) /\ Flushed(g, c, l)
  BY <1>5, <1>8, <1>10, <1>11, FsyncKeeps
<1>13. /\ DOMAIN g = DOMAIN b /\ g[l].header = "ok" /\ g[l].tail = "clean" /\ End(g, l) = End(b, l)
       /\ \A n \in DOMAIN b \ {l} : g[n] = b[n]
  BY <1>3, <1>8, <1>11, <1>12 DEF Flushed
<1>14. Clean(g)
  BY <1>0, <1>13 DEF Clean
<1> QED BY <1>1, <1>12, <1>13, <1>14 DEF Trimmed

(* Files in which the log r goes on after its last record. *)
Resumed(g, r, a) ==
    \E l \in DOMAIN g : /\ Good(g, r, Len(r) + 1, a) /\ Steady(g) /\ Clean(g)
                        /\ Latest(g, l) /\ End(g, l) = Len(r) + 1

(* Opening files that recovery accepts, and what it makes of them. *)
LEMMA OpenedIs ==
    ASSUME NEW f, NEW t, NEW k \in Nat, NEW a \in Nat, Good(f, t, k, a), Steady(f), Power => Durable,
           log \in Seq(Nat), doubt \in Seq(Nat), t = log \o doubt, k = Len(log) + 1,
           NEW r, r = RecoveredLog(f), NEW g, g = OpenedFiles(f)
    PROVE  Resumed(g, r, a)
<1> SUFFICES \E l \in DOMAIN g : /\ Good(g, r, Len(r) + 1, a) /\ Steady(g) /\ Clean(g)
                                 /\ Latest(g, l) /\ End(g, l) = Len(r) + 1
  BY DEF Resumed
<1>0. /\ r \in Seq(Nat) /\ a <= Len(r) /\ \A i \in 1 .. Len(r) : r[i] = t[i]
      /\ Kept(f) = {} => r = <<>>
      /\ Kept(f) # {} => Len(r) + 1 = End(f, Max(Kept(f)))
  <2>1. Recovers(f, t, a, r)
    BY RecoveredIs
  <2> QED BY <2>1 DEF Recovers
<1>1. CASE Kept(f) = {}
  <2>1. a = 0 /\ g = WithSegment(NoFiles, 1) /\ r = <<>> /\ Len(r) + 1 = 1
    BY <1>0, <1>1, NoneKept DEF OpenedFiles
  <2>2. Good(g, r, 1, 0) /\ Steady(g) /\ Clean(g) /\ Latest(g, 1) /\ g[1].recs = <<>>
    BY <2>1, OpenedNew
  <2>3. End(g, 1) = 1 /\ 1 \in DOMAIN g
    BY <2>2 DEF End, Latest
  <2> QED BY <2>1, <2>2, <2>3
<1>2. CASE Kept(f) # {}
  <2> DEFINE l == Max(Kept(f))
             d == Restrict(f, Kept(f))
             b == IF Kept(f) = DOMAIN f THEN f ELSE SyncDirectory(d)
  <2>1. Good(d, t, k, a) /\ Steady(d) /\ Latest(d, l)
    BY <1>2, DropKeeps
  <2>2. DOMAIN d = Kept(f) /\ \A n \in Kept(f) : d[n] = f[n]
    BY DEF Restrict
  <2>3. l \in Kept(f)
    BY <1>2, KeptOnes
  <2> HIDE DEF l, d
  <2>4. /\ Good(b, t, k, a) /\ Steady(b) /\ Latest(b, l) /\ DOMAIN b = Kept(f)
        /\ \A n \in Kept(f) : b[n].recs = f[n].recs /\ b[n].header = f[n].header /\ b[n].tail = f[n].tail
    <3>1. CASE Kept(f) = DOMAIN f
      <4>1. Latest(f, l)
        BY <2>1, <2>2, <3>1 DEF Latest
      <4> QED BY <3>1, <4>1
    <3>2. CASE Kept(f) # DOMAIN f
      <4> DEFINE e == SyncDirectory(d)
      <4>1. /\ Good(e, t, k, a) /\ DOMAIN e = DOMAIN d /\ (Steady(d) => Steady(e))
            /\ \A n \in DOMAIN d : /\ e[n].recs = d[n].recs /\ e[n].header = d[n].header
                                  /\ e[n].tail = d[n].tail
        <5>1. e = SyncDirectory(d)
          OBVIOUS
        <5> HIDE DEF e
        <5>2. Good(e, t, k, a) /\ (Steady(d) => Steady(e)) /\ Linked(e, d)
          BY <2>1, <5>1, LinkKeeps
        <5> QED BY <5>2 DEF Linked
      <4>2. b = e
        BY <3>2
      <4> HIDE DEF e, b
      <4>3. Latest(e, l)
        BY <2>1, <4>1 DEF Latest
      <4> QED BY <2>1, <2>2, <4>1, <4>2, <4>3
    <3> QED BY <3>1, <3>2
  <2>5. g = IF b[l].tail = "torn" THEN Fsync([b EXCEPT ![l].tail = "clean"], l) ELSE b
    BY <1>2 DEF OpenedFiles, l, d
  <2> HIDE DEF b
  <2>6. \A n \in DOMAIN b : b[n].header = "ok" /\ b[n] \in Segment /\ n \in Nat /\ Len(b[n].recs) \in Nat
    BY <2>4 DEF Kept, Good, Sound, FilesShape, Segment
  <2>7. \A n \in DOMAIN b : n # l => b[n].tail = "clean"
    <3> SUFFICES ASSUME NEW n \in DOMAIN b, n # l PROVE b[n].tail = "clean"
      OBVIOUS
    <3>1. n < l /\ l \in DOMAIN b
      <4>1. l \in DOMAIN b /\ n <= l
        BY <2>4 DEF Latest
      <4> QED BY <2>6, <4>1
    <3> QED BY <2>4, <3>1 DEF Good, Sound, Chain
  <2>8. l \in DOMAIN b /\ End(b, l) = Len(r) + 1
    BY <1>0, <1>2, <2>3, <2>4 DEF End, l
  <2>9. Good(b, r, Len(r) + 1, a)
    BY <1>0, <2>4, <2>8, ShorterLog
  <2>10. CASE b[l].tail # "torn"
    <3>1. g = b
      BY <2>5, <2>10
    <3>2. Clean(b)
      BY <2>6, <2>7, <2>10 DEF Clean, Segment
    <3> QED BY <2>4, <2>8, <2>9, <3>1, <3>2
  <2>11. CASE b[l].tail = "torn"
    <3>1. g = Fsync(WithoutTail(b, l), l)
      BY <2>5, <2>11 DEF WithoutTail
    <3>2. OnlyLastTorn(b, l)
      BY <2>6, <2>7 DEF OnlyLastTorn
    <3>3. a < End(b, l) /\ Latest(b, l) /\ Steady(b)
      <4>1. Len(r) \in Nat
        BY <1>0
      <4> QED BY <1>0, <2>4, <2>8, <4>1
    <3>4. Trimmed(g, b, l, r, Len(r) + 1, a)
      BY <2>9, <3>1, <3>2, <3>3, TailCut
    <3> QED BY <2>8, <3>4 DEF Trimmed
  <2> QED BY <2>10, <2>11
<1> QED BY <1>1, <1>2
=============================================================================
