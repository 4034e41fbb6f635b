------------------------------ MODULE MCCursors ------------------------------
(* Cursors over three documents, one of them too large to share a batch.   *)
EXTENDS Cursors

CONSTANTS r1, r2

TwoReaders == {r1, r2}
OneCollector == {r1}
ThreeDocs == 1 .. 3
Full == {1 .. 3}
Sizes == <<1, 2, 1>>

Q(plan, skip, limit, batch) == [plan |-> plan, skip |-> skip, limit |-> limit, batch |-> batch]

SomeQueries ==
    {Q("COLLSCAN", 0, Unlimited, 2), Q("COLLSCAN", 1, 1, 1),
     Q("IXSCAN", 0, Unlimited, 1), Q("SORT", 0, 2, 1)}
=============================================================================
