----------------------------- MODULE FieldIndex -----------------------------
(***************************************************************************)
(* The index of one field (packages/storage/src/indexing/field-index.ts),  *)
(* the set of a collection's indexes (index-set.ts) and the planner that   *)
(* narrows a query with them (planner.ts), as operators.                   *)
(***************************************************************************)
EXTENDS Documents, Sequences, SequencesExt

CONSTANT Keys   \* the _ids of documents

Classes == {ClassOf[v] : v \in Values} \ {"none"}

(* A new FieldIndex: an entry of byValue without keys stands for none.     *)
EmptyIndex(spec) ==
    [spec |-> spec,
     byValue |-> [v \in Values |-> {}],
     missing |-> {},
     ordered |-> [c \in Classes |-> <<>>],
     arrayValues |-> 0,
     indexedDocuments |-> 0]

-----------------------------------------------------------------------------
(* lowerBound and upperBound: binary search for the first entry that is    *)
(* not less, or greater, than v.  Positions count from 0, as in the code.  *)
LowerBound(entries, v) ==
    LET search[low \in 0 .. Len(entries), high \in 0 .. Len(entries)] ==
            LET middle == (low + high) \div 2
            IN  IF low >= high THEN low
                ELSE IF CompareSameClass(entries[middle + 1], v) < 0
                     THEN search[middle + 1, high]
                     ELSE search[low, middle]
    IN  search[0, Len(entries)]

UpperBound(entries, v) ==
    LET search[low \in 0 .. Len(entries), high \in 0 .. Len(entries)] ==
            LET middle == (low + high) \div 2
            IN  IF low >= high THEN low
                ELSE IF CompareSameClass(entries[middle + 1], v) <= 0
                     THEN search[middle + 1, high]
                     ELSE search[low, middle]
    IN  search[0, Len(entries)]

(* insertOrdered and removeOrdered; values without a class are not ordered. *)
InsertOrdered(ordered, v) ==
    IF ClassOf[v] = "none" THEN ordered
    ELSE [ordered EXCEPT ![ClassOf[v]] = InsertAt(@, LowerBound(@, v) + 1, v)]

RemoveOrdered(ordered, v) ==
    IF ClassOf[v] = "none" THEN ordered
    ELSE LET entries == ordered[ClassOf[v]]
             low == LowerBound(entries, v)
             found == {p \in (low + 1) .. Len(entries) :
                         /\ entries[p] = v
                         /\ \A q \in (low + 1) .. p : CompareSameClass(entries[q], v) = 0}
         IN  IF found = {} THEN ordered
             ELSE [ordered EXCEPT ![ClassOf[v]] = RemoveAt(@, Min(found))]

IsArray(v) == TypeRank[v] = 8

AddKey(ix, k, doc) ==
    LET v == doc[ix.spec.field]
    IN  IF v = Missing
        THEN IF ix.spec.sparse THEN ix
             ELSE [ix EXCEPT !.missing = @ \cup {k}, !.indexedDocuments = @ + 1]
        ELSE [ix EXCEPT !.byValue[v] = @ \cup {k},
                        !.ordered = IF ix.byValue[v] = {} THEN InsertOrdered(@, v) ELSE @,
                        !.arrayValues = IF IsArray(v) THEN @ + 1 ELSE @,
                        !.indexedDocuments = @ + 1]

RemoveKey(ix, k, doc) ==
    LET v == doc[ix.spec.field]
    IN  IF v = Missing
        THEN IF ix.spec.sparse \/ k \notin ix.missing THEN ix
             ELSE [ix EXCEPT !.missing = @ \ {k}, !.indexedDocuments = @ - 1]
        ELSE IF k \notin ix.byValue[v] THEN ix
        ELSE [ix EXCEPT !.byValue[v] = @ \ {k},
                        !.ordered = IF ix.byValue[v] = {k} THEN RemoveOrdered(@, v) ELSE @,
                        !.arrayValues = IF IsArray(v) THEN @ - 1 ELSE @,
                        !.indexedDocuments = @ - 1]

(* Mutant: documents that lack the field never conflict. *)
ConflictsPresent(ix, k, doc) ==
    LET v == doc[ix.spec.field]
    IN  ix.spec.unique /\ v # Missing /\ ix.byValue[v] \ {k} # {}

(* conflictFor: another document has the value, or lacks the field too.    *)
Conflicts(ix, k, doc) ==
    LET v == doc[ix.spec.field]
    IN  /\ ix.spec.unique
        /\ IF v = Missing
           THEN ~ ix.spec.sparse /\ ix.missing \ {k} # {}
           ELSE ix.byValue[v] \ {k} # {}

(* add with bulk set, for a new index: the entries are sorted at the end.  *)
AddBulk(ix, k, doc) ==
    LET v == doc[ix.spec.field]
        added == AddKey(ix, k, doc)
    IN  IF v = Missing THEN added
        ELSE [added EXCEPT !.ordered =
                IF ix.byValue[v] = {} /\ ClassOf[v] # "none"
                THEN [ix.ordered EXCEPT ![ClassOf[v]] = Append(@, v)]
                ELSE ix.ordered]

FinishBulk(ix) ==
    LET Sorted(s) ==
            LET Before(i, j) == \/ CompareSameClass(s[i], s[j]) < 0
                                \/ CompareSameClass(s[i], s[j]) = 0 /\ i < j
                p == SetToSortSeq(DOMAIN s, Before)
            IN  [i \in DOMAIN s |-> s[p[i]]]
    IN  [ix EXCEPT !.ordered = [c \in Classes |-> Sorted(@[c])]]

(* IndexSet.create: an index over the documents of a map.                  *)
BuildIndex(spec, order, docs) ==
    LET Step(acc, k) ==
            IF acc.conflict \/ Conflicts(acc.ix, k, docs[k]) THEN [acc EXCEPT !.conflict = TRUE]
            ELSE [acc EXCEPT !.ix = AddBulk(@, k, docs[k])]
        built == FoldLeft(Step, [ix |-> EmptyIndex(spec), conflict |-> FALSE], order)
    IN  [built EXCEPT !.ix = FinishBulk(@)]

-----------------------------------------------------------------------------
(* Mutant: the inverses run in the order of the edits. *)
RollbackForwards(ixs, undo) ==
    LET Step(acc, u) ==
            [acc EXCEPT ![u.field] = IF u.edit = "add" THEN AddKey(@, u.key, u.doc)
                                     ELSE RemoveKey(@, u.key, u.doc)]
    IN  FoldLeft(Step, ixs, undo)

(* IndexSet.applyChanges: ixs has an index for each of some fields, and a  *)
(* change has a key and the documents before and after, as far as there    *)
(* are such.  All removals come before all additions.  Each edit leaves    *)
(* its inverse; a conflict runs the inverses backwards, and so does a      *)
(* caller whose journal fails later.                                       *)
Rollback(ixs, undo) ==
    LET Step(acc, u) ==
            [acc EXCEPT ![u.field] = IF u.edit = "add" THEN AddKey(@, u.key, u.doc)
                                     ELSE RemoveKey(@, u.key, u.doc)]
    IN  FoldLeft(Step, ixs, Reverse(undo))

Edited(acc, f, ix, u) == [acc EXCEPT !.ixs = [@ EXCEPT ![f] = ix], !.undo = Append(@, u)]

RemoveBefore(acc, ch) ==
    LET Step(a, f) ==
            Edited(a, f, RemoveKey(a.ixs[f], ch.key, ch.before),
                   [field |-> f, edit |-> "add", key |-> ch.key, doc |-> ch.before])
    IN  FoldLeft(Step, acc, SetToSeq(DOMAIN acc.ixs))

AddAfter(acc, ch) ==
    LET Step(a, f) ==
            IF a.conflict \/ Conflicts(a.ixs[f], ch.key, ch.after)
            THEN [a EXCEPT !.conflict = TRUE]
            ELSE Edited(a, f, AddKey(a.ixs[f], ch.key, ch.after),
                        [field |-> f, edit |-> "remove", key |-> ch.key, doc |-> ch.after])
    IN  FoldLeft(Step, acc, SetToSeq(DOMAIN acc.ixs))

ApplyChanges(ixs, changes) ==
    LET start == [ixs |-> ixs, undo |-> <<>>, conflict |-> FALSE]
        removed == FoldLeft(RemoveBefore, start, SelectSeq(changes, LAMBDA ch : "before" \in DOMAIN ch))
        added == FoldLeft(AddAfter, removed, SelectSeq(changes, LAMBDA ch : "after" \in DOMAIN ch))
    IN  IF added.conflict THEN [added EXCEPT !.ixs = Rollback(@, added.undo)] ELSE added

-----------------------------------------------------------------------------
(* planner.ts.                                                             *)

Lower == {"$gt", "$gte"}
Upper == {"$lt", "$lte"}

(* tighter, over all bounds of one side: the furthest, and of two at the   *)
(* same place the exclusive one.                                           *)
Tightest(bounds) ==
    CHOOSE c \in bounds : \A d \in bounds :
        LET further == CompareSameClass(Operand(c), Operand(d)) * (IF c.op \in Lower THEN 1 ELSE -1)
        IN  further > 0 \/ (further = 0 /\ (c.op \in {"$gt", "$lt"} \/ d.op \in {"$gte", "$lte"}))

(* rangeEntries: the entries from start + 1 to end. *)
RangeStart(entries, bounds) ==
    IF bounds = {} THEN 0
    ELSE LET c == Tightest(bounds)
         IN  IF c.op = "$gte" THEN LowerBound(entries, Operand(c)) ELSE UpperBound(entries, Operand(c))

RangeEnd(entries, bounds) ==
    IF bounds = {} THEN Len(entries)
    ELSE LET c == Tightest(bounds)
         IN  IF c.op = "$lte" THEN UpperBound(entries, Operand(c)) ELSE LowerBound(entries, Operand(c))

(* estimateRange, and the keys of lookupRange. *)
RangePlan(ix, cs) ==
    LET entries == ix.ordered[ClassOf[Operand(CHOOSE c \in cs : TRUE)]]
        start == RangeStart(entries, {c \in cs : c.op \in Lower})
        end == RangeEnd(entries, {c \in cs : c.op \in Upper})
        size == IF end > start THEN end - start ELSE 0
        distinct == Cardinality({v \in Values : ix.byValue[v] # {}})
    IN  [kind |-> "range",
         keys |-> UNION {ix.byValue[entries[p]] : p \in (start + 1) .. end},
         estimated |-> IF distinct = 0 THEN 0
                       ELSE (size * ix.indexedDocuments + distinct - 1) \div distinct]

EqualPlan(ix, values) ==
    [kind |-> "equal",
     keys |-> UNION {ix.byValue[v] : v \in values},
     estimated |-> MapThenSumSet(LAMBDA v : Cardinality(ix.byValue[v]), values)]

(* Mutant: $in is looked up although some values are arrays. *)
PlanIndexArrays(ix, filter) ==
    LET on == {c \in filter : c.field = ix.spec.field}
        range == {c \in on : c.op \in Lower \cup Upper}
        classes == {ClassOf[Operand(c)] : c \in range}
        equal == {c \in on : c.op \in {"$eq", "$in"}}
    IN  {EqualPlan(ix, c.args) : c \in equal}
        \cup IF Cardinality(classes) = 1 THEN {RangePlan(ix, range)} ELSE {}

(* planIndex: what the clauses on the field of an index offer.             *)
PlanIndex(ix, filter) ==
    LET on == {c \in filter : c.field = ix.spec.field}
        range == {c \in on : c.op \in Lower \cup Upper}
        classes == {ClassOf[Operand(c)] : c \in range}
        equal == {c \in on : c.op = "$eq" \/ (c.op = "$in" /\ ix.arrayValues = 0)}
    IN  {EqualPlan(ix, c.args) : c \in equal}
        \cup IF Cardinality(classes) = 1 THEN {RangePlan(ix, range)} ELSE {}

(* planQuery: the plans it may choose.  An _id is looked up.  Of the other *)
(* plans, the cheapest, an equality goes before a range, and the           *)
(* collection is scanned unless a plan expects fewer documents.            *)
PlanQuery(filter, ixs, total) ==
    LET scan == [kind |-> "COLLSCAN", keys |-> Keys, estimated |-> total]
        plans == UNION {PlanIndex(ixs[f], filter) : f \in DOMAIN ixs}
        cheapest == {p \in plans : \A q \in plans : p.estimated <= q.estimated}
        equal == {p \in cheapest : p.kind = "equal"}
        ids == {c.args : c \in {d \in filter : d.field = "_id"}}
        fewest == {S \in ids : \A T \in ids : Cardinality(S) <= Cardinality(T)}
    IN  IF total > 0 /\ ids # {}
        THEN {[kind |-> "IDLOOKUP", keys |-> S, estimated |-> Cardinality(S)] : S \in fewest}
        ELSE IF total = 0 \/ \A p \in cheapest : p.estimated >= total THEN {scan}
        ELSE IF equal # {} THEN equal ELSE cheapest
=============================================================================
