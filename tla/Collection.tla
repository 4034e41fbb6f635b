----------------------------- MODULE Collection -----------------------------
(***************************************************************************)
(* A collection with its indexes and its journal: InMemoryCollection of    *)
(* packages/storage/src/in-memory-collection.ts.  Every operation runs to  *)
(* its end before the next; each may be refused, by a unique index or by   *)
(* the journal, after it has begun to change the indexes.                  *)
(*                                                                         *)
(* A JavaScript map is its contents and the order of its keys.  The        *)
(* numbers of "sequence" are represented by the order they give.           *)
(***************************************************************************)
EXTENDS FieldIndex

CONSTANTS
    Inserts,        \* the documents that are inserted
    Batches,        \* the pairs of documents that are inserted together
    Replacements,   \* the documents that replace others
    Filters,        \* the filters of queries
    WriteFilters,   \* the filters of updates and deletes
    Updates,        \* the updates: records of field, op and arg
    Specs,          \* the definitions of indexes: records of field, unique, sparse
    MaxIndexes      \* MAX_INDEXES_PER_COLLECTION

VARIABLES
    documents,  \* the map from keys to documents
    indexes,    \* the index of each field that has one
    sequence,   \* the keys in the order of their sequence numbers
    journal     \* whether there is one, the map and definitions it gives

vars == <<documents, indexes, sequence, journal>>

NoMap == [order |-> <<>>, docs |-> <<>>]

NoJournal == [on |-> FALSE, map |-> NoMap, specs |-> {}]

Init ==
    /\ documents = NoMap /\ indexes = <<>> /\ sequence = <<>>
    /\ journal \in {NoJournal, [NoJournal EXCEPT !.on = TRUE]}

-----------------------------------------------------------------------------
(* Maps, and the operations of a journal record applied to one.            *)

Has(map, k) == k \in DOMAIN map.docs

SetEntry(map, k, doc) ==
    [order |-> IF Has(map, k) THEN map.order ELSE Append(map.order, k),
     docs |-> (k :> doc) @@ map.docs]

DeleteEntry(map, k) ==
    [order |-> Remove(map.order, k),
     docs |-> Restrict(map.docs, DOMAIN map.docs \ {k})]

Put(k, doc) == [kind |-> "put", key |-> k, document |-> doc]
Delete(k) == [kind |-> "delete", key |-> k]

Applied(map, ops) ==
    FoldLeft(LAMBDA m, op : IF op.kind = "put" THEN SetEntry(m, op.key, op.document)
                            ELSE DeleteEntry(m, op.key),
             map, ops)

(* put and remove: the sequence numbers kept while there are indexes. *)
Numbered(seq, ops) ==
    IF DOMAIN indexes = {} THEN seq
    ELSE FoldLeft(LAMBDA s, op : IF op.kind = "delete" THEN Remove(s, op.key)
                                 ELSE IF Has(documents, op.key) THEN s
                                 ELSE Append(Remove(s, op.key), op.key),
                  seq, ops)

-----------------------------------------------------------------------------
(* candidates and the filter: the matching keys in the order a plan finds  *)
(* them.  A plan other than a scan exists only where there is an index.    *)

Plans(filter) == PlanQuery(filter, indexes, Len(documents.order))

Find(filter, plan) ==
    LET Hit(k) == Has(documents, k) /\ Matches(filter, k, documents.docs[k])
    IN  IF DOMAIN indexes = {} \/ plan.kind = "COLLSCAN"
        THEN SelectSeq(documents.order, Hit)
        ELSE SelectSeq(sequence, LAMBDA k : k \in plan.keys /\ Hit(k))

(* The key a filter names: { _id: id }. *)
Ids(filter) == UNION {c.args : c \in {d \in filter : d.field = "_id" /\ d.op = "$eq"}}

(* locate: the first match, as a sequence of at most one key. *)
Locate(filter, plan) ==
    LET found == IF Ids(filter) # {}
                 THEN SelectSeq(SetToSeq(Ids(filter)),
                                LAMBDA k : Has(documents, k) /\ Matches(filter, k, documents.docs[k]))
                 ELSE Find(filter, plan)
    IN  SubSeq(found, 1, Min({1, Len(found)}))

-----------------------------------------------------------------------------
(* What every write does with the changes it has worked out: the indexes   *)
(* take them or refuse them all, the journal takes the record or throws,   *)
(* and only then do the documents change.                                  *)

Throws(ixs) ==
    /\ indexes' = ixs
    /\ UNCHANGED <<documents, sequence, journal>>

(* Mutant: the documents change although the journal throws. *)
CommitAnyway(ixs, undo, ops) ==
    /\ indexes' = ixs
    /\ \/ journal' = IF journal.on THEN [journal EXCEPT !.map = Applied(@, ops)] ELSE journal
       \/ journal.on /\ ops # <<>> /\ UNCHANGED journal
    /\ documents' = Applied(documents, ops)
    /\ sequence' = Numbered(sequence, ops)

(* The journal is appended to, or throws and the indexes are rolled back.  *)
Commit(ixs, undo, ops) ==
    \/ /\ indexes' = ixs
       /\ journal' = IF journal.on THEN [journal EXCEPT !.map = Applied(@, ops)] ELSE journal
       /\ documents' = Applied(documents, ops)
       /\ sequence' = Numbered(sequence, ops)
    \/ /\ journal.on /\ ops # <<>>
       /\ Throws(Rollback(ixs, undo))

Write(changes, ops) ==
    LET tracked == ApplyChanges(indexes, changes)
    IN  IF tracked.conflict THEN Throws(tracked.ixs)
        ELSE Commit(tracked.ixs, tracked.undo, ops)

(* insertOne: a key that is taken is refused before anything else. *)
InsertOne(k, doc) ==
    /\ ~ Has(documents, k)
    /\ Write(<<[key |-> k, after |-> doc]>>, <<Put(k, doc)>>)

(* insertMany: the documents before the first that is refused are kept.    *)
Accept(acc, entry) ==
    LET tracked == ApplyChanges(acc.ixs, <<[key |-> entry.key, after |-> entry.document]>>)
        refused == \/ Has(documents, entry.key)
                   \/ \E i \in DOMAIN acc.ops : acc.ops[i].key = entry.key
    IN  IF acc.failed \/ refused THEN [acc EXCEPT !.failed = TRUE]
        ELSE IF tracked.conflict THEN [acc EXCEPT !.failed = TRUE, !.ixs = tracked.ixs]
        ELSE [acc EXCEPT !.ixs = tracked.ixs, !.undo = @ \o tracked.undo, !.ops = Append(@, entry)]

InsertMany(entries) ==
    LET accepted == FoldLeft(Accept, [ixs |-> indexes, undo |-> <<>>, ops |-> <<>>, failed |-> FALSE],
                             entries)
    IN  Commit(accepted.ixs, accepted.undo, accepted.ops)

DeleteKeys(found) ==
    Write([i \in DOMAIN found |-> [key |-> found[i], before |-> documents.docs[found[i]]]],
          [i \in DOMAIN found |-> Delete(found[i])])

DeleteOne(filter) ==
    \E plan \in Plans(filter) :
        /\ Locate(filter, plan) # <<>>
        /\ DeleteKeys(Locate(filter, plan))

DeleteMany(filter) ==
    \E plan \in Plans(filter) :
        /\ Find(filter, plan) # <<>>
        /\ DeleteKeys(Find(filter, plan))

(* The tail of replaceOne, updateOne and updateMany, with what each of the *)
(* documents becomes: those that come out different are written.           *)
Modify(found, after) ==
    LET changed == SelectSeq(found, LAMBDA k : after[k] # documents.docs[k])
    IN  /\ changed # <<>>
        /\ Write([i \in DOMAIN changed |->
                    [key |-> changed[i], before |-> documents.docs[changed[i]],
                     after |-> after[changed[i]]]],
                 [i \in DOMAIN changed |-> Put(changed[i], after[changed[i]])])

(* An upsert takes the _id of the filter, or a new one.  (The operations   *)
(* below are those with the upsert option; without it, a filter that       *)
(* matches nothing changes nothing.)                                       *)
Upsert(filter, doc) ==
    \E k \in IF Ids(filter) # {} THEN Ids(filter) ELSE Keys : InsertOne(k, doc)

ReplaceOne(filter, replacement) ==
    \E plan \in Plans(filter) :
        IF Locate(filter, plan) = <<>>
        THEN Upsert(filter, replacement)
        ELSE Modify(Locate(filter, plan), [k \in DOMAIN documents.docs |-> replacement])

(* updateOne and updateMany: an update that fails on one document changes  *)
(* none.                                                                   *)
UpdateFound(filter, u, found) ==
    IF found = <<>>
    THEN /\ ~ UpdateFails(u, Seed(filter))
         /\ Upsert(filter, ApplyUpdate(u, Seed(filter)))
    ELSE /\ \A i \in DOMAIN found : ~ UpdateFails(u, documents.docs[found[i]])
         /\ Modify(found, [k \in Range(found) |-> ApplyUpdate(u, documents.docs[k])])

UpdateOne(filter, u) ==
    \E plan \in Plans(filter) : UpdateFound(filter, u, Locate(filter, plan))

UpdateMany(filter, u) ==
    \E plan \in Plans(filter) : UpdateFound(filter, u, Find(filter, plan))

-----------------------------------------------------------------------------
(* buildIndex, and removeIndex: the numbers come with the first index and  *)
(* go with the last.                                                       *)
AddIndex(ix) ==
    /\ indexes' = (ix.spec.field :> ix) @@ indexes
    /\ sequence' = IF DOMAIN indexes = {} THEN documents.order ELSE sequence

RemoveIndex(f) ==
    /\ indexes' = Restrict(indexes, DOMAIN indexes \ {f})
    /\ sequence' = IF DOMAIN indexes \subseteq {f} THEN <<>> ELSE sequence

(* createIndex: the index is built, and taken away again when the journal  *)
(* throws.                                                                 *)
CreateIndex(spec) ==
    LET built == BuildIndex(spec, documents.order, documents.docs)
    IN  /\ spec.field \notin DOMAIN indexes
        /\ Cardinality(DOMAIN indexes) < MaxIndexes
        /\ ~ built.conflict
        /\ \/ /\ AddIndex(built.ix)
              /\ journal' = IF journal.on THEN [journal EXCEPT !.specs = @ \cup {spec}] ELSE journal
           \/ journal.on /\ RemoveIndex(spec.field) /\ UNCHANGED journal
        /\ UNCHANGED documents

(* dropIndex: the journal first. *)
DropIndex(f) ==
    /\ f \in DOMAIN indexes
    /\ RemoveIndex(f)
    /\ journal' = [journal EXCEPT !.specs = {s \in @ : s.field # f}]
    /\ UNCHANGED documents

(* The constructor, given what a recovery has read. *)
Reopen ==
    LET built == [f \in {s.field : s \in journal.specs} |->
                    BuildIndex(CHOOSE s \in journal.specs : s.field = f,
                               journal.map.order, journal.map.docs)]
    IN  /\ journal.on
        /\ \A f \in DOMAIN built : ~ built[f].conflict
        /\ documents' = journal.map
        /\ indexes' = [f \in DOMAIN built |-> built[f].ix]
        /\ sequence' = IF journal.specs = {} THEN <<>> ELSE journal.map.order
        /\ UNCHANGED journal

(* clear: only a collection without a journal. *)
Clear ==
    /\ ~ journal.on
    /\ documents' = NoMap /\ indexes' = <<>> /\ sequence' = <<>>
    /\ UNCHANGED journal

Next ==
    \/ \E k \in Keys, doc \in Inserts : InsertOne(k, doc)
    \/ \E k, l \in Keys, batch \in Batches : InsertMany(<<Put(k, batch[1]), Put(l, batch[2])>>)
    \/ \E filter \in WriteFilters : DeleteOne(filter)
    \/ \E filter \in WriteFilters : DeleteMany(filter)
    \/ \E filter \in WriteFilters, doc \in Replacements : ReplaceOne(filter, doc)
    \/ \E filter \in WriteFilters, u \in Updates : UpdateOne(filter, u)
    \/ \E filter \in WriteFilters, u \in Updates : UpdateMany(filter, u)
    \/ \E spec \in Specs : CreateIndex(spec)
    \/ \E f \in Fields : DropIndex(f)
    \/ Reopen
    \/ Clear

Spec == Init /\ [][Next]_vars

-----------------------------------------------------------------------------
(* The state has its type; the keys that have sequence numbers are those   *)
(* of the documents, as long as there is an index (put, remove).           *)
TypeOK ==
    /\ IsInjective(documents.order)
    /\ ToSet(documents.order) = DOMAIN documents.docs
    /\ DOMAIN documents.docs \subseteq Keys
    /\ \A k \in DOMAIN documents.docs : documents.docs[k] \in Document
    /\ DOMAIN indexes \subseteq Fields /\ Cardinality(DOMAIN indexes) <= MaxIndexes
    /\ \A f \in DOMAIN indexes : indexes[f].spec \in Specs /\ indexes[f].spec.field = f
    /\ ToSet(sequence) = IF DOMAIN indexes = {} THEN {} ELSE DOMAIN documents.docs

(* Whatever sequence of writes, refusals and rollbacks went before, every  *)
(* index is the one validateIndexes would build from the documents: the    *)
(* same entries, counts and array flag, and the entries of each class      *)
(* complete, each once, and in order; the sequence numbers are there too   *)
(* (TypeOK).                                                               *)
IndexesExact ==
    /\ TypeOK
    /\ \A f \in DOMAIN indexes :
        LET ix == indexes[f]
            fresh == BuildIndex(ix.spec, documents.order, documents.docs).ix
        IN  /\ [ix EXCEPT !.ordered = <<>>] = [fresh EXCEPT !.ordered = <<>>]
            /\ \A c \in Classes :
                 /\ ToSet(ix.ordered[c]) = ToSet(fresh.ordered[c])
                 /\ Len(ix.ordered[c]) = Len(fresh.ordered[c])
                 /\ \A i, j \in DOMAIN ix.ordered[c] :
                      i < j => CompareSameClass(ix.ordered[c][i], ix.ordered[c][j]) <= 0

(* Every plan the planner may choose for a query finds the documents, in   *)
(* the order, that a scan of the collection would ("the result is always   *)
(* the same as a scan", planner.ts).                                       *)
QueriesAgree ==
    \A filter \in Filters : \A plan \in Plans(filter) :
        Find(filter, plan) = Find(filter, [plan EXCEPT !.kind = "COLLSCAN"])

(* No two documents have the same value in, or lack, a unique field; an    *)
(* operation that would make it so has changed nothing.                    *)
UniqueHolds ==
    \A f \in DOMAIN indexes : indexes[f].spec.unique =>
        \A k, l \in DOMAIN documents.docs :
            k # l /\ documents.docs[k][f] = documents.docs[l][f]
            => documents.docs[k][f] = Missing /\ indexes[f].spec.sparse

(* The collection is what a recovery from its journal would give: the same *)
(* documents in the same order, and the same index definitions.            *)
MemoryIsJournaled ==
    journal.on => /\ documents = journal.map
                  /\ {indexes[f].spec : f \in DOMAIN indexes} = journal.specs
=============================================================================
