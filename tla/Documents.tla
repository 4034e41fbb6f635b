------------------------------ MODULE Documents ------------------------------
(***************************************************************************)
(* Documents, and what filters, updates and comparisons make of them:      *)
(* filter.ts, update.ts, sort.ts and indexing/values.ts of packages/       *)
(* storage/src.                                                            *)
(*                                                                         *)
(* A value is its canonical encoding, so two values are equal when their   *)
(* bytes are.  0 and -0 are different values that compare as equal; NaN    *)
(* and arrays do not compare at all.  A document gives every field a value *)
(* or Missing; a path of several segments counts as a field.               *)
(***************************************************************************)
EXTENDS Integers, FiniteSets

CONSTANTS
    Fields,
    Values,
    Missing,
    ClassOf,        \* valueClassOf: the class of comparable values, or "none"
    TypeRank,       \* rankOf: the order of the types
    Magnitude,      \* the order of the values of one type
    Elements,       \* the elements of an array, none for other values
    SumOf           \* v + 1 for numbers, Missing for other values

Document == [Fields -> Values \cup {Missing}]

ASSUME ValueConstants ==
    /\ Missing \notin Values
    /\ Magnitude \in [Values -> Int] /\ TypeRank \in [Values -> Nat]
    /\ Elements \in [Values -> SUBSET Values]
    /\ SumOf \in [Values -> Values \cup {Missing}]
    /\ \A v, w \in Values : ClassOf[v] = ClassOf[w] /\ ClassOf[v] # "none" => TypeRank[v] = TypeRank[w]

-----------------------------------------------------------------------------
(* compareSameClass; compareValues for values of one class. *)
CompareSameClass(v, w) == Magnitude[v] - Magnitude[w]

Comparable(v, w) == ClassOf[v] = ClassOf[w] /\ ClassOf[v] # "none"

(* compareDocumentValues: the order of sorts, and of $min and $max.        *)
CompareDocumentValues(v, w) ==
    IF TypeRank[v] # TypeRank[w] THEN TypeRank[v] - TypeRank[w] ELSE CompareSameClass(v, w)

(* A clause of a filter: a field, an operator and its operands, a set.     *)
(* $exists asks for the field when it has an operand.  ($and, $or, $nor    *)
(* and $not are not here: the planner sees through $and and ignores the    *)
(* others, as it ignores $ne.)                                             *)
Operand(c) == CHOOSE v \in c.args : TRUE

Sign(d) == IF d > 0 THEN 1 ELSE IF d < 0 THEN -1 ELSE 0

(* compileComparisonPredicate, with the results that the operator accepts. *)
Compares(v, c, signs) ==
    v # Missing /\ Comparable(v, Operand(c)) /\ Sign(CompareSameClass(v, Operand(c))) \in signs

(* An equality looks at the value as a whole, $in also at the elements of  *)
(* an array.                                                               *)
ClauseHolds(c, v) ==
    CASE c.op = "$eq" -> v = Operand(c)
      [] c.op = "$ne" -> v # Operand(c)
      [] c.op = "$in" -> v # Missing /\ (v \in c.args \/ Elements[v] \cap c.args # {})
      [] c.op = "$gt" -> Compares(v, c, {1})
      [] c.op = "$gte" -> Compares(v, c, {0, 1})
      [] c.op = "$lt" -> Compares(v, c, {-1})
      [] c.op = "$lte" -> Compares(v, c, {-1, 0})
      [] c.op = "$exists" -> (v # Missing) = (c.args # {})

(* compileFilter: a filter is a set of clauses, all of which must hold for *)
(* the document and its _id k.                                             *)
Matches(filter, k, doc) ==
    \A c \in filter :
        IF c.field = "_id" THEN k \in c.args ELSE ClauseHolds(c, doc[c.field])

(* seedDocumentFromFilter: the fields whose only condition is an equality. *)
Seed(filter) ==
    LET On(f) == {c \in filter : c.field = f}
    IN  [f \in Fields |->
           IF \E c \in On(f) : c.op = "$eq" /\ On(f) = {c}
           THEN Operand(CHOOSE c \in On(f) : TRUE)
           ELSE Missing]

(* applyInstruction, and whether it throws: $inc of what is not a number.  *)
UpdateFails(u, doc) ==
    u.op = "$inc" /\ doc[u.field] # Missing /\ SumOf[doc[u.field]] = Missing

ApplyUpdate(u, doc) ==
    LET v == doc[u.field]
        w == CASE u.op = "$set" -> u.arg
               [] u.op = "$unset" -> Missing
               [] u.op = "$inc" -> IF v = Missing THEN u.arg ELSE SumOf[v]
               [] u.op = "$max" -> IF v = Missing \/ CompareDocumentValues(u.arg, v) > 0
                                   THEN u.arg ELSE v
    IN  [doc EXCEPT ![u.field] = w]
=============================================================================
