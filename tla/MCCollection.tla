---------------------------- MODULE MCCollection ----------------------------
(***************************************************************************)
(* The instance of Collection for TLC: the numbers -0, 0 and 1, a string   *)
(* and an array, on two fields.                                            *)
(***************************************************************************)
EXTENDS Collection, TLC

CONSTANTS k1, k2, k3

KeyPermutations == Permutations(Keys)

ThreeKeys == {k1, k2, k3}

TwoFields == {"f", "g"}

SomeValues == {"-0", "0", "1", "a", "[0]"}

Classed == [v \in SomeValues |->
    CASE v \in {"-0", "0", "1"} -> "number" [] v = "a" -> "string" [] OTHER -> "none"]

Ranked == [v \in SomeValues |-> CASE v = "a" -> 3 [] v = "[0]" -> 8 [] OTHER -> 2]

Sized == [v \in SomeValues |-> IF v = "1" THEN 1 ELSE 0]

Contained == [v \in SomeValues |-> IF v = "[0]" THEN {"0"} ELSE {}]

PlusOne == [v \in SomeValues |-> IF v \in {"-0", "0"} THEN "1" ELSE "none"]

D(f, g) == [x \in TwoFields |-> IF x = "f" THEN f ELSE g]

SomeDocuments == {D("-0", "none"), D("0", "1"), D("1", "none"),
     D("a", "1"), D("[0]", "none"), D("none", "1")}

(* Two numbers that compare as equal, two equal arrays, an order to undo.  *)
SomeBatches ==
    {<<D("0", "1"), D("-0", "none")>>, <<D("[0]", "none"), D("[0]", "none")>>,
     <<D("1", "none"), D("none", "1")>>}

SomeReplacements == {D("-0", "none"), D("[0]", "none"), D("none", "1")}

C(f, op, args) == [field |-> f, op |-> op, args |-> args]

ById == {{C("_id", "$eq", {k})} : k \in ThreeKeys}

SomeWriteFilters ==
    ById \cup {{}, {C("f", "$gte", {"0"})}, {C("f", "$in", {"0", "a"})}, {C("f", "$eq", {"1"})}}

SomeFilters ==
    SomeWriteFilters \cup
    {{C("_id", "$in", S), C("g", "$eq", {"1"})} : S \in SUBSET ThreeKeys} \cup
    {{C("f", "$gt", {"-0"}), C("f", "$lte", {"1"})}, {C("f", "$gt", {"0"}), C("f", "$lt", {"a"})},
     {C("f", "$gte", {"-0"}), C("f", "$gt", {"0"})}, {C("f", "$lt", {"1"}), C("g", "$eq", {"1"})},
     {C("f", "$eq", {"[0]"})}, {C("f", "$ne", {"0"})}, {C("f", "$exists", {})},
     {C("f", "$in", {"-0", "1"}), C("f", "$gte", {"1"})}, {C("g", "$in", {"1"})}}

U(f, op, arg) == [field |-> f, op |-> op, arg |-> arg]

SomeUpdates == {U("f", "$inc", "1"), U("f", "$unset", "1"), U("f", "$max", "0")}

SomeSpecs ==
    {[field |-> "f", unique |-> u, sparse |-> s] : u, s \in BOOLEAN} \cup
    {[field |-> "g", unique |-> TRUE, sparse |-> TRUE]}
=============================================================================
