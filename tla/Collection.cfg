CONSTANTS
    k1 = k1
    k2 = k2
    k3 = k3
    Keys <- ThreeKeys
    Fields <- TwoFields
    Values <- SomeValues
    Missing = "none"
    ClassOf <- Classed
    TypeRank <- Ranked
    Magnitude <- Sized
    Elements <- Contained
    SumOf <- PlusOne
    Inserts <- SomeDocuments
    Batches <- SomeBatches
    Replacements <- SomeReplacements
    Filters <- SomeFilters
    WriteFilters <- SomeWriteFilters
    Updates <- SomeUpdates
    Specs <- SomeSpecs
    MaxIndexes = 2
SPECIFICATION Spec
SYMMETRY KeyPermutations
INVARIANTS
    IndexesExact
    QueriesAgree
    UniqueHolds
    MemoryIsJournaled
