\* Every interleaving of two callers' statements; the cache is atomic.
SPECIFICATION FairSpec
CONSTANTS
    reader = reader
    handler = handler
    k1 = k1
    k2 = k2
    v1 = v1
    v2 = v2
    Missing = Missing
    None = None
    Callers <- TwoCallers
    Keys <- TwoKeys
    Vals <- TwoVals
    Puts <- SomePuts
    Gets <- SomeGets
INVARIANTS
    TypeOK
    ProgressFitsTable
PROPERTIES
    Atomic
    OpsEnd
