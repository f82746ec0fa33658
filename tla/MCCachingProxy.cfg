\* One connection, every interleaving with scan and polling, one restart.
SPECIFICATION Spec
CONSTANTS
    c1 = c1
    c2 = c2
    fast = fast
    slow = slow
    unpolled = unpolled
    Conns <- OneConn
    Regs <- AllRegs
    Ranges <- FewRanges
    FastItems <- FastReads
    SlowItems <- SlowReads
    ForwardUnknownReads = TRUE
    ScanPasses = 2
    MaxChanges = 2
    MaxDbErrors = 0
    MaxRestarts = 1
INVARIANTS
    TypeOK
    NothingInvented
    BatchIsOfThisCycle
    ScanLosesNoGroup
    QuietCacheHasLastWrite
PROPERTY FlushUndoesOnlyThisCycle
