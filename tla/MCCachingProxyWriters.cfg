\* Two connections write the same register.
SPECIFICATION Spec
CONSTANTS
    c1 = c1
    c2 = c2
    fast = fast
    slow = slow
    unpolled = unpolled
    Conns <- TwoConns
    Regs <- AllRegs
    Ranges <- FewRanges
    FastItems <- FastReads
    SlowItems <- SlowReads
    ForwardUnknownReads = TRUE
    ScanPasses = 1
    MaxChanges = 2
    MaxDbErrors = 0
    MaxRestarts = 0
INVARIANT QuietCacheHasLastWrite
