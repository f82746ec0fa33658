\* A miss without an inverter client.
SPECIFICATION Spec
CONSTANTS
    c1 = c1
    c2 = c2
    fast = fast
    slow = slow
    unpolled = unpolled
    Conns <- OneConn
    Regs <- AllRegs
    Ranges <- FewRanges
    FastItems <- FastReads
    SlowItems <- SlowReads
    ForwardUnknownReads = TRUE
    ScanPasses = 3
    MaxChanges = 1
    MaxDbErrors = 0
    MaxRestarts = 0
INVARIANT UnconnectedMissIsDeviceFailure
