\* Requests are answered and the scan ends, whatever the inverter does; and if
\* it answers, the cache of the polled registers converges.
SPECIFICATION FairSpec
CONSTANTS
    c1 = c1
    c2 = c2
    fast = fast
    slow = slow
    unpolled = unpolled
    Conns <- OneConn
    Regs <- PolledRegs
    Ranges <- PolledRange
    FastItems <- FastReads
    SlowItems <- SlowReads
    ForwardUnknownReads = TRUE
    ScanPasses = 2
    MaxChanges = 1
    MaxDbErrors = 1
    MaxRestarts = 1
PROPERTIES
    RequestsAnswered
    ScanEnds
    Converges
