\* Pages against the scan, two polling cycles and a handler.
SPECIFICATION Spec
CONSTANTS
    AddressSpace = 3
    WordSize = 2
    Groups <- TwoGroups
    Metric = 0
    Powers <- TwoPowers
    ScanPasses = 2
    MaxCount = 2
    MaxCycles = 2
INVARIANTS
    TypeOK
    StatsFit
    MetricIsOneAnswer
    ShownInPlace
\* The polling cycles are bounded; the page may be done with no handler left.
CHECK_DEADLOCK FALSE
