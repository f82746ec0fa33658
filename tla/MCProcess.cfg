\* The whole life of the process, with two clients.  No symmetry: liveness.
SPECIFICATION FairSpec
CONSTANTS
    c1 = c1
    c2 = c2
    Conns <- TwoConns
    ScanPasses = 3
INVARIANTS
    TypeOK
    LateRequests
    StoppedOnlyByListenError
PROPERTIES
    SignalEnds
    CancelStopsAll
\* The process exits.
CHECK_DEADLOCK FALSE
