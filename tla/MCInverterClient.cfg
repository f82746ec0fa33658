\* The reader and one handler, two calls in any mix, every fault.  No
\* symmetry, since liveness is checked too.
SPECIFICATION FairSpec
CONSTANTS
    reader = reader
    h1 = h1
    u1 = u1
    u2 = u2
    None = None
    Reader = reader
    Callers <- OneHandler
    Units <- TwoUnits
    MaxRetries = 3
    Pause = 1
    MaxCalls = 2
INVARIANTS
    TypeOK
    AcceptsOnlyOwnAnswer
    ReaderLeavesNoLateAnswer
    OneRequestAfterCancel
PROPERTIES
    OwnAnswerRestoresStep
    EarlyOnlyOnNewConnection
    CallsReturn
CHECK_DEADLOCK FALSE
