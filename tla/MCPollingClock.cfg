\* A restart, failing reads and writes by handlers at any time.
SPECIFICATION Spec
CONSTANTS
    fast = fast
    slow = slow
    Fast <- OneFast
    Slow <- OneSlow
    SlowInterval = 2
    TTL = 9
    MaxScan = 1
    MaxFast = 1
    MaxSlow = 1
    Base = 2
    MaxTime = 22
    MaxRestarts = 1
INVARIANTS
    TypeOK
    ServedAge
    SlowGroupsTried
    AnsweringGroupStays
PROPERTY PurgeExact
CHECK_DEADLOCK FALSE
