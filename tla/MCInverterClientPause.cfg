\* The reader and one handler, two calls: the gap is not always kept.
SPECIFICATION Spec
CONSTANTS
    reader = reader
    h1 = h1
    u1 = u1
    u2 = u2
    None = None
    Reader = reader
    Callers <- OneHandler
    Units <- OneUnit
    MaxRetries = 3
    Pause = 1
    MaxCalls = 2
PROPERTY PauseKept
CHECK_DEADLOCK FALSE
