\* Requests on either side of every limit, on one connection.
SPECIFICATION Spec
CONSTANTS
    TxIds <- OneTxId
    Protocols <- BothProtocols
    Lengths <- EdgeLengths
    FunctionCodes <- EachFunction
    Counts <- EdgeCounts
    ByteCounts <- EdgeByteCounts
    AnswerSizes <- EdgeAnswers
INVARIANTS
    TypeOK
    NoPanic
    ReplyFramed
    AckedAsStored
PROPERTY ConformingAccepted
CHECK_DEADLOCK FALSE
