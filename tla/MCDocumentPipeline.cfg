SPECIFICATION FairSpec
CONSTANTS
    Requests = {r1, r2}
    Workers = {w1, w2}
    Contents = {"blocks", "scanned", "malformed", "invalid"}
    MaxRetries = 1
    MaxFaults = 2
INVARIANTS
    TypeOK
    ActiveIsOwned
    AnalysisReadsCurrentBlocks
    ErrorMatchesState
    ReviewableIsBacked
PROPERTIES
    DeletionIsFinal
    ProcessingSettles
    ImplementsLifecycle
CHECK_DEADLOCK FALSE
