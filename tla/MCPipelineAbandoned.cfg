SPECIFICATION FairSpec
CONSTANTS
    Requests = {r1, r2}
    Workers = {w1, w2}
    Contents = {"invalid"}
    MaxRetries = 1
    MaxFaults = 0
PROPERTIES
    EveryParseSettles
CHECK_DEADLOCK FALSE
