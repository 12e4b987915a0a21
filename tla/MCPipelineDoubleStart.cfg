SPECIFICATION Spec
CONSTANTS
    Requests = {r1, r2}
    Workers = {w1, w2}
    Contents = {"blocks"}
    MaxRetries = 1
    MaxFaults = 0
PROPERTIES
    ActiveDocumentIsNotRestarted
CHECK_DEADLOCK FALSE
