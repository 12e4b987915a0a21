SPECIFICATION Spec
CONSTANTS
    Requests = {r1, r2}
    Workers = {w1}
    Contents = {"blocks"}
    MaxRetries = 1
    MaxFaults = 0
INVARIANTS
    RequirementsKeepEvidence
CHECK_DEADLOCK FALSE
