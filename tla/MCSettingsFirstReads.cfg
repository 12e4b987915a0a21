SPECIFICATION Spec
CONSTANTS
    Sessions = {s1, s2}
    Default = Default
    Other = Other
    Strings <- SomeStrings
    Requests <- RequestsOfRun
    Environments <- DeployedEnvironments
    Demo = FALSE
    None = None
    Empty = Empty
INVARIANTS
    ReadsSucceed
CHECK_DEADLOCK FALSE
