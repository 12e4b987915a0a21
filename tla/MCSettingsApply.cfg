SPECIFICATION Spec
CONSTANTS
    Sessions = {s1, s2, s3}
    Default = Default
    Other = Other
    Strings <- SomeStrings
    Requests <- RequestsOfRun
    Environments <- DeployedEnvironments
    Demo = FALSE
    None = None
    Empty = Empty
PROPERTIES
    SavedProviderApplies
CHECK_DEADLOCK FALSE
