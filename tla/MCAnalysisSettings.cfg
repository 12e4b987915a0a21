SPECIFICATION Spec
CONSTANTS
    Sessions = {s1, s2, s3}
    Default = Default
    Other = Other
    Strings <- SomeStrings
    Requests <- RequestsOfRun
    Environments <- DeployedEnvironments
    Demo = FALSE
    None = None
    Empty = Empty
INVARIANTS
    SavedSettingsAreUsable
PROPERTIES
    SavesLeaveWhatWasTested
    UnnamedFieldsAreKept
CHECK_DEADLOCK FALSE
