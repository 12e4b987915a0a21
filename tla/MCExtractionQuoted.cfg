SPECIFICATION Spec
CONSTANTS
    Sizes = {2}
    MaxBlocks = 2
    Quotes = {q1, q2}
    Keys = {k1, k2}
    MaxItems = 2
    Providers = {"openai", "local", "fake"}
    TargetChars = 2
    HardMaxChars = 4
    OverlapBlocks = 1
    MaxAttempts = 1
INVARIANTS
    QuotedIsVerified
CHECK_DEADLOCK FALSE
