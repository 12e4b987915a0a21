SPECIFICATION FairSpec
CONSTANTS
    Sizes = {1, 4, 6}
    MaxBlocks = 3
    Quotes = {q1}
    Keys = {k1, k2}
    MaxItems = 2
    Providers = {"openai", "local", "fake", "misconfigured"}
    TargetChars = 4
    HardMaxChars = 5
    OverlapBlocks = 2
    MaxAttempts = 2
INVARIANTS
    ChunksPartitionBlocks
    ChunksFit
    OutcomeIsHonest
    MergeKeepsSources
    VerifiedIsQuoted
PROPERTIES
    AnalysisEnds
CHECK_DEADLOCK FALSE
