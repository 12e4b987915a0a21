SPECIFICATION FairSpec
CONSTANTS
    Readers = {g1}
    Tails = {t1}
    Workers = {w1, w2}
    Sources = {A, B}
    Takes = {1}
    MaxEdits = 2
    MaxFaults = 1
    None = None
INVARIANTS
    TypeOK
    UnsettledIsOwned
    SucceededHasHighlights
    CreatorIsAlone
PROPERTIES
    SummarySettles
CHECK_DEADLOCK FALSE
