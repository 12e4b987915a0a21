SPECIFICATION Spec
CONSTANTS
    Clients = {c1, c2}
    Requirements = {q1}
    Documents = {d1}
    Texts = {t0, t1}
    Extracted = t0
    Blank = t0
    MaxClock = 6
    None = None
SYMMETRY Symmetry
INVARIANTS
    TypeOK
    ItemFollowsReview
    UnverifiedNeedsConsent
PROPERTIES
    NoDecisionLost
    NoNoteLost
CHECK_DEADLOCK FALSE
