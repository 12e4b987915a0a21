SPECIFICATION Spec
CONSTANTS
    Forms = {f1, f2}
    Emails = {alice}
    Remembered = Remembered
    None = None
    MaxUses = 1
INVARIANTS
    HeaderFollowsToken
    LoadingHasCause
PROPERTIES
    LoadingEnds
    SessionSettles
CHECK_DEADLOCK FALSE
