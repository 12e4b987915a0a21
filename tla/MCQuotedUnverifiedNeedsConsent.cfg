SPECIFICATION Spec
CONSTANTS
    Clients = {c1, c2}
    Requirements = {q1}
    Documents = {d1}
    Texts = {t0, t1}
    Extracted = t0
    Blank = t0
    MaxClock = 4
    None = None
INVARIANTS
    QuotedUnverifiedNeedsConsent
CHECK_DEADLOCK FALSE
