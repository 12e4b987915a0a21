SPECIFICATION Spec
CONSTANTS
    Readers = {g1}
    Tails = {t1}
    Workers = {w1, w2}
    Sources = {A, B}
    Takes = {1}
    MaxEdits = 1
    MaxFaults = 0
    None = None
INVARIANTS
    StaleIsBeingRefreshed
CHECK_DEADLOCK FALSE
