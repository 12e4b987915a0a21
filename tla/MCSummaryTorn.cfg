SPECIFICATION Spec
CONSTANTS
    Readers = {g1}
    Tails = {}
    Workers = {w1, w2}
    Sources = {A, B}
    Takes = {1, 2}
    MaxEdits = 4
    MaxFaults = 0
    None = None
INVARIANTS
    ResultIsStoredWhole
CHECK_DEADLOCK FALSE
