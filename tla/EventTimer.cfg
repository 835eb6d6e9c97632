CONSTANTS
    e1 = e1
    e2 = e2
    Node = {e1, e2}
    sentinel = sentinel
    NULL = NULL
    Modulus = 26
    Timeouts = {2, 5}
    TIMER_LAZY_DELAY = 3
    Steps <- MCSteps
    MaxLate = 4
    MaxAhead = 5
SYMMETRY EventSymmetry
SPECIFICATION Spec
PROPERTIES KeepsPromise
