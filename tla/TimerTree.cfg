CONSTANTS
    Node = {1, 2, 3, 4, 5, 6, 7}
    sentinel = sentinel
    NULL = NULL
    Modulus = 32
    Base = 28
    KeyOf <- MCKeyOf
SPECIFICATION Spec
INVARIANTS HoldsInserted SortedByDueTime RedBlack
