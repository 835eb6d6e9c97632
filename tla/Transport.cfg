CONSTANTS
    Total = 9
    Record = 3
    BASE_RANGE = 2
SPECIFICATION Spec
CHECK_DEADLOCK FALSE
INVARIANTS InOrder NothingStranded NoneLostAtEnd
PROPERTIES PageArrives
