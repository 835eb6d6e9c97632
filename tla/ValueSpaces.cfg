CONSTANTS
    Responses <- MCResponses
    Number <- MCNumber
    Word = 256
    BASE_RANGE = 1
    Expansion = 16
SPECIFICATION Spec
INVARIANT ValuesAsDescribed
CHECK_DEADLOCK FALSE
