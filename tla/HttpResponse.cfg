CONSTANTS
    Responses <- MCResponses
    Number <- MCNumber
    Word = 256
    BASE_RANGE = 1
    Expansion = 16
SPECIFICATION Spec
INVARIANTS HeadCutAnywhere FieldsRecorded PageExact CompleteIsParsed BuffersHold
PROPERTIES AsEventLoopAssumes
CHECK_DEADLOCK FALSE
