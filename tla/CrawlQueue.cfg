CONSTANTS
    Worker = {0, 1}
    Url = {"f", "g"}
    Seed <- MCSeed
    Links <- MCLinks
    Offsets <- MCOffsets
    ListOf <- MCListOf
    connection_n = 1
    connection_threshold = 0
    MaxRefusals = 1
SPECIFICATION Spec
INVARIANTS NoFalseNegative PushedOncePerWipe MarkedIsQueued
PROPERTIES QueuedIsTaken CrawlEnds
CHECK_DEADLOCK FALSE
