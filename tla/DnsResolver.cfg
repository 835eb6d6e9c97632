CONSTANTS
    Url = {1, 2, 3}
    Host = {"hA", "hB"}
    HostOf <- SharedHost
    IdMod = 2
    CacheMax = 1
    TryLimit = 0
    MaxInbox = 1
SPECIFICATION Spec
INVARIANTS RightAddressUntilWrap SoundWithoutFaults LimitsKept NoDatagramStranded
PROPERTIES FinalStays QueriesEnd
CHECK_DEADLOCK FALSE
