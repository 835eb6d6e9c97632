CONSTANTS
    NULL = NULL
    h1 = h1
    h2 = h2
    h3 = h3
    s1 = s1
    s2 = s2
    N = 3
    Client = {h1, h2, s1}
    Https = {s1}
    Renegotiates = {s1}
    Threshold = 0
SYMMETRY PlainSymmetry
SPECIFICATION Spec
INVARIANTS PoolConsistent ClientConnection NoStaleDispatch HandlersValid FlagsFresh
    InterestMatches HasWakeup TlsBeforeRequest
PROPERTIES FetchesOnce
