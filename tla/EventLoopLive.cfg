CONSTANTS
    NULL = NULL
    h1 = h1
    s1 = s1
    N = 2
    Client = {h1, s1}
    Https = {s1}
    Renegotiates = {s1}
    Threshold = 0
    MaxReports = 4
SPECIFICATION LiveSpec
PROPERTIES EveryClientRetrieved QuitTerminates
