CONSTANTS
    Namespaces = {n1}
    Calls = {c1, c2}
    NoCall = NoCall
    MaxRetries = 1
    Sealed = FALSE
    RemoveFiles = "KeepAll"
    FullFaults = TRUE
    IncrFaults = FALSE
    MaxCrashes = 0
    MaxTime = 4
SPECIFICATION Safety
PROPERTIES LastFullRunAdvances
CHECK_DEADLOCK FALSE
