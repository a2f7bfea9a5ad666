CONSTANTS
    Namespaces = {n1}
    Calls = {c1}
    NoCall = NoCall
    MaxRetries = 0
    Sealed = FALSE
    RemoveFiles = "KeepAll"
    FullFaults = FALSE
    IncrFaults = TRUE
    MaxCrashes = 0
    MaxTime = 4
SPECIFICATION Safety
PROPERTIES LastIncrRunPerformed
CHECK_DEADLOCK FALSE
