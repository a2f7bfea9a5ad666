CONSTANTS
    Namespaces = {n1}
    Calls = {c1, c2}
    NoCall = NoCall
    MaxRetries = 0
    Sealed = TRUE
    RemoveFiles = "RemoveIncremental"
    FullFaults = FALSE
    IncrFaults = FALSE
    MaxCrashes = 0
    MaxTime = 5
SPECIFICATION Safety
INVARIANTS ChainUnbroken
CHECK_DEADLOCK FALSE
