CONSTANTS
    Namespaces = {n1, n2}
    Calls = {c1, c2}
    NoCall = NoCall
    MaxRetries = 1
    Sealed = FALSE
    RemoveFiles = "KeepAll"
    FullFaults = TRUE
    IncrFaults = FALSE
    MaxCrashes = 0
    MaxTime = 5
SPECIFICATION Safety
SYMMETRY Symmetry
INVARIANTS FullFlagExact ChainUnbroken LastFullRunPerformed
CHECK_DEADLOCK FALSE
