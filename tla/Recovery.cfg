CONSTANTS
    Namespaces = {n1}
    Calls = {c1, c2}
    NoCall = NoCall
    MaxRetries = 1
    Sealed = TRUE
    RemoveFiles = "KeepAll"
    FullFaults = TRUE
    IncrFaults = FALSE
    MaxCrashes = 2
    MaxTime = 5
SPECIFICATION Safety
SYMMETRY Symmetry
INVARIANTS ChainUnbroken LastFullRunPerformed
CHECK_DEADLOCK FALSE
