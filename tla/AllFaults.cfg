CONSTANTS
    Namespaces = {n1}
    Calls = {c1, c2}
    NoCall = NoCall
    MaxRetries = 1
    Sealed = TRUE
    RemoveFiles = "RemoveAll"
    FullFaults = TRUE
    IncrFaults = TRUE
    MaxCrashes = 1
    MaxTime = 4
SPECIFICATION Spec
INVARIANTS TypeOK FullFlagExact
PROPERTIES FullJobsSettle IncrJobEnds
CHECK_DEADLOCK FALSE
