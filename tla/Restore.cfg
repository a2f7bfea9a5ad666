CONSTANTS
    Namespaces = {n1, n2}
    Calls = {c1}
    NoCall = NoCall
    MaxRetries = 0
    Sealed = FALSE
    RemoveFiles = "KeepAll"
    FullFaults = FALSE
    IncrFaults = FALSE
    MaxCrashes = 0
    MaxTime = 4
    Jobs = {j1}
    RestoreTimes = {3, 4}
    RestoreFlags = {"no-generation"}
    Texts = {Empty, text}
    Empty = Empty
    Limits = {"parallel"}
    Counts = {"max-retries", "retry-delay"}
    MaxNumber = 1
    OnlyComplete = TRUE
    ConfigChanges = TRUE
    RestoreFaults = TRUE
SPECIFICATION RestoreSpec
SYMMETRY Symmetry
INVARIANTS RestoreTypeOK ProgressBounded
PROPERTIES DoneRestoresAll
CHECK_DEADLOCK FALSE
