CONSTANTS
    Requests = {q1, q2}
    Clusters = {c1}
    Storages = {s1}
    Policies = {p1}
    Routines = {r1}
    Initial = Initial
    Absent = Absent
    Null = Null
    NoName = NoName
    Broken = Broken
    Manager = "storage"
    Conflicts = {{"apply"}, {"apply", "addRoutine"}, {"apply", "deleteRoutine"}, {"apply", "schedule"}}
    Flawed = {c1, s1, p1}
    WriteFaults = TRUE
    MaxCrashes = 1
    Executions = {e1}
    Texts = {Empty, text}
    Empty = Empty
    Limits = {"parallel"}
    Counts = {"max-retries", "retry-delay"}
    MaxNumber = 1
SPECIFICATION Spec
SYMMETRY Symmetry
 
PROPERTIES OnlyStaleBreaks NewBackupsAreCurrent
CHECK_DEADLOCK FALSE
