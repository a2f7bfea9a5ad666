CONSTANTS
    Requests = {q1}
    Clusters = {c1}
    Storages = {s1}
    Policies = {p1}
    Routines = {r1}
    Initial = Initial
    Absent = Absent
    Null = Null
    NoName = NoName
    Broken = Broken
    Manager = "file"
    Conflicts = {{"addRoutine", "delete"}, {"addRoutine", "update"}, {"updateRoutine", "delete"}, {"updateRoutine", "update"}, {"updateConfig", "add"}, {"updateConfig", "update"}, {"updateConfig", "delete"}, {"updateConfig", "addRoutine"}, {"updateConfig", "updateRoutine"}, {"updateConfig", "deleteRoutine"}, {"updateConfig"}, {"apply", "addRoutine"}, {"apply", "deleteRoutine"}, {"apply"}}
    Flawed = {}
    WriteFaults = FALSE
    MaxCrashes = 0
    Executions = {e1}
    Texts = {Empty, text}
    Empty = Empty
    Limits = {"parallel"}
    Counts = {"max-retries", "retry-delay"}
    MaxNumber = 1
SPECIFICATION Spec
SYMMETRY Symmetry
INVARIANTS OneFullBackup
CHECK_DEADLOCK FALSE
