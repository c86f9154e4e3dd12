SPECIFICATION Spec
CONSTANTS
    Clones = {c1, c2}
    a = a
    b = b
    x = x
    Paths = {a, b}
    Contents = {x}
    Absent = Absent
    Changes <- MoveChanges
    Forbidden <- RaceForbidden
    Gated = FALSE
    Retries = 2
    MaxCalls = 2
    MaxCrashes = 1
    MaxEdits = 1
SYMMETRY CloneSymmetry
PROPERTIES NoWorkLost
CHECK_DEADLOCK FALSE
