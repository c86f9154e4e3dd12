SPECIFICATION Spec
CONSTANTS
    Clones = {c1}
    a = a
    b = b
    x = x
    Paths = {a, b}
    Contents = {x}
    Absent = Absent
    Changes <- RaceChanges
    Forbidden <- RaceForbidden
    Gated = TRUE
    Retries = 1
    MaxCalls = 2
    MaxCrashes = 0
    MaxEdits = 0
INVARIANTS LandedIsOnMain
CHECK_DEADLOCK FALSE
