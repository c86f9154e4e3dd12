SPECIFICATION FairSpec
CONSTANTS
    Clones = {c1, c2}
    a = a
    b = b
    x = x
    Paths = {a, b}
    Contents = {x}
    Absent = Absent
    Changes <- RaceChanges
    Forbidden <- RaceForbidden
    Gated = TRUE
    Retries = 2
    MaxCalls = 2
    MaxCrashes = 0
    MaxEdits = 0
INVARIANTS TypeOK NoLostUpdate MainStaysValid
PROPERTIES PushedOnGreen CallsReturn
CHECK_DEADLOCK FALSE
