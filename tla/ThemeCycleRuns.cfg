SPECIFICATION Spec
CONSTANTS
    e1 = e1
    e2 = e2
    d1 = d1
    d2 = d2
    Entries = {e1}
    Contested = {e1}
    Digests = {d1, d2}
    Unsigned = Unsigned
    MaxRuns = 1
    MaxUpsets = 1
SYMMETRY DigestSymmetry
INVARIANTS TypeOK StatusIsBacked PlanTellsTruth
PROPERTIES SettlesLast
CHECK_DEADLOCK FALSE
