SPECIFICATION Spec
CONSTANTS
    Runs = {r1, r2}
    Aliases = {a1}
    Requests = {q1}
    Texts = {}
    m1 = m1
    m2 = m2
    Models = {m1, m2}
    Embedder = m1
    NoModel = NoModel
    Hint <- HintM1
    MaxCalls = 2
    MaxMessages = 0
    MaxAttempts = 1
    Breaker = 1
    MaxShrinks = 0
    MaxDrifts = 1
    MaxAnswers = 2
SYMMETRY RunSymmetry
INVARIANTS TypeOK CacheFaithful
PROPERTIES PinHolds
