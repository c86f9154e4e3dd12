SPECIFICATION FairSpec
CONSTANTS
    Runs = {r1}
    Aliases = {a1}
    Requests = {q1}
    Texts = {t1, t2}
    m1 = m1
    m2 = m2
    Models = {m1, m2}
    Embedder = m1
    NoModel = NoModel
    Hint <- HintM1
    MaxCalls = 2
    MaxMessages = 1
    MaxAttempts = 2
    Breaker = 2
    MaxShrinks = 1
    MaxDrifts = 1
    MaxAnswers = 3
INVARIANTS CapsHold CallsAccounted
PROPERTIES CallReturns
