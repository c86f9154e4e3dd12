SPECIFICATION EvidenceSpec
CONSTANTS
    s = s
    t = t
    u = u
    f = f
    g = g
    x = x
    y = y
    short = short
    n = n
    m = m
    lines = lines
    pages_ = pages_
    b1 = b1
    b2 = b2
    b3 = b3
    NoEntry = NoEntry
    None = None
    NoBody = NoBody
    Sources = {s, t, u}
    Texts = {x, y, short}
    Names = {n, m}
    KindLists = {lines, pages_}
    DefaultKinds = pages_
    Mute <- NoLocators
    Thin = {short}
    MaxPuts = 2
    MaxUpsets = 1
    Facts = {f, g}
    Cites <- Citing
    Known = {s, t, u}
    Tier <- Tiers
    Verifiers = {nightly, gate}
    Nightly = {nightly}
    nightly = nightly
    gate = gate
    Budget = 1
    Outcomes = {"supported", "unsupported", "contradicted"}
    MaxWork = 2
    Bodies = {b1, b2, b3}
    Anchored = {b1, b2}
    Announcing = {b1, b3}
    Interval = 1
    MaxTicks = 2
    MaxChanges = 2
    MaxOutages = 1
    MaxKills = 1
    Shapes <- Blocks
    Preferences <- LocatorOrders
    MaxTokens = 8
    Target = 5
    Take = 2
    MaxBlocks = 4
INVARIANTS SkipIsSound RefusedIsVisible  CurrencySound ChunksCover
PROPERTIES DriftIsFiled
CHECK_DEADLOCK FALSE
