SPECIFICATION Spec
CONSTANTS
    a = a
    b = b
    d = d
    c = c
    q = q
    r = r
    t1 = t1
    t2 = t2
    sa = sa
    sb = sb
    sd = sd
    sc = sc
    sx = sx
    None = None
    Nodes = {a, b, d, c}
    Qualities = {q}
    Rules = {r}
    Texts = {t1, t2}
    Slugs = {sa, sb, sd, sc, sx}
    MaxHops = 2
    Slug <- MintSlug
    Stores <- Beginnings
    Seeds <- Minted
    Ops <- Restructures
    MaxCommits = 2
INVARIANTS StoreSound StaleNeverLands FactsAccounted RollbackHolds
PROPERTIES URLsKept
CHECK_DEADLOCK FALSE
