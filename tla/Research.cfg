SPECIFICATION ResearchSpec
CONSTANTS
    s = s
    t = t
    u = u
    v = v
    f = f
    f2 = f2
    g = g
    summary = summary
    note = note
    nightly = nightly
    command = command
    here = here
    there = there
    Cited = {s, t, u, v}
    Known = {s, t, u}
    Tier <- Tiers
    Independent <- Unrelated
    NoValue = NoValue
    Cases <- AllCases
    Dated = {s}
    MaxCitations = 3
    Order <- FactOrder
    Key <- KeyOf
    Present = {f, g}
    Workers = {nightly, command}
    Commands = {command}
    Findings <- LedgerRows
    Versions <- Texts
    Levels = {0, 3}
    MaxRuns = 2
    MaxChanges = 1
    Catalogue <- Carved
    NodeOuts <- Ontologies
    EdgeOuts <- Edgings
    Splits <- Halves
    Revision <- Revised
    Others = {"theirs"}
    Terminals = {here, there}
    NoPlan = NoPlan
    MaxCarves = 2
    MaxEntries = 5
    Often <- Typed
    MaxDebates = 2
    MaxRefusals = 1
    MaxElsewhere = 1
    Languages = {"python", "c"}
    Scope = {"dynamic", "static", "macros"}
    Groups <- Dimensions
    AnswerSheets <- Sheets
    Consoles = {here, there}
    NoCheck = NoCheck
    MaxSessions = 3
    MaxCommands = 4
    MaxDrops = 1
SYMMETRY ConsoleSymmetry
INVARIANTS AdmissionEarned LevelsStand MintedWasReported PlanSound RealitySound
PROPERTIES AssessmentsStand GateIsPassed
CHECK_DEADLOCK FALSE
