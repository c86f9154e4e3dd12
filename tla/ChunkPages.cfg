SPECIFICATION ChunkingSpec
CONSTANTS
    Shapes <- Blocks
    Preferences <- LocatorOrders
    MaxTokens = 8
    Target = 5
    Take = 2
    MaxBlocks = 4
INVARIANTS PagesAreOfText
CHECK_DEADLOCK FALSE
