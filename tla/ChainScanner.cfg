SPECIFICATION FairSpec
CONSTANTS
    None = None
    StartHeight = 1
    Pools <- MCPools
    Denom <- MCDenom
    Standard <- MCStandard
    Legacy <- MCLegacy
    Outpoint <- OneOutpoint
    Value <- MCValue
    Script <- MCScript
    Block <- TallBlock
    Parent <- TallParent
    Height <- TallHeight
    Txs <- NoTxs
    Procs = {c1}
    Workers = 2
    Attempts = 2
    MaxBlocks = 3
    MaxMoves = 2
    MaxFaults = 1
    MaxCrashes = 1
INVARIANTS
    WindowFollows
    DoneAtTarget
PROPERTIES
    OnlyStaleDiscarded
    CatchesUp
