SPECIFICATION Spec
CONSTANTS
    None = None
    StartHeight = 1
    Pools <- MCPools
    Denom <- MCDenom
    Standard <- MCStandard
    Legacy <- MCLegacy
    Outpoint <- MCOutpoint
    Value <- MCValue
    Script <- MCScript
    Block <- MCBlock
    Parent <- MCParent
    Height <- MCHeight
    Txs <- MCTxs
    Procs = {c1}
    Workers = 2
    Attempts = 1
    MaxBlocks = 3
    MaxMoves = 2
    MaxFaults = 1
    MaxCrashes = 1
PROPERTY
    ImplementsChainIndex
