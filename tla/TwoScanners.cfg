SPECIFICATION Spec
CONSTANTS
    None = None
    StartHeight = 1
    Pools <- MCPools
    Denom <- MCDenom
    Standard <- MCStandard
    Legacy <- MCLegacy
    Outpoint <- MCOutpoint
    Value <- MCValue
    Script <- MCScript
    Block <- MCBlock
    Parent <- MCParent
    Height <- MCHeight
    Txs <- MCTxs
    Procs = {c1, c2}
    Workers = 1
    Attempts = 1
    MaxBlocks = 3
    MaxMoves = 1
    MaxFaults = 0
    MaxCrashes = 0
INVARIANT
    HistoryAudit
