SPECIFICATION Spec
CONSTANTS
    None = None
    UnknownPool = UnknownPool
    AskedHeight = {0, 2, 3, 4}
    Limit = {1, 2, 2000}
    StartHeight = 1
    Pools <- MCPools
    Denom <- MCDenom
    Standard <- MCStandard
    Legacy <- MCLegacy
    Outpoint <- MCOutpoint
    Value <- MCValue
    Script <- MCScript
    Block <- MCBlock
    Parent <- MCParent
    Height <- MCHeight
    Txs <- MCTxs
INVARIANTS
    CoverageBacked
    HistoryReconciles
PROPERTIES
    NothingNewerHidden
