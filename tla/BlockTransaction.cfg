SPECIFICATION CallsSpec
CONSTANTS
    None = None
    StartHeight = 1
    Pools <- MCPools
    Denom <- MCDenom
    Standard <- MCStandard
    Legacy <- MCLegacy
    Outpoint <- MCOutpoint
    Value <- MCValue
    Script <- MCScript
    Block <- MCBlock
    Parent <- MCParent
    Height <- MCHeight
    Txs <- MCTxs
INVARIANTS
    TablesSound
    MemoryMatches
    SnapshotsAudit
    FeesAudit
    NeverRefused
    NoConstraintMet
PROPERTIES
    ImplementsReplay
    ImplementsIndex
