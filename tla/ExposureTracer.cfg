SPECIFICATION FairSpec
CONSTANTS
    PoolDefs <- MCPoolDefs
    RoundSizes = {2, 3}
    MaxMoney = 100
    ServiceFee = 4
    Tx <- MCTx
    Body <- MCBody
    OutputAt <- MCOutputAt
    ConfirmedIn <- MCConfirmedIn
    Roots = {"A", "R1", "K"}
    Late = {"H1", "P"}
    Detection <- Detected
    LimitChoices <- MCLimitChoices
INVARIANTS
    WithinBudgets
    CoveredToDepth
    StatusAgrees
    Ambiguity
    RicochetWhole
    CpfpOnce
    ConsolidationsGrow
PROPERTIES
    Terminates
