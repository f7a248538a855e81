SPECIFICATION Spec
CONSTANTS
    PoolDefs <- MCPoolDefs
    RoundSizes = {2, 3}
    MaxMoney = 62
    ServiceFee = 4
    MaxIns = 3
    MaxOuts = 4
INVARIANTS
    VerdictsExplained
    VerdictsTrue
PROPERTIES
    RolesFollow
    OrderFree
