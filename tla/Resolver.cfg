CONSTANTS
    Tx <- MCTx
    Outpoint <- MCOutpoint
    Spent <- MCSpent
    ScriptOf <- MCScriptOf
    MayBe <- MCMayBe
    Gone <- MCGone
    HistoryLimit = 2
    MaxMoves = 2
    None = None
SPECIFICATION Spec
INVARIANTS AnswerOfOneMoment
PROPERTY HeightsKept
