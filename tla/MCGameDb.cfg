SPECIFICATION DbSpec
CONSTANTS
    Users = {u1, u2}
    NumRounds = 2
    Stakes = {1}
    MaxCrash = 4
    RiskAcceptanceMaxMultiplier = 2
    PctPerBet = 50
    PctPerRound = 70
    InitialBalance = 2
    InitialBankroll = 4
    LossSettles = TRUE
SYMMETRY Symmetry
INVARIANTS TypeOK LockedMatchesUnresolved LedgerExplainsMoney OneOutcomePerBet
PROPERTIES QueueConsumedOnce StakesAcceptedWithinCap
CHECK_DEADLOCK FALSE
