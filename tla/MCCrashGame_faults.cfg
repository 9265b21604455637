SPECIFICATION Spec
CONSTANTS
    Users = {u1}
    NumRounds = 2
    Stakes = {1}
    MaxCrash = 3
    RiskAcceptanceMaxMultiplier = 3
    PctPerBet = 35
    PctPerRound = 75
    InitialBalance = 2
    InitialBankroll = 6
    LossSettles = TRUE
    BatchSize = 1
    MaxBatches = 1
    FaultKinds = {"crash", "error", "flush"}
    MaxFaults = 2
PROPERTIES RoundsOnlyAdvance EscrowRefined
INVARIANTS RedisNeverAhead NoLossBeforeCrash
