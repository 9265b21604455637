SPECIFICATION Spec
CONSTANTS
    Users = {u1, u2}
    NumRounds = 2
    Stakes = {1}
    MaxCrash = 3
    RiskAcceptanceMaxMultiplier = 3
    PctPerBet = 50
    PctPerRound = 100
    InitialBalance = 2
    InitialBankroll = 4
    LossSettles = FALSE
    BatchSize = 1
    MaxBatches = 2
    FaultKinds = {}
    MaxFaults = 0
SYMMETRY Symmetry
INVARIANT FinishedRoundSettled
