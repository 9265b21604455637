SPECIFICATION Spec
CONSTANTS
    Users = {u1, u2}
    NumRounds = 2
    Stakes = {1}
    MaxCrash = 4
    RiskAcceptanceMaxMultiplier = 2
    PctPerBet = 35
    PctPerRound = 70
    InitialBalance = 2
    InitialBankroll = 3
    LossSettles = FALSE
    BatchSize = 1
    MaxBatches = 2
    FaultKinds = {}
    MaxFaults = 0
SYMMETRY Symmetry
INVARIANT ExposureWithinDocumentedCap
