SPECIFICATION FairSpec
CONSTANTS
    Users = {u1, u2}
    NumRounds = 2
    Stakes = {1}
    MaxCrash = 2
    RiskAcceptanceMaxMultiplier = 2
    PctPerBet = 50
    PctPerRound = 100
    InitialBalance = 2
    InitialBankroll = 2
    LossSettles = FALSE
    BatchSize = 1
    MaxBatches = 2
    FaultKinds = {"crash"}
    MaxFaults = 1
INVARIANTS SingleActiveRound  QueueServedByNextRound
PROPERTIES  EveryRoundFinishes
