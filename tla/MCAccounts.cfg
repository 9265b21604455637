SPECIFICATION Spec
CONSTANTS
    Users = {u1, u2}
    Founder = u1
    House = house
    World = world
    Requests = {r1, r2, r3}
    Refs = {q1}
    Amount = 2
    Profit = 1
    RatePercent = 50
    FounderFunds = 4
    Bankroll = 2
    CallerTerms <- Asked
    MaxFaults = 1
    MaxBoots = 1
    Nobody = Nobody
SYMMETRY Symmetric
INVARIANTS TypeOK LocksCoverPending RewardsFollowReferral AuditTellsAdjustments
PROPERTIES BookRefined
CHECK_DEADLOCK FALSE
