SPECIFICATION FairSpec
CONSTANTS
    Intents = {i1}
    Payment = {x1, x2}
    Clients = {u1}
    Hooks = {h1, h2}
    Cron = cron
    MaxFaults = 1
    Nothing = Nothing
INVARIANTS TypeOK CompletedMeansCredited ProcessedMeansCredited
PROPERTIES CreditsRefined PaidIntentCredited
CHECK_DEADLOCK FALSE
