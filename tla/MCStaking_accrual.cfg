SPECIFICATION Spec
CONSTANTS
    Users = {u1, u2}
    Pools = {stars}
    IntegerPools = {stars}
    Requests = {q1, q2}
    AuditKeys = {k}
    Amounts = {2}
    MinStake = 2
    Rates = {1}
    Deltas = {2}
    Cooldown = 1
    MaxTime = 1
    Scale = 2
    OpeningBalance = 2
    OpeningStake = 2
    OpeningReserve = 2
    Opening = Opening
    NoOne = NoOne
PROPERTY AccrualWindowOnce
CHECK_DEADLOCK FALSE
