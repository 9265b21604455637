SPECIFICATION MidSpec
CONSTANTS
    Users = {me, other}
    Me = me
    Nobody = Nobody
    PendingLimit = 1
    MaxRound = 2
    WireMax = 1
    MaxMoves = 1
    AnswersLost = TRUE
INVARIANTS ViewNeverAhead ButtonsMatchView ListenersFollowRound
PROPERTY RunningRoundShown
CHECK_DEADLOCK FALSE
