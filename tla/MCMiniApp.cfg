SPECIFICATION Spec
CONSTANTS
  Images = {bg}
  MaxAttempts = 2
  MaxInitDataAttempts = 2
  MaxAuthAttempts = 2
  MaxOrders = 2
  MaxFaults = 1
  MaxRounds = 2
  None = None
  Assets = {ton, stars}
  MaxReads = 2
  MaxRenders = 1
  MaxPolls = 2
  MaxMoves = 3
  DialogTabs = {"profile"}
INVARIANTS TypeOK OneEffectPerOrder SceneTellsRound DialogKeepsToItsOpening
PROPERTY PollsCatchUp
CHECK_DEADLOCK FALSE
