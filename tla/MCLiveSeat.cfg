CONSTANTS
  moves = moves
  gold = gold
  Entity <- MCEntity
  Unit = moves
  Gold = gold
  Top = 2
  Allowance = 2
  Price = 1
  ReadTries = 2
  WireTries = 1
  MaxTurn = 2
  MaxOrders = 2
  MaxDrift = 1
  MaxLosses = 2
  None = None
  MaxDialogs = 3
  MaxChecks = 3
  MaxFaults = 2
  MaxHooks = 2
SPECIFICATION MCSpec
INVARIANTS JournalIsTrue OnlyFlagsWhatHappened AllowanceOncePerTurn LeaseStands
  PressesWithCare StartsTheRightGame
PROPERTY SeatIsDriven
CHECK_DEADLOCK FALSE
