CONSTANTS
  moves = moves
  gold = gold
  Entity <- MCEntity
  Unit = moves
  Gold = gold
  Top = 2
  Allowance = 2
  Price = 1
  ReadTries = 2
  WireTries = 1
  MaxTurn = 1
  MaxOrders = 2
  MaxDrift = 0
  MaxLosses = 0
  None = None
  MaxDialogs = 0
  MaxChecks = 0
  MaxFaults = 0
  MaxHooks = 1
SPECIFICATION MCSpec
INVARIANT RejectedBooksNothing
CHECK_DEADLOCK FALSE
