CONSTANTS
  n1 = n1
  text1 = text1
  Player <- MCPlayer
  SeatOrder <- MCSeatOrder
  Entity <- MCEntity
  Owner <- MCOwner
  Refreshed <- MCRefreshed
  ChaosScripts <- MCChaosScripts
  Top = 1
  Nonce = {n1}
  Note = {text1}
  Read = {}
  Rollback = TRUE
  Gate = FALSE
  ViolationLimit = 2
  MaxTurn = 2
  MaxCalls = 1
  NoKey = NoKey
  NoArg = NoArg
  CheckpointEvery = 1
  MaxReruns = 1
  MaxCrashes = 2
  NoCheckpoint = NoCheckpoint
  Agents = 2
  Decision = {1, 2}
  LogRecords = 4
  MaxPosts = 2
  Rounds = 2
  Land = 2
  Invocations = {1, 2}
  Options <- MCOptions
  MaxMishaps = 1
SPECIFICATION MCSpec
INVARIANTS DerivedStateSurvives SamplesAreTrue 
PROPERTIES RestoresTheLastBoundary SavedMatchEnds
CHECK_DEADLOCK FALSE
