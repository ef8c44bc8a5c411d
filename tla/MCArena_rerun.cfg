CONSTANTS
  n1 = n1
  text1 = text1
  Player <- MCPlayer
  SeatOrder <- MCSeatOrder
  Entity <- MCEntity
  Owner <- MCOwner
  Refreshed <- MCRefreshed
  ChaosScripts <- MCChaosScripts
  Top = 1
  Nonce = {n1}
  Note = {text1}
  Read = {}
  Rollback = TRUE
  Gate = FALSE
  ViolationLimit = 2
  MaxTurn = 2
  MaxCalls = 0
  NoKey = NoKey
  NoArg = NoArg
  CheckpointEvery = 1
  MaxReruns = 1
  MaxCrashes = 1
  NoCheckpoint = NoCheckpoint
SPECIFICATION ArenaSpec
PROPERTY RestoresAfterARunToo
CHECK_DEADLOCK FALSE
