CONSTANTS
  n1 = n1
  text1 = text1
  Player <- MCPlayer
  SeatOrder <- MCSeatOrder
  Entity <- MCEntity
  Owner <- MCOwner
  Refreshed <- MCRefreshed
  ChaosScripts <- MCBoundaryScripts
  Top = 1
  Nonce = {n1}
  Note = {text1}
  Read = {"observe"}
  Rollback = FALSE
  Gate = TRUE
  ViolationLimit = 1
  MaxTurn = 2
  MaxCalls = 2
  NoKey = NoKey
  NoArg = NoArg
  MaxSpoiltCalls = 1
SPECIFICATION FairReplay
INVARIANTS AcceptedUnderOwnLease CertificateIsHonest
PROPERTY MatchEnds
CHECK_DEADLOCK FALSE
