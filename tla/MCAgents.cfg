CONSTANTS
  n1 = n1
  text1 = text1
  Player <- MCPlayer
  SeatOrder <- MCSeatOrder
  Entity <- MCEntity
  Owner <- MCOwner
  Refreshed <- MCRefreshed
  ChaosScripts <- MCChaosScripts
  Top = 1
  Nonce = {n1}
  Note = {text1}
  Read = {}
  Rollback = TRUE
  Gate = FALSE
  ViolationLimit = 2
  MaxTurn = 1
  MaxCalls = 3
  NoKey = NoKey
  NoArg = NoArg
  u1 = u1
  Cadence = 2
  MaxRounds = 3
  MaxRequests = 4
  MaxRetries = 1
  MaxUses = 2
  SeatTurns = 2
  MaxKills = 1
  MaxDecisions = 5
  Start = 1
  Land = {0, 1, 2}
  Guards = {{}, {1}, {0, 1, 2}}
  MaxPlanTurns = 3
  MaxRelocations = 2
  MaxGuardHolds = 2
  CapitalTurns = 4
  MaxMishaps = 1
  Site = {2, 4}
  Wait = 2
  TTL = 3
  MaxCities = 3
  MaxReplans = 1
  LastTurn = 8
  MaxEvents = 1
  Tile = {0, 1, 2}
  Blocked = {{}, {2}}
  Named = {0}
  Health = {1, 2, 3}
  EnterBelow = 2
  ResumeAt = 3
  SuppressFor = 2
  ScoutTurns = 3
  None = None
  Gone = Gone
SPECIFICATION MCSpec
INVARIANTS TypeOK LedgersBalance FlagsExactlyTheRogueRows CountersMatchLog DerivedStateMatchesLog AtMostOnce   ScoutsAreSpared
PROPERTIES  DecisionsAreAccounted
CHECK_DEADLOCK FALSE
