CONSTANTS
  Seat = {0, 1}
  Me = 0
  Rival = 1
  Land <- MCLand
  Rolls <- MCRolls
  Games <- MCGames
  MaxActs = 0
  LastTurn = 2
  Worlds <- MCWorlds
  Guess = "GRASSLAND"
  Roster <- MCRoster
  Reselect = 3
  LastRound = 2
  None = None
  Artifact = {"mined"}
  PlanOption = {"expand"}
  Looks <- MCLooks
  PostCap = 1
  MaxContexts = 1
  Every = 1
  LastDay = 0
  MaxKills = 2
  City = {1}
  Item = {"WARRIOR", "BUILDER"}
  Defender = {"WARRIOR"}
  MaxLeft = 2
  ForecastTurns = 4
  MaxChanges = 1
  MaxForecasts = 2
SPECIFICATION MCSpec
INVARIANT AbsentMeansDead
CHECK_DEADLOCK FALSE
