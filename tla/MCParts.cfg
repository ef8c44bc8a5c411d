CONSTANTS
  b1 = b1
  b2 = b2
  Junk = Junk
  Empty = Empty
  Cuts = {"part"}
  Body <- Bodies
  MaxSeq = 5
  Player = {0, 1}
  Budget = 2
  MaxCrashes = 3
  Entity = {"gold", "moves"}
  Top = 1
  RowPool <- MCRowPool
  MaxRows = 3
  MaxGoals = 1
  MaxPredictions = 1
  MaxLessons = 1
  BeliefCap = 1
  ReviewCap = 1
  Foreign = {1, 2}
  Calls <- MCCalls
  LastTurn = 3
  MaxRecords = 6
  Attempts = 2
  MaxCalls = 2
  LinkRows = 1
  MaxBreaks = 1
  RingSize = 3
  Turns = 2
  MaxHook = 10
  MaxLost = 1
  Rounds = 2
  SweepLimit = 2
  MaxTurn = 4
  MaxPopups = 1
  MaxFaults = 2
  Tries = 2
  MaxOrders = 2
  MaxTrouble = 3
  Nothing = Nothing
SPECIFICATION MCSpec
INVARIANTS NeverRefused SeqContinues ForgetsOnePerTear DiffIsExact StrategyIsSettled
  AnswersAreSound RecordIsHonest
PROPERTIES KeepsItsPromise HandoffIsSound
CHECK_DEADLOCK FALSE
