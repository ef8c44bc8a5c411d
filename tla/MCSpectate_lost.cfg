CONSTANTS
  RingSize = 4
  Turns = 2
  MaxHook = 8
  MaxLost = 1
SPECIFICATION Spec
INVARIANT NoTurnTwice
CHECK_DEADLOCK FALSE
