\* A session is loaded while an answer is still streaming.
CONSTANTS
  Seg = {0}
  MaxTurns = 2
  MaxSaves = 1
  MaxIndex = 1
SPECIFICATION Spec
PROPERTY PopTakesTheFailedTurn
CHECK_DEADLOCK FALSE
