\* Two segments, two turns, two saves over an index of one.
CONSTANTS
  Seg = {0, 1}
  MaxTurns = 2
  MaxSaves = 2
  MaxIndex = 1
SPECIFICATION Spec
INVARIANT OnePlanOnMap
INVARIANT AnswersFollowTheirQuestion
INVARIANT IndexedSessionsLoad
PROPERTY InputReturns
CHECK_DEADLOCK FALSE
