\* Three segments over a semaphore of two, in any numbering and finishing order.
CONSTANTS
  MaxSegs = 3
  Idx = {0, 1, 2}
  UniqueIdx = TRUE
  MaxParallel = 2
  MaxChunks = 1
  Days = {2}
  ProfileLoads = FALSE
SPECIFICATION Spec
INVARIANT StoryOfSegment
INVARIANT MergeAfterEveryFrame
INVARIANT StatusAgrees
INVARIANT MergedPlanComplete
CHECK_DEADLOCK FALSE
