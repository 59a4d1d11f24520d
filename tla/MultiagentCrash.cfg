\* A segment's task dies of an exception raised while its result is committed.
CONSTANTS
  MaxSegs = 1
  Idx = {0}
  UniqueIdx = TRUE
  MaxParallel = 1
  MaxChunks = 0
  Days = {2}
  ProfileLoads = FALSE
SPECIFICATION Spec
PROPERTY CrashesSurface
CHECK_DEADLOCK FALSE
