\* Two segments over one permit: every wait has to end for the plan to end.
CONSTANTS
  MaxSegs = 2
  Idx = {0, 1}
  UniqueIdx = TRUE
  MaxParallel = 1
  MaxChunks = 1
  Days = {0, 2}
  ProfileLoads = TRUE
SPECIFICATION Spec
PROPERTY PlanCompletes
PROPERTY OrphansFinish
PROPERTY ImplementsFanOut
CHECK_DEADLOCK FALSE
