SPECIFICATION Spec
CONSTANTS
  KnobSets <- UsualRuns
  MaxRuns = 2
  MaxIngests = 2
  MaxMishaps = 1
INVARIANTS PrunerRunsAlone CompleteIsWhole FullRunReplaces
PROPERTIES NpzOfOnePolygonSet WebShowsTheData
CHECK_DEADLOCK FALSE
