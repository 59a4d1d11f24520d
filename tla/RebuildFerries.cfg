SPECIFICATION Spec
CONSTANTS
  KnobSets <- DefaultRuns
  MaxRuns = 1
  MaxIngests = 1
  MaxMishaps = 0
INVARIANT FerriesAppended
CHECK_DEADLOCK FALSE
