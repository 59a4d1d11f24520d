\* Two overnights (two lodging jobs, one transit job) over two permits, any message.
CONSTANTS
  MaxOvernights = 2
  MaxParallel = 2
  MaxChunks = 1
  Words = {"lodging", "transit", "both", "prefs"}
SPECIFICATION Spec
INVARIANT JobsMatchRequest
PROPERTY RequestEnds
PROPERTY ImplementsFanOut
\* The request is answered.
CHECK_DEADLOCK FALSE
