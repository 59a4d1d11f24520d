\* One agent, two rounds of at most two tool calls, a conversation of up to three turns.
CONSTANTS
  Cap = 2
  MaxTools = 2
  MaxHistory = 3
SPECIFICATION Spec
INVARIANT RequestsWellFormed
INVARIANT BreakpointBudget
INVARIANT TraceTellsTheStream
PROPERTY Terminates
PROPERTY ImplementsAgentStream
\* The loop ends.
CHECK_DEADLOCK FALSE
