SPECIFICATION OSpec
CONSTANTS
  e1 = e1
  e2 = e2
  e3 = e3
  Event <- MCEvent
  Plans <- MCPlans
  Priors <- MCPriors
INVARIANTS
  TypeOK
  PhaseBarrier
  ReturnsComplete
PROPERTIES
  ImplementsDependencyOrder
  AlwaysReturns
\* Execute returns: a finished run takes no further step.
CHECK_DEADLOCK FALSE
