SPECIFICATION Spec
CONSTANTS
  k1 = k1
  k2 = k2
  k3 = k3
  k4 = k4
  k5 = k5
  i1 = i1
  i2 = i2
  i3 = i3
  i4 = i4
  outside = outside
  Key <- MCKey
  Id <- MCId
  IdOf <- MCIdOf
  Graphs <- MCGraphs
INVARIANTS
  TypeOK
  OrderRespected
  OnlyCyclesShareAPhase
  EmittedOnce
  NoNeedlessBarrier
  MatchesLayers
PROPERTY
  Terminates
\* topoSort returns: a finished call takes no further step.
CHECK_DEADLOCK FALSE
