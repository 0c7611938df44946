SPECIFICATION Spec
CONSTANTS
  n1 = n1
  n2 = n2
  n3 = n3
  NoSource = NoSource
  Node <- MCNode
  InitialNodes <- MCInitial
  Past = {"mesh"}
  MaxUpgrades = 1
  MaxFaults = 1
  KeepBootstrap = TRUE
PROPERTY
  EnableAfterAdvance
