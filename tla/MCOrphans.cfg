SPECIFICATION Spec
CONSTANTS
  n1 = n1
  n2 = n2
  n3 = n3
  NoSource = NoSource
  Node <- MCNode
  InitialNodes <- MCNode
  Past = {"mesh"}
  MaxUpgrades = 1
  MaxFaults = 0
  KeepBootstrap = FALSE
PROPERTY
  EveryOrphanRowDropped
