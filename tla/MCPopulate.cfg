SPECIFICATION PFairSpec
CONSTANTS
  n1 = n1
  n2 = n2
  n3 = n3
  NoSource = NoSource
  Node <- MCNode
  InitialNodes <- MCInitial
  Source = n1
  New = n3
  Past = {"mesh"}
  MaxUpgrades = 1
  MaxFaults = 1
  MaxLSN = 2
  MaxRetries = 1
  KeepBootstrap = TRUE
INVARIANTS
  PTypeOK
  NoCommitIsLost
PROPERTIES
  AppliedOnce
  Lockstep
  AllCommitsArrive
