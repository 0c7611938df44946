SPECIFICATION Spec
CONSTANTS
  n1 = n1
  n2 = n2
  n3 = n3
  t1 = t1
  Order <- MCOrder
  Leaving <- MCLeaving
  Table = {t1}
  Quiesced = FALSE
  MaxFaults = 0
  MaxEdits = 1
  MaxUpgrades = 0
INVARIANT
  OnlyACrashLoses
CHECK_DEADLOCK
  FALSE
