SPECIFICATION FairSpec
CONSTANTS
  n1 = n1
  n2 = n2
  n3 = n3
  t1 = t1
  Order <- MCOrder
  Leaving <- MCLeaving
  Table = {t1}
  Quiesced = TRUE
  MaxFaults = 2
  MaxEdits = 1
  MaxUpgrades = 1
INVARIANTS
  TypeOK
  OnlyACrashLoses
  ReconcileOnOwnCatalogs
  SurvivorsAreLogged
PROPERTIES
  TouchesNothingEarly
  EventuallyReset
CHECK_DEADLOCK
  FALSE
