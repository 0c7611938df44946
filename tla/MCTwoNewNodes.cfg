SPECIFICATION Spec
CONSTANTS
  n1 = n1
  n2 = n2
  n3 = n3
  n4 = n4
  NoSource = NoSource
  Configs <- MCTwoNew
INVARIANT
  DependenciesFirst
\* One plan per configuration: nothing follows it.
CHECK_DEADLOCK FALSE
