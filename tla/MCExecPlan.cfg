SPECIFICATION FairSpec
CONSTANTS
  N = 4
  GraphSet <- MCGraphSet
CHECK_DEADLOCK FALSE
INVARIANTS
  PlanRunnable
  PlanExact
PROPERTIES
  Terminates
