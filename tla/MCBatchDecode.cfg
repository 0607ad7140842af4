SPECIFICATION Spec
CONSTANTS
    Batch = 4
    Threads = {t1, t2, t3}
CHECK_DEADLOCK FALSE
INVARIANTS
  ResultsInOrder
  TasksSettled
PROPERTIES
  BatchReturns
