SPECIFICATION Spec
CONSTANTS
    Workers = {w1, w2}
    MaxStreams = 4
    Warm = 2
    RepeatAny = 3
    RepeatEmpty = 1
CHECK_DEADLOCK FALSE
INVARIANTS
  StreamsOwned
  NeverThrows
PROPERTIES
  StopCompletes
