SPECIFICATION Spec
CONSTANTS
    Items = 6
    Ahead = 3
    Workers = {w1, w2}
    QueueSize = 1
PROPERTIES
    ImplementsBuffer
    IterationEnds
CHECK_DEADLOCK FALSE
