SPECIFICATION PySpec
CONSTANTS
  Threads = {t1, t2}
  Streams = {s1, s2, s3}
CHECK_DEADLOCK FALSE
INVARIANTS
  ImplInv
PROPERTIES
  NoLeak
