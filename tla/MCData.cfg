SPECIFICATION DataSpec
CONSTANTS
  Files <- MCFiles
  Size <- MCSize
  Garbage <- MCGarbage
  Samples <- MCSamples
  NoSpace = NoSpace
  BIGINT_SIZE = 2
  INT_SIZE = 1
  MaxSamples = 3
  num_padding_frames = 4
  ThresholdNum = 1
  ThresholdDen = 2
  MaxFrames = 13
CHECK_DEADLOCK FALSE
INVARIANTS
  AlphabetRestored
  SamplesRead
  SegmentsSound
