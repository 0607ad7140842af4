SPECIFICATION FairSpec
CONSTANTS
  audio_win_len = 3
  audio_win_step = 2
  n_context = 1
  n_steps = 2
  MaxSamples = 12
  MaxFailures = 2
INVARIANTS
  StreamInv
  FinishDecodesAll
  CentresAdvance
PROPERTIES
  TranscriptExtends
  CallsReturn
