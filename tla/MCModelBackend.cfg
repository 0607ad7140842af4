SPECIFICATION BackendSpec
CONSTANTS
  Streams = {s1, s2}
  audio_win_len = 2
  n_steps = 2
  MaxWindows = 3
  Zero = Zero
  Junk = Junk
SYMMETRY StreamSymmetry
CHECK_DEADLOCK FALSE
INVARIANTS
  WindowInv
  LogitsSound
