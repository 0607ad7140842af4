SPECIFICATION Spec
CONSTANTS
  Null = Null
  alphabet_size = 2
  Arguments <- MCArguments
  Emissions <- MCEmissions
  QuietNum = 3
  QuietDen = 4
  space_id = 0
  vocabulary <- MCVocabulary
  max_order = 2
  LmUnit = 8
  beta = 16
  OOV_SCORE = 1
  BaseScore <- MCBaseScore
  MaxWords = 3
  MaxSteps <- MCMaxSteps
  MaxResults = 2
INVARIANTS
  TrieInv
  ScoresSound
  TimestepsSound
  BestHasHistory
  WordsInVocabulary
  ResultsScoreWords
PROPERTIES
  CutoffSound
