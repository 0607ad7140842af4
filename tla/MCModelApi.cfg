SPECIFICATION Spec
CONSTANTS
  s1 = s1
  s2 = s2
  x1 = x1
  x2 = x2
  x3 = x3
  x4 = x4
  p1 = p1
  p2 = p2
  w1 = w1
  Null = Null
  Streams <- MCStreams
  Scorers <- MCScorers
  Paths <- MCPaths
  Words <- MCWords
  Weights = {1, 2}
  PackagedWeights = 1
  BeamWidths = {500}
  ModelBeamWidth = 500
  Boosts = {1, 2}
SYMMETRY Symmetry
INVARIANTS
  ScorerOwned
  StreamKeepsScorer
PROPERTIES
  ErrorsChangeNothing
  WeightsReachOwnScorer
