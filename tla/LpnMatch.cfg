SPECIFICATION Spec
CHECK_DEADLOCK FALSE
CONSTANTS
  Digits <- MCDigits
  Plates <- MCPlates
  MaxRows = 3
  DigitThreshold = 75
  WholeThreshold = 60
INVARIANTS
  SimilarityFindsContainment
  WholeScoreIsTheBest
  MatchIsJustified
