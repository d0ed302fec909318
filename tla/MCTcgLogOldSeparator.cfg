CONSTANTS
  KnownAlgorithms <- MCKnownAlgorithms
  Sources <- MCSources
SPECIFICATION MCOldDivergentSpec
INVARIANT
  SeparatorClassification
