CONSTANTS
  KnownAlgorithms <- MCKnownAlgorithms
  Sources <- MCSources
SPECIFICATION MCSpec
PROPERTY ApiRefined
