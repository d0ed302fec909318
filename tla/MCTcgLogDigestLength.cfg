CONSTANTS
  KnownAlgorithms <- MCKnownAlgorithms
  Sources <- MCSources
SPECIFICATION MCDivergentSpec
INVARIANT DigestLengthsMatchRegistry
