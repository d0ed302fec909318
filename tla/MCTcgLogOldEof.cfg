CONSTANTS
  KnownAlgorithms <- MCKnownAlgorithms
  Sources <- MCSources
SPECIFICATION MCOldFairSpec
PROPERTY
  EventLogRefined
