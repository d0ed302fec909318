CONSTANTS
  KnownAlgorithms <- MCKnownAlgorithms
  Sources <- MCSources
SPECIFICATION MCOldSpec
INVARIANT
  EventsFaithful
PROPERTY
  StickyFailure
