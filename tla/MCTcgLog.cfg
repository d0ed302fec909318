CONSTANTS
  KnownAlgorithms <- MCKnownAlgorithms
  Sources <- MCSources
SPECIFICATION MCKnownHashSpec
INVARIANTS
  TypeOK
  EventsFaithful
  EndOfLogOnlyAtEnd
  ErrorsOnlyAtDefects
  DigestsMatchLogAlgorithms
  IndicesCountEarlierEvents
PROPERTIES
  StickyFailure
  EndOfLogIsFinal
