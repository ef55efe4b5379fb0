SPECIFICATION Spec
CONSTANTS
  Vocabulary <- MCVocabulary
  InboxBound = 2
  JitterPoints <- MCJitterPoints
INVARIANTS
  TypeOK
  JoinBeforeRedial
  PurgeJustified
  ReturnJustified
  HelloHookOnce
  FastOnlyAnnounced
PROPERTIES
  LadderClimbs
  StableSessionForgives
  KeepsContract
