SPECIFICATION Spec
CONSTANTS
  Vocabulary <- MCVocabulary
  InboxBound = 1
  JitterPoints <- MCJitterMiddle
PROPERTIES
  StopSendsNormalClose
