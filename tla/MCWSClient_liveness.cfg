SPECIFICATION FairSpec
CONSTANTS
  Vocabulary <- MCFewWords
  InboxBound = 1
  JitterPoints <- MCJitterMiddle
INVARIANTS
  NeverStuck
PROPERTIES
  RunReturns
  KeepsTrying
