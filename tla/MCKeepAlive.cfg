SPECIFICATION Spec
CONSTANTS
  Offers <- MCOffers
  Second = 2
  Wrap = 32
  IntervalMin = 4
  IntervalMax = 7
  DefaultInterval = 5
  AckDelay = 3
  PongDelay = 1
  CloseWait = 2
INVARIANTS
  TypeOK
  TimersBlameRightly
  DeadPeersLeft
