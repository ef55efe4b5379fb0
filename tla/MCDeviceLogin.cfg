SPECIFICATION FairSpec
CONSTANTS
  api = api
  staging = staging
  elsewhere = elsewhere
  localhost = localhost
  pinned = pinned
  foreign = foreign
  placeholder = placeholder
  Hosts <- MCHosts
  Loopback <- MCLoopback
  Keys <- MCKeys
  Placeholder <- placeholder
  PinnedHosts <- MCPinnedHosts
  hostPins <- MCHostPins
  Bases <- MCBases
  PollTimeouts <- MCPollTimeouts
  Intervals <- MCIntervals
  Lifetimes <- MCLifetimes
  DefaultInterval = 2
  Second = 1
  Wrap = 32
  PostTimeout = 2
INVARIANTS
  TypeOK
  BoundedOvershoot
  OrphanOnlyByLoss
  VerdictHonest
  SecretsSealed
  NeverStuck
PROPERTIES
  LoginEnds
\* A login ends.
CHECK_DEADLOCK FALSE
