SPECIFICATION FairSpec
INVARIANTS
  TypeOK
  ExitCodeHonest
  NoUnmanagedProcess
  NoHotRestart
  NeverStuck
PROPERTIES
  StopIsComplete
  StopsAndOrdersEnd
