SPECIFICATION FairSpec
CONSTANTS
  Devices = {d1, d2}
  LineLimit = 2
  ClickLimit = 3
INVARIANTS
  TypeOK
  BufferIsOfThisConnection
  UpToDateUnlessRaced
  OnlyConnectingIsStale
PROPERTIES
  QuitCompletes
CHECK_DEADLOCK FALSE
