SPECIFICATION FairSpec
CONSTANTS
  None = None
  Calls = {c1, c2, c3}
  Abortable = {c1}
  MaxThreads = 3
  MaxDeaths = 1
  Budgeted = TRUE
INVARIANTS
  TypeOK
  NobodyWaitsForTheDead
  DisposeIsFinal
  OneLiveThread
PROPERTIES
  CallsSettle
  DisposeReturns
CHECK_DEADLOCK FALSE
