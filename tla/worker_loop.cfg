SPECIFICATION FairSpec
CONSTANTS
  r1 = r1
  r2 = r2
  r3 = r3
  Runs <- ThreeRuns
  Concurrency = 2
  MaxChains = 2
  MaxErrors = 1
INVARIANTS
  TypeOK
  NoOverlap
  StopIsQuiet
  DrainIsGraceful
PROPERTIES
  KeepsPolling
  LeaseIsLetGo
CHECK_DEADLOCK FALSE
