SPECIFICATION FairSpec
CONSTANTS
  None = None
  a = a
  b = b
  approval = approval
  Workers = {w1, w2}
  Clients = {c1}
  Steps <- LineSteps
  Start = a
  Edges <- LineEdges
  Fallback <- LineFallback
  MaxAttempts <- TwoAttempts
  Behaviour <- LiveBehaviour
  Names = {approval}
  Sendable <- GateSendable
  MaxStepsPerTick = 5
  MaxIds = 4
  Budgets <- LiveBudgets
INVARIANTS
  ParkedRunWaits
  OneStaleHandler
  NoOrphans
  SignalsReachTheirWait
PROPERTIES
  ResumeKept
  RunEnds
  SignalIsConsumed
  SignalNotLost
CHECK_DEADLOCK FALSE
