SPECIFICATION FairSpec
CONSTANTS
  None = None
  a = a
  b = b
  approval = approval
  Workers = {w1, w2}
  Clients = {c1}
  Steps <- LineSteps
  Start = a
  Edges <- LineEdges
  Fallback <- LineFallback
  MaxAttempts <- TwoAttempts
  Behaviour <- GateBehaviour
  Names = {approval}
  Sendable <- GateSendable
  MaxStepsPerTick = 5
  MaxIds = 2
  Budgets <- LostSignalBudgets
PROPERTIES
  ConsumedSignalWakes
CHECK_DEADLOCK FALSE
