SPECIFICATION FairSpec
CONSTANTS
  None = None
  a = a
  b = b
  approval = approval
  Workers = {w1, w2}
  Clients = {c1}
  Steps <- LineSteps
  Start = a
  Edges <- LineEdges
  Fallback <- LineFallback
  MaxAttempts <- TwoAttempts
  Behaviour <- LineBehaviour
  Names = {approval}
  Sendable = {}
  MaxStepsPerTick = 5
  MaxIds = 4
  Budgets <- CancelBudgets
PROPERTIES
  CancelledComesToRest
CHECK_DEADLOCK FALSE
