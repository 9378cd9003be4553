SPECIFICATION Spec
CONSTANTS
  None = None
  a = a
  b = b
  approval = approval
  Workers = {w1, w2}
  Clients = {c1}
  Steps <- LineSteps
  Start = a
  Edges <- LoopEdges
  Fallback <- LoopFallback
  MaxAttempts <- TwoAttempts
  Behaviour <- CrashBehaviour
  Names = {approval}
  Sendable = {}
  MaxStepsPerTick = 5
  MaxIds = 2
  Budgets <- OneCrashBudgets
PROPERTIES
  UnknownNeverRetried
SYMMETRY WorkerSymmetry
CHECK_DEADLOCK FALSE
