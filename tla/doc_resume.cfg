SPECIFICATION Spec
CONSTANTS
  None = None
  a = a
  b = b
  approval = approval
  Workers = {w1, w2}
  Clients = {c1}
  Steps <- LineSteps
  Start = a
  Edges <- LineEdges
  Fallback <- LineFallback
  MaxAttempts <- TwoAttempts
  Behaviour <- ResumeBehaviour
  Names = {approval}
  Sendable <- GateSendable
  MaxStepsPerTick = 5
  MaxIds = 2
  Budgets <- OneSignalBudgets
PROPERTIES
  SameResume
SYMMETRY WorkerSymmetry
CHECK_DEADLOCK FALSE
