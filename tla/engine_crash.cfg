SPECIFICATION Spec
CONSTANTS
  None = None
  a = a
  b = b
  approval = approval
  Workers = {w1, w2}
  Clients = {c1}
  Steps <- LineSteps
  Start = a
  Edges <- LoopEdges
  Fallback <- LoopFallback
  MaxAttempts <- TwoAttempts
  Behaviour <- CrashBehaviour
  Names = {approval}
  Sendable = {}
  MaxStepsPerTick = 2
  MaxIds = 3
  Budgets <- CrashBudgets
INVARIANTS
  TypeOK
  SingleDriver
  ContextIsHistory
PROPERTIES
  OneStepAtATime
  CompletedNotReplayed
  OnlyReconcileRevives
  ImplementsWalk
SYMMETRY WorkerSymmetry
CHECK_DEADLOCK FALSE
