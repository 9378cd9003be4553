SPECIFICATION Spec
CONSTANTS
  None = None
  Calls = {c1, c2}
  Abortable = {c1}
  MaxThreads = 3
  MaxDeaths = 0
  Budgeted = TRUE
INVARIANTS
  NoThreadLeaks
CHECK_DEADLOCK FALSE
