SPECIFICATION Spec
CONSTANTS
  None = None
  r1 = r1
  r2 = r2
  x = x
  y = y
  s1 = s1
  s2 = s2
  e1 = e1
  e2 = e2
  k1 = k1
  k2 = k2
  k3 = k3
  w1 = w1
  w2 = w2
  RunIds = {r1, r2}
  StepRunIds = {x, y}
  SignalIds = {s1, s2}
  EventIds = {e1, e2}
  Keys = {k1, k2, k3}
  StepNames = {"gate"}
  SignalNames = {"go"}
  Owners = {w1, w2}
  Times = {2, 3}
  LeaseMs = 1
  Limits = {1, 2}
  NewRuns <- TwoRuns
  RunPatches <- Patches
  NewStepRuns <- StepRows
  StepRunPatches <- TextPatches
  NewSignals <- SignalRows
  NewEvents <- EventRows
  MaxSeq = 2
  MaxRows = 3
PROPERTY
  SameAsPostgres
CONSTRAINT AtMostMaxRows
SYMMETRY Symmetry
