SPECIFICATION Spec
CONSTANTS
  None = None
  Unit = 2
  Huge = 60000
  Infinity = Infinity
  NaN = NaN
  a = a
  b = b
  c = c
  g = g
  h = h
  p1 = p1
  p2 = p2
  c1 = c1
  c2 = c2
  r1 = r1
  StepIds = {a, b, c}
  LegalIds = {a, b, c}
  Processes = {p1, p2}
  Calls = {c1, c2}
  Runs = {r1}
  Names <- AllNames
  Inputs <- AllInputs
  Versions = {1, 2}
  Builds <- TwoBuilds
  Additions = {"tell"}
  Drafts <- GraphsAndPolicies
INVARIANTS
  TypeOK
  CachesAgree
  AnswersAreTrue
  DrivenAsStarted
  StarterCanDrive
  ValidationIsExact
  BackoffsAreSane
PROPERTIES
  VersionsAreFinal
SYMMETRY Symmetry
