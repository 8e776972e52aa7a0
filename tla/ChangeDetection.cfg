SPECIFICATION FairSpec
CONSTANTS
  r1 = r1
  r2 = r2
  a = a
  e1 = e1
  e2 = e2
  View = {r1, r2, a, e1, e2}
  Root = {r1, r2}
  Embedded = {e1, e2}
  In <- MCIn
  Parent <- MCParent
  DeclaredIn <- MCDeclaredIn
  CheckAlways = {r1}
  Reads = {a}
  Listener = a
  HearsUnstable = FALSE
  EnsureReachable = FALSE
  MaxReruns = 2
  MaxOps = 3
  TaskId = {1, 2, 3}
  None = None
INVARIANTS TypeOK Reachable NothingLeftBehind TasksAreReal
PROPERTIES BecomesStable
CHECK_DEADLOCK FALSE
