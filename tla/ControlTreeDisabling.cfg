SPECIFICATION Spec
CONSTANTS
  Leaves = {"a", "b"}
  Groups = {"r", "g"}
  Parent <- MCParent
  Root = "r"
  Values <- MCValues
  Built <- MCBuilt
  Children <- MCChildren
  Async = {"g"}
  Rejects <- MCRejects
  RejectsLater <- MCRejectsLater
  Calls = {"patch", "disable"}
  Gaps = {"disabling"}
  MaxCalls = 2
INVARIANTS DisableDisables
CHECK_DEADLOCK FALSE
