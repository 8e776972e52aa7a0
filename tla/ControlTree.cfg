SPECIFICATION FairSpec
CONSTANTS
  Leaves = {"a", "b"}
  Groups = {"r", "g"}
  Parent <- MCParent
  Root = "r"
  Values <- MCValues
  Built <- MCBuilt
  Children <- MCChildren
  Async = {"g"}
  Rejects <- MCRejects
  RejectsLater <- MCRejectsLater
  Calls = {"patch", "disable", "enable", "remove", "add"}
  Gaps = {}
  MaxCalls = 3
INVARIANTS TypeOK ParentsFollow VerdictIsCurrent AnswerIsAwaited
PROPERTIES Decided
CHECK_DEADLOCK FALSE
