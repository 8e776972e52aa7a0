SPECIFICATION FairSpec
CONSTANTS
  Url = {"a", "b", "c"}
  Target <- MCTarget
  Modes <- AllModes
  Options = {"none", "skip", "replace"}
  MaxCalls = 3
  None = None
INVARIANTS TypeOK UrlFollows NavigatingIsPending
PROPERTIES NavigationsEnd
CHECK_DEADLOCK FALSE
