SPECIFICATION FairSpec
CONSTANTS
  Modes = {"none", "events", "runs"}
  Gaps = {}
  MaxOps = 6
  TaskId = {1, 2}
  None = None
INVARIANTS TypeOK WorkIsChecked StableIsIdle TicksDontNest CoalescedInFrame
PROPERTIES BecomesStable
CHECK_DEADLOCK FALSE
