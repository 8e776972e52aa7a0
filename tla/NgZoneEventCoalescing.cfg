SPECIFICATION Spec
CONSTANTS
  Modes = {"events"}
  Gaps = {"onStable"}
  MaxOps = 3
  TaskId = {1, 2}
  None = None
INVARIANTS WorkIsChecked
CHECK_DEADLOCK FALSE
