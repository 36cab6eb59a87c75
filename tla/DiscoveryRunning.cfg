SPECIFICATION Spec
CONSTANTS
  N = 3
  MaxDepth = 1
  Known = {2}
INVARIANT RunningSeen
CHECK_DEADLOCK FALSE
