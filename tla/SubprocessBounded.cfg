SPECIFICATION FairSpec
CONSTANTS
  Child = {c1}
  Cap = 1
  Limit = 1
  MaxSent = 2
  MaxTries = 2

PROPERTIES Bounded
CHECK_DEADLOCK FALSE
