SPECIFICATION FairSpec
CONSTANTS
  Node = {n1, n2}
  n1 = n1
  n2 = n2
  Interval = 1
  Lateness = 1
  TTL = 3
  Weather <- Crashes
PROPERTIES DeadIsRemoved
CHECK_DEADLOCK FALSE
