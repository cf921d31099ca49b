SPECIFICATION FairSpec
CONSTANTS
  Node = {n1, n2}
  n1 = n1
  n2 = n2
  Interval = 1
  Lateness = 1
  TTL = 3
  Weather <- CrashesOrBreaks
INVARIANTS BeatKeepsVisible LeftIsUnlisted JoinedIsListed
PROPERTIES SuspectedIsSilent NodesDiscovered LeaverForgotten
CHECK_DEADLOCK FALSE
