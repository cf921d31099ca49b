SPECIFICATION FairSpec
CONSTANTS
  n1 = n1
  n2 = n2
  d1 = d1
  c1 = c1
  c2 = c2
  NoNode = NoNode
  Node = {n1, n2}
  Device = {d1}
  Cmd = {c1}
  Target <- SingleCommand
  BatchSize = 2
  Deployments <- OnlyCalm
PROPERTIES AckedIsDelivered
CHECK_DEADLOCK FALSE
