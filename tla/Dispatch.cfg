SPECIFICATION FairSpec
CONSTANTS
  n1 = n1
  n2 = n2
  d1 = d1
  c1 = c1
  c2 = c2
  NoNode = NoNode
  Node = {n1, n2}
  Device = {d1}
  Cmd = {c1, c2}
  Target <- OneTarget
  BatchSize = 2
  Deployments <- AllWeather
INVARIANTS StatusTruthful
PROPERTIES RefinesCommandQueue EveryCommandSettled
CHECK_DEADLOCK FALSE
