SPECIFICATION Spec
CONSTANTS
  a = a
  b = b
  ca1 = ca1
  ca2 = ca2
  cb1 = cb1
  main_a = main_a
  main_b = main_b
  worker1 = worker1
  worker2 = worker2
  NoNode = NoNode
  NoConn = NoConn
  NoClient = NoClient
  d1 = d1
  d2 = d2
  t1 = t1
  Node = {a, b}
  Conn = {ca1, ca2, cb1}
  Client = {d1, d2}
  Topic = {t1}
  Loop = {main_a, main_b}
  NodeOf <- TwoNodes
  LoopOf <- SingleReactor
  MainLoop <- MainLoops
  Fallible = {a}
  Discipline = "exclusive"
INVARIANTS SenderIsCurrent RegistryMirrorsDevices SessionRegistered NoDanglingConn NoOrphanSubscription
PROPERTIES PublishReachesSubscribers
CHECK_DEADLOCK FALSE
