SPECIFICATION FairSpec
CONSTANTS
  gateway = gateway
  api = api
  c1 = c1
  c2 = c2
  c3 = c3
  Server = {gateway, api}
  Threads <- MCThreads
  Client = {c1, c2, c3}
  Room = 1
INVARIANTS IdleFdKept DescriptorsAccounted
PROPERTIES BacklogServed
