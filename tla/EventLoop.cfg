SPECIFICATION FairSpec
CONSTANTS
  Functor = {f1, f2, f3, f4}
  Client = {main, worker}
  Owner = main
  f1 = f1
  f2 = f2
  f3 = f3
  f4 = f4
  main = main
  worker = worker
INVARIANTS NoLostWakeup
PROPERTIES RefinesExecutor QueuedRuns QuitIsHeeded
