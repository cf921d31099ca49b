SPECIFICATION FairTimerSpec
CONSTANTS
  Timer = {t1, t2}
  t1 = t1
  t2 = t2
  Delay <- MCDelay
INVARIANTS TimerfdCoversTimers TokensMatchTimers CancelIsFinal
PROPERTIES TimerFires CancelTakesEffect
CHECK_DEADLOCK FALSE
