\* The same system, without the assumption that the worker thread lives.
CONSTANTS
  e1 = e1
  e2 = e2
  e3 = e3
  NoEvent = NoEvent
  t1 = t1
  t2 = t2
  Events <- MCTwoEvents
  Threads = {t1}
  Size <- MCSizeOne
  MaxBytes = 2
  Retention = 1
  RetryInterval = 1
  MaxRetry = 2
  LockTimeout = 0
  AttemptCap = 2
SPECIFICATION FairSpec
PROPERTY SettledWhileRunning
