\* Two small events and one larger than the limit, every fault of the model.
CONSTANTS
  e1 = e1
  e2 = e2
  e3 = e3
  NoEvent = NoEvent
  t1 = t1
  t2 = t2
  Events <- MCEvents
  Threads = {t1, t2}
  Size <- MCSize
  MaxBytes = 2
  Retention = 1
  RetryInterval = 2
  MaxRetry = 3
  LockTimeout = 1
  AttemptCap = 2
SPECIFICATION FairSpec
INVARIANTS
  TypeOK
  NoSilentLoss
  RepeatOnlyIfUncertain
  NoLostWakeup
  SizeLimit
PROPERTIES
  ImplementsStoreAndForward
  EventuallySettled
