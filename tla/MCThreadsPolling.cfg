\* A relay thread under the lock, the polling thread without it.
CONSTANTS
  u1 = u1
  u2 = u2
  relay1 = relay1
  relay2 = relay2
  polling = polling
  Users = {u1}
  Threads = {relay1, polling}
  Unlocked = {polling}
  NoThread = NoThread
  MaxRecords = 3
  MaxCrashes = 0
CHECK_DEADLOCK FALSE
SPECIFICATION FairSpec
PROPERTY EveryRecordEnds
