\* The same threads: the file written by both.
CONSTANTS
  u1 = u1
  u2 = u2
  relay1 = relay1
  relay2 = relay2
  polling = polling
  Users <- MCUsers
  Threads = {relay1, polling}
  Unlocked = {polling}
  NoThread = NoThread
  MaxRecords = 3
  MaxCrashes = 2
CHECK_DEADLOCK FALSE
SPECIFICATION Spec
INVARIANT AtomicSave
