\* Two relay threads, both under the lock.
CONSTANTS
  u1 = u1
  u2 = u2
  relay1 = relay1
  relay2 = relay2
  polling = polling
  Users <- MCUsers
  Threads = {relay1, relay2}
  Unlocked = {}
  NoThread = NoThread
  MaxRecords = 3
  MaxCrashes = 2
CHECK_DEADLOCK FALSE
SPECIFICATION FairSpec
INVARIANTS
  TypeOK
  AtomicSave
PROPERTIES
  ImplementsOccupancy
  EveryRecordEnds
