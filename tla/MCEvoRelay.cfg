\* Two sessions, two threads, a terminal of the configuration and another one.
CONSTANTS
  s1 = s1
  s2 = s2
  known = known
  stranger = stranger
  NoDevice = NoDevice
  Sessions = {s1, s2}
  Devices = {known, stranger}
  Known = {known}
  PoolSize = 2
  MaxFrames = 2
  FrameLog = 2
SPECIFICATION FairSpec
INVARIANTS
  TypeOK
  InOrder
  StatusTruthfulUnlessRaced
PROPERTIES
  PassedOnIsHandled
  OfflineAnnounced
