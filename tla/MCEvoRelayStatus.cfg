\* One terminal that reconnects.
CONSTANTS
  s1 = s1
  s2 = s2
  known = known
  stranger = stranger
  NoDevice = NoDevice
  Sessions = {s1, s2}
  Devices = {known}
  Known = {known}
  PoolSize = 2
  MaxFrames = 3
  FrameLog = 2
SPECIFICATION Spec
INVARIANT StatusTruthful
