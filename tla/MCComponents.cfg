SPECIFICATION FairSpec
CONSTANTS
  Fields = {f1, f2}
  Values = {v1, v2}
  MaxPublications = 3
  Entities = {e1}
  States = {"on", "off", "unavailable"}
  IgnoreStates = {"unavailable"}
  MaxRetry = 4
  MaxTriggers = 4
  Systems = {a, b, c}
  Bare = {c}
  Events = {e2, e3}
  NoEvent = NoEvent
  Sources = {s1, s2}
  Tabs = {t1, t2}
  Conns = {c1, c2}
  NoConn = NoConn
  MaxEdits = 1
  Photos = {1, 2}
  Copies = 1
  MaxFiles = 2
INVARIANTS
  TypeOK
  StatesTold
  TransitionsTold
  StatusKept
  ReliableCopy
  OptionsSafe
  AllServed
PROPERTIES
  SourcesRecover
  ReachesCloud
  OnlyUncheckedRemoved
  PictureSound
  EventuallyShown
