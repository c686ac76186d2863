\* A reader with two records beside one that nobody uses.
CONSTANTS
  r1 = r1
  r2 = r2
  NoReader = NoReader
  Readers <- MCReaders
  PollInterval = 1
  MaxRetry = 2
  DashboardInterval = 1
  Used = {r1}
  MaxLog = 2
  FailureCap = 2
SPECIFICATION FairSpec
INVARIANTS
  TypeOK
  HandledOnce
  NothingSkipped
  AvailabilitySound
PROPERTIES
  EventuallyShown
  EventuallyRead
