SPECIFICATION FairSpec
CONSTANTS
  Addresses = {a1, a2}
  NoAddress = NoAddress
  NotYet = NotYet
  NoFile = NoFile
  LastDir = LastDir
  Modes = {TRUE, FALSE}
  Dirs = 2
  SleepsSuffice = TRUE
  ThreadedFiles = 1
  MaxFiles = 2
  ThreadedPackets = 2
  MaxPackets = 3
  MaxClosed = 1
  ThreadedFired = 2
  MaxFired = 3
INVARIANTS
  PagesSound
PROPERTIES
  FlushReturns
  PageForEveryFlush
CHECK_DEADLOCK FALSE
