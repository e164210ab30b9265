SPECIFICATION FairSpec
CONSTANTS
  Confs <- McConfs
  Inis <- McInis
  IpComplete = ip_complete
  FlowDump = udp_complete
  Dirs = 2
  TimeStep = 2
  StableCount = 2
  FirstErrors = 1
  Errors = 1
INVARIANTS
  OutputSound
PROPERTIES
  OutputKept
  EditsTakeEffect
CHECK_DEADLOCK FALSE
