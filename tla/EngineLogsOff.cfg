SPECIFICATION Spec
CONSTANTS
  Confs <- McConfs
  Inis <- McInis
  IpComplete = ip_complete
  FlowDump = udp_complete
  Dirs = 2
  TimeStep = 2
  StableCount = 2
  FirstErrors = 1
  Errors = 1
INVARIANTS
  LogsCanBeDisabled
CHECK_DEADLOCK FALSE
