SPECIFICATION FairThreads
CONSTANTS
  MaxTcpPairs = 3
  MaxUdpPairs = 2
  ListSearchDept = 1
  MaxTcpFlows = 4
  DoUdp = TRUE
  SleepsSuffice = TRUE
  Spurious = TRUE
INVARIANTS
  Safe
PROPERTIES
  FireStartsCleaning
  FireReturns
CHECK_DEADLOCK FALSE
