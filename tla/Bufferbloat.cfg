SPECIFICATION Spec
CONSTANTS
  Rtts = {0, 500, 2000, 5000}
  ChanceLimit = 2
  MaxTime = 4
  MaxAcks = 5
INVARIANTS
  ConnectionSound
  LogTrue
  CarriedOver
CHECK_DEADLOCK FALSE
