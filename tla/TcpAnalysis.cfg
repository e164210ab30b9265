SPECIFICATION AnalysisSpec
CONSTANTS
  Confs <- McConfs
  SeqModulus = 16
  Sampling = 2
  MaxMessages = 2
  IdleTime = 3
INVARIANTS
  Sound
  Measures
  MessagesSplit
CHECK_DEADLOCK FALSE
