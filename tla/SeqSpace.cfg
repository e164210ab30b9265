CONSTANTS
  NoQuad = NoQuad
  QuadSize = 8
  MaxSegPerQuad = 2
  RetransMod = 256
  Data <- Traffic
  Acks = {4, 6, 10, 20}
  MaxPackets = 5
  MaxTime = 1
  Units = 3
  DupAcks = 1
  RtoMin = 1
  RttMin = 1
  InitialRto = 2
  InitialRttMin = 1
  HalfMeans = {1}
  Estimates <- Trips
  OneByte = {1}
  MaxEvents = 5
  MaxClock = 2
SPECIFICATION McSpec
CHECK_DEADLOCK FALSE
INVARIANTS Structure NothingForgotten Retransmissions SampleUnambiguous
PROPERTY AnomaliesTrue
