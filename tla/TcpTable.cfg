CONSTANTS
  c1 = c1
  c2 = c2
  c3 = c3
  Free = Free
  Conns = {c1, c2, c3}
  Located = {c1, c2}
  Buckets = {1, 2}
  HashOf <- TwoBuckets
  MaxTcpPairs = 2
  ListSearchDept = 2
  SingletonTime = 1
  IdleTime = 2
  Traffic <- Usual
  Files = 1
  ULongMax = 7
  MaxFlows = 3
  MaxGap = 1
SPECIFICATION Spec
SYMMETRY Symmetry
CHECK_DEADLOCK FALSE
INVARIANTS TableSound StaleBound Conserved
PROPERTY ImplementsFlowLog
