CONSTANTS
  u1 = u1
  u2 = u2
  u3 = u3
  NoFlow = NoFlow
  Null = Null
  Flows = {u1, u2, u3}
  Buckets = {1, 2}
  HashOf <- TwoBuckets
  Pairs = 2
  SearchDept = 2
  SingletonTime = 1
  IdleTime = 2
  Modes = {TRUE, FALSE}
  Apart = TRUE
  MaxMade = 2
  MaxFlows = 4
SPECIFICATION FairSpec
INVARIANTS TableSound StampsOwn
PROPERTIES PacketHandled ImplementsFlowLog
