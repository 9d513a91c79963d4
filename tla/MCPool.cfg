SPECIFICATION FairSpec
CONSTANTS
  r1 = r1  r2 = r2  r3 = r3  o1 = o1  o2 = o2
  None = None
  Requests <- ThreeRequests
  Nesters <- TwoRequests
  Orders <- TwoOrders
  PoolSize = 3
  NestedCalls <- OneOrThree
INVARIANTS TypeOK NeverStuck
PROPERTIES EveryCallReturns
