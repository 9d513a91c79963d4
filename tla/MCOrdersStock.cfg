SPECIFICATION FairSpec
CONSTANTS
  p1 = p1  p2 = p2  u1 = u1  u2 = u2  o1 = o1  o2 = o2  w1 = w1  w2 = w2
  None = None
  Products <- TwoProducts
  Opening <- TwoUnits
  Users <- OneUser
  Requests <- TwoLines
  Orders <- TwoOrders
  Workers <- TwoWorkers
  MaxRemovals = 0
  MaxFailures = 1
INVARIANTS TypeOK
PROPERTIES EveryCallReturns
