SPECIFICATION Spec
CONSTANTS
  o1 = o1  o2 = o2  i1 = i1  i2 = i2  k1 = k1  k2 = k2  w1 = w1  w2 = w2  w3 = w3
  None = None
  Orders <- OneOrder
  Intents <- TwoIntents
  Keys <- OneKey
  Workers <- TwoWorkers
  AdminStatuses <- CancelOnly
  MaxFailures = 1
INVARIANTS PaidOrderHasPayment
