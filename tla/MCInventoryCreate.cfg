SPECIFICATION FairSpec
CONSTANTS
  p1 = p1  p2 = p2  r1 = r1  r2 = r2  w1 = w1  w2 = w2
  None = None
  Products <- OneProduct
  Rows <- TwoRows
  FirstRows <- NoRows
  ProductOf <- AllOfOne
  StockQuantity <- OneUnit
  Workers <- TwoWorkers
  Operations <- EntryPoints
  Quantities <- One
  Deltas <- EitherWay
  MaxReceipts = 1
INVARIANTS LockProtectsEntity SoldWasCommitted
PROPERTIES UnitsNeverVanish EveryCallReturns
