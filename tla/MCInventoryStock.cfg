SPECIFICATION Spec
CONSTANTS
  p1 = p1  p2 = p2  r1 = r1  r2 = r2  w1 = w1  w2 = w2
  None = None
  Products <- TwoProducts
  Rows <- TwoRows
  FirstRows <- TwoRows
  ProductOf <- OneEach
  StockQuantity <- OneUnit
  Workers <- TwoWorkers
  Operations <- StockOnly
  Quantities <- OneOrTwo
  Deltas <- EitherWay
  MaxReceipts = 1
INVARIANTS TypeOK LedgerExplainsStock
PROPERTIES ImplementsStockAccount
