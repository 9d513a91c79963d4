SPECIFICATION OneServiceSpec
CONSTANTS
  u1 = u1  p1 = p1  r1 = r1  r2 = r2  r3 = r3  w1 = w1  w2 = w2
  c1 = c1  i1 = i1  i2 = i2  s1 = s1  s2 = s2
  None = None
  Workers <- TwoWorkers
  Users <- OneUser
  Products <- OneProduct
  StockLevels <- OneOrTwo
  Amounts <- OneOrTwo
  Reviews <- ThreeReviews
  Bought <- AllBought
  Categories <- OneCategory
  Images <- TwoImages
  Sellers <- TwoSellers
SYMMETRY ShopSymmetry
INVARIANTS PersistentCart
