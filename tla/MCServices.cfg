SPECIFICATION OneServiceSpec
CONSTANTS
  u1 = u1  u2 = u2  e1 = e1  c1 = c1  c2 = c2  cp1 = cp1  t1 = t1  t2 = t2  admin = admin  customer = customer
  k1 = k1  w1 = w1  w2 = w2
  None = None
  Workers <- TwoWorkers
  Users <- TwoUsers
  Emails <- OneEmail
  Products = {}
  Coupons <- OneCoupon
  MaxUses = 2
  MaxUsesPerUser = 1
  MaxApprovals = 2
  Roles <- TwoRoles
  Clients <- TwoClients
  Tokens <- TheTokens
  Window <- Windows
  Limit <- Limits
  Keys <- OneReport
  Ttl <- TwoTicks
  Delay = 1
INVARIANTS ServicesTypeOK UsesAreCounted PerUserLimit
  SessionsLostByFailureOnly AccountAsDecided
  OvershootBounded AgeBounded InvalidatedIsGone
PROPERTIES RefusalIsTemporary
