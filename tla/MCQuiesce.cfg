CONSTANTS
  x = x
  p = p
  q = q
  s = s
  u = u
  r = r
  w = w
  t1 = t1
  t2 = t2
  t3 = t3
  t4 = t4
  t5 = t5
  t6 = t6
  t7 = t7
  t8 = t8
  t9 = t9
  t10 = t10
  t11 = t11
  t12 = t12
  NumHosts = 2
  Node <- NodeMC
  Owner <- OwnerTwo
  Trade <- TradeMC
  Seller <- SellerMC
  Buyer <- BuyerMC
  Amount <- AmountMC
  Cancelled <- CancelledMC
  Parts = 1
  Unit = 100
SPECIFICATION Spec
INVARIANTS TypeOK NoOversell WithinDesired NeedAccounted LocalTradesBalance MirrorsUpdated
PROPERTY AllReturn
