SPECIFICATION FairSpec
CONSTANTS
  c1 = c1
  c2 = c2
  p1 = p1
  p2 = p2
  u1 = u1
  u2 = u2
  w1 = w1
  w2 = w2
  Checkouts = {c1}
  Products = {p1}
  Workers = {w1, w2}
  Customers = {u1, u2}
  MaxQty = 2
  MaxPending = 1
  MaxAttempts = 2
  AppTotal = 550
  CashTotal = 522
  Qty <- LoneQty
  Stock <- LoneStock
  Owner <- LoneOwner
INVARIANTS
  OnlineOrderIsCaptured
  DoorAdmitsOnce
PROPERTIES
  SettlementIsFinal
  CapturedPaymentSettles
CHECK_DEADLOCK FALSE
