SPECIFICATION Spec
CONSTANTS
  c1 = c1
  c2 = c2
  p1 = p1
  p2 = p2
  u1 = u1
  u2 = u2
  w1 = w1
  w2 = w2
  Checkouts = {c1, c2}
  Products = {p1, p2}
  Workers = {w1, w2}
  Customers = {u1, u2}
  MaxQty = 2
  MaxPending = 1
  MaxAttempts = 1
  AppTotal = 550
  CashTotal = 522
  Qty <- MCQty
  Stock <- MCStock
  Owner <- TwoCustomers
SYMMETRY Symmetry
INVARIANTS
  TypeOK
  ReservedMatchesHolds
  StockLedger
  OversoldOnlyByLatePayment
  OneOrderPerSettledCheckout
PROPERTIES
  KeepsStockPromise
CHECK_DEADLOCK FALSE
