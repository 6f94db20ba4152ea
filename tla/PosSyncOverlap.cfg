SPECIFICATION Spec
CONSTANTS
  s1 = s1
  u1 = u1
  u2 = u2
  t1 = t1
  t2 = t2
  q1 = q1
  q2 = q2
  counter = counter
  Sales = {s1}
  Cashiers = {u1, u2}
  Admins = {u2}
  Disputed = {s1}
  Ticks = {t1, t2}
  Counter = counter
  Requests = {q1, q2}
  MaxFaults = 1
SYMMETRY Symmetry
INVARIANTS
  TypeOK
  StockMovedOnce
  LocalInvoiceIsReal
PROPERTIES
  KeepsSalePromise
CHECK_DEADLOCK FALSE
