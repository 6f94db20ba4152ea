SPECIFICATION Spec
CONSTANTS
  o1 = o1
  o2 = o2
  r1 = r1
  r2 = r2
  w1 = w1
  w2 = w2
  Orders = {o1}
  Refunds = {r1}
  Workers = {w1, w2}
  Total <- MCTotal
  OrderOf <- MCOrderOf
  Amount <- MCAmount
SYMMETRY Symmetry
INVARIANTS
  BookedOnce
CHECK_DEADLOCK FALSE
