SPECIFICATION Spec
CONSTANTS
  o1 = o1
  o2 = o2
  c1 = c1
  c2 = c2
  Orders = {o1, o2}
  Tills = {c1}
  Workers = {w1, w2}
  TotalOf <- MCTotal
  InCash = {o1}
  Floats = {0, 1}
  MaxRequests = 6
  None = None
INVARIANTS
  CountedRightShowsNoDifference
CHECK_DEADLOCK FALSE
