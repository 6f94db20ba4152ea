SPECIFICATION Spec
CONSTANTS
  s1 = s1
  u1 = u1
  u2 = u2
  t1 = t1
  t2 = t2
  q1 = q1
  q2 = q2
  counter = counter
  Sales = {s1}
  Cashiers = {u1, u2}
  Admins = {}
  Disputed = {}
  Ticks = {t1}
  Counter = counter
  Requests = {q1}
  MaxFaults = 0
INVARIANTS
  NoSaleLost
CHECK_DEADLOCK FALSE
