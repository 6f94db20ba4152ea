SPECIFICATION FairSpec
CONSTANTS
  s1 = s1
  u1 = u1
  u2 = u2
  t1 = t1
  t2 = t2
  q1 = q1
  q2 = q2
  counter = counter
  Sales = {s1}
  Cashiers = {u1}
  Admins = {}
  Disputed = {s1}
  Ticks = {t1}
  Counter = counter
  Requests = {q1, q2}
  MaxFaults = 2
INVARIANTS
  LostOnlyIfRefused
PROPERTIES
  SaleReachesServer
  EntryIsSettled
CHECK_DEADLOCK FALSE
