SPECIFICATION Spec
CONSTANTS
  Phones = {p1, p2}
  Tenants = {t1}
  Workers = {w1}
  Alliances = {market, a1}
  Market = market
  Codes = {k1, k2}
  LineIds = {l1}
  Known = {}
  Reward = 2
  Redemptions = {0}
  MaxRequests = 5
  None = None
SYMMETRY Symmetry
CHECK_DEADLOCK FALSE
INVARIANT
  SalesKeepWorking
