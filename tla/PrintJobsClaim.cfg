SPECIFICATION Spec
CONSTANTS
  j1 = j1
  j2 = j2
  a1 = a1
  a2 = a2
  Jobs = {j1}
  Agents = {a1, a2}
  Tills = {}
  Serves <- AnyJob
  MaxRetries = 2
  MaxFaults = 0
SYMMETRY Symmetry
INVARIANTS
  ClaimIsExclusive
CHECK_DEADLOCK FALSE
