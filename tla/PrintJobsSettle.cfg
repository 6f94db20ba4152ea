SPECIFICATION FairSpec
CONSTANTS
  j1 = j1
  j2 = j2
  a1 = a1
  a2 = a2
  Jobs = {j1, j2}
  Agents = {a1}
  Tills = {a1}
  Serves <- AnyJob
  MaxRetries = 3
  MaxFaults = 2
INVARIANTS
  DoneWasPrinted
  GivenUpAfterTries
PROPERTIES
  JobIsSettled
CHECK_DEADLOCK FALSE
