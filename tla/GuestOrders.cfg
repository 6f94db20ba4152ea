SPECIFICATION FairSpec
CONSTANTS
  GuestOrderIds = {g1, g2}
  Orders = {o1}
  Sessions = {s1}
  Workers = {w1, w2}
  StaticCode = TRUE
  Kinds <- OnlineKinds
  OnFile <- Accepted
  Price = 3
  MaxRedeem = 1
  Earned = 1
  StartPoints = 1
  Ratings = {1, 5}
  MaxRequests = 3
  None = None
INVARIANTS
  SettledOnce
PROPERTIES
  PaymentSurvives
  CapturedIsPaid
CHECK_DEADLOCK FALSE
