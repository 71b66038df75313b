SPECIFICATION Spec
CONSTANTS
  Members = {1, 2, 3}
  Tenants = {1, 2, 3}
  Moving = {}
  Costs <- InternetAndAdvance
  RentPayments = {}
  RentTarget = 2
  Transfers = {}
  Requests = {q1}
  None = None
  MaxExpenses = 2
  MaxPlanned = 2
  MaxSent = 1
INVARIANT SharesFollowWeights
PROPERTIES SettleSquares FollowsPlan
CHECK_DEADLOCK FALSE
