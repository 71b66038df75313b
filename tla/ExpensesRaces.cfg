SPECIFICATION Spec
CONSTANTS
  Members = {1, 2}
  Tenants = {1, 2}
  Moving = {2}
  Costs <- DinnerOrRefused
  RentPayments = {1}
  RentTarget = 1
  Transfers <- Repayment
  Requests = {q1, q2}
  None = None
  MaxExpenses = 1
  MaxPlanned = 1
  MaxSent = 1
SYMMETRY SlotSymmetry
INVARIANTS TypeOK NeverShort
CHECK_DEADLOCK FALSE
