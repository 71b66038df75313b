SPECIFICATION Spec
CONSTANTS
  ann = ann
  bob = bob
  litter = litter
  Members = {ann, bob, cat, dan}
  Founders = {ann, bob, cat}
  Fines = {f1}
  Rules = {}
  Forms <- OneForm
  Requests = {q1, q2}
  None = None
  Passing = {"confirm", "vote", "pay"}
  MaxComplaintsPerDay = 0
  DuplicateWindow = FALSE
  PaymentVerification = TRUE
SYMMETRY SlotSymmetry
INVARIANTS TypeOK ObligationIffRegistered PaidIsRegistered UpheldByNeutral
PROPERTY DebtIsForever
CHECK_DEADLOCK FALSE
